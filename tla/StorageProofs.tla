---------------------------- MODULE StorageProofs ----------------------------
(***************************************************************************)
(* Proofs about what handlers do to files, for every number of posts,      *)
(* versions, users, handlers, uploads and failed calls.  About Files:      *)
(* types and the limit of attachments, that what a post shows can be       *)
(* opened, and which files may be lost.  About MissionVersions: types and  *)
(* friendly sides, that an approved version is the reviewed one, and that  *)
(* the file of a version is its own.                                       *)
(***************************************************************************)
EXTENDS Files, MissionVersions, FiniteSetTheorems, TLAPS

-----------------------------------------------------------------------------
(* FILES.  The inductive invariant.                                        *)

\* What a handler has uploaded and not yet shown.
Mine(c) == c.added \union ({c.image} \ {None})

\* The attachments that its row is going to have from it.
Coming(c) == c.added \union {t.file : t \in {s \in c.adds : ~IsPicture(s)}}

\* It is going to write the image.
Replaces(c) == c.clears \/ c.image # None \/ \E t \in c.adds : IsPicture(t)

\* The files whose objects it may remove next, or has removed.
Hidden(c) ==
  ({c.detached, c.emptied} \union c.then
     \union (IF c.op = "avatar" THEN c.first ELSE {})
     \union (IF c.op = "delete" /\ c.writes THEN {} ELSE c.last)) \ {None}

\* What a handler's progress says of the calls it has left.
CallOK(c) ==
  /\ c.op = "idle" => c = Idle
  /\ c.op \in {"create", "update", "delete"} => c.of \in Posts
  /\ c.op = "avatar" =>
       /\ c.of \in Users /\ c.writes /\ c.then = {} /\ c.last = {} /\ c.added = {}
       /\ \A t \in c.adds : IsPicture(t)
  /\ c.op = "create" =>
       /\ c.writes /\ ToRemove(c) = {} /\ ~c.clears
       /\ c.row.kind \in Kinds /\ c.row.attached = {} /\ c.row.image = None
  /\ c.op # "create" => c.row = NoPost
  /\ c.op # "update" => c.detached = None
  /\ c.op = "delete" =>
       /\ c.first = {} /\ c.then = {} /\ c.adds = {} /\ Mine(c) = {}
       /\ c.writes => c.emptied = None
  /\ ~c.writes =>
       c.first = {} /\ c.then = {} /\ c.adds = {} /\ Mine(c) = {} /\ c.detached = None
  /\ c.detached # None => c.emptied = None
  /\ c.clears \/ c.image # None => \A t \in c.adds : ~IsPicture(t)
  /\ c.clears => c.image = None
  /\ c.image \notin c.added
  /\ \A s, t \in c.adds : s.file = t.file \/ (IsPicture(s) /\ IsPicture(t)) => s = t
  /\ \A t \in c.adds : t.key.name \in Names \union {t.file}

Texts == {"message", "missionComment", "planComment"}
Pictured == {"achievement", "mission"}

\* What a handler brings to a post of kind k.
BringsOK(k, c) ==
  /\ k \in Texts => c.image = None /\ \A t \in c.adds : ~IsPicture(t)
  /\ k \in Pictured => c.added = {} /\ \A t \in c.adds : IsPicture(t)
  /\ k = "mission" =>
       /\ c.image # None => file[c.image].bucket = "mission-images"
       /\ \A t \in c.adds : t.key.bucket = "mission-images"

\* Its post, or the one to be.
PlaceOK(c) ==
  /\ c.op = "create" => post[c.of] = NoPost /\ BringsOK(c.row.kind, c)
  /\ c.op = "update" => post[c.of].kind # "none" /\ BringsOK(post[c.of].kind, c)
  /\ c.op = "delete" =>
       post[c.of].kind # "none" /\ (~c.writes => post[c.of] = GonePost)

\* It has no number that is used.
NumbersOK(c) == \A t \in c.adds : t.file <= uploads /\ madeFor[t.file] = None

\* Its uploads are served, and nobody shows them.
HandsOK(c) == \A f \in Mine(c) :
  /\ Exists(f) /\ madeFor[f] = c.of /\ ~Owned(f)
  /\ file[f].name = f => Served(f)

\* It removes files of its subject, and the objects of those not attached.
RemovalsOK(c) ==
  /\ \A f \in ToRemove(c) : madeFor[f] = c.of
  /\ \A f \in Hidden(c), p \in Posts : f \notin post[p].attached

\* Alone, it removes what its write is going to replace.
CoverOK(c) == c.writes =>
  /\ c.op = "update" /\ Live(c.of) /\ Replaces(c) =>
       post[c.of].image \in {None} \union ToRemove(c) \/ post[c.of].kind = "mission"
  /\ c.op = "delete" /\ Live(c.of) => Shown(c.of) \subseteq c.last
  /\ c.op = "avatar" => avatar[c.of] \in {None} \union ToRemove(c)

\* Alone, it keeps the limit.
RoomOK(c) == c.writes /\ c.op \in {"create", "update"} =>
  Cardinality((post[c.of].attached \ c.first) \union Coming(c)) <= MaxAttachments

HandlerOK(c) ==
  /\ CallOK(c) /\ PlaceOK(c) /\ NumbersOK(c) /\ HandsOK(c) /\ RemovalsOK(c)
  /\ c.of \notin clashed => CoverOK(c) /\ RoomOK(c)

\* Two handlers: those of one subject clash, but a row has one creator; and what one
\* uploads is not the other's.
PairOK(c, d) ==
  /\ c.op = "create" => c.of # d.of
  /\ c.of = d.of /\ c.op # "idle" => c.of \in clashed
  /\ \A s \in c.adds, t \in d.adds : s.file # t.file
  /\ Mine(c) \intersect Mine(d) = {}

\* A number makes one file.
FilesOK == \A f \in Files :
  /\ f > uploads => madeFor[f] = None
  /\ Exists(f) => madeFor[f] # None /\ file[f].name \in Names \union {f}

\* A post shows the files that were made for it, and what its kind shows.
ShownOK ==
  /\ \A p \in Posts : \A f \in Shown(p) : madeFor[f] = p
  /\ \A u \in Users : avatar[u] # None => madeFor[avatar[u]] = u
  /\ \A p \in Posts :
       /\ post[p].image \notin post[p].attached
       /\ post[p].kind \in Texts => post[p].image = None
       /\ post[p].kind \in Pictured => post[p].attached = {}
       /\ post[p].kind = "mission" /\ post[p].image # None =>
            file[post[p].image].bucket = "mission-images"

\* An attachment is served, and an image but for a removal under way or broken off.
ServedOK == \A p \in Posts : \A f \in Shown(p) : file[f].name = f /\ ~Served(f) =>
  f \notin post[p].attached /\ (p \in cut \/ \E r \in Requests : req[r].emptied = f)

FilesTypes ==
  /\ StorageTypeOK
  /\ post \in [Posts -> PostRows]
  /\ avatar \in [Users -> Files \union {None}]
  /\ req \in [Requests -> Calls]
  /\ madeFor \in [Files -> Subjects \union {None}]
  /\ clashed \subseteq Subjects /\ cut \subseteq Subjects

\* Rows that are no posts are empty; foreign keys.
RowsOK ==
  /\ \A p \in Posts : ~Live(p) => post[p] \in {NoPost, GonePost}
  /\ \A p \in Posts, f \in Files : f \in Shown(p) => Exists(f)
  /\ \A u \in Users : avatar[u] # None => Exists(avatar[u])

FilesInv ==
  /\ FilesTypes /\ RowsOK /\ AttachmentLimit
  /\ \A r \in Requests : HandlerOK(req[r])
  /\ \A r, q \in Requests : r # q => PairOK(req[r], req[q])
  /\ \A r, q \in Requests : Mine(req[r]) \intersect ToRemove(req[q]) = {}
  /\ FilesOK /\ ShownOK /\ ServedOK /\ NoFileIsLost

-----------------------------------------------------------------------------
(* FILES.  Calls, and the parts of them.                                   *)

LEMMA FileNumbers ==
  /\ Files \subseteq Int /\ None \notin Files /\ Names \intersect Files = {}
  /\ None \notin Posts /\ None \notin Users /\ None \notin Names /\ Posts \intersect Users = {}
  /\ NoFile \notin Keys
  /\ MaxFiles \in Nat /\ MaxFaults \in Nat /\ MaxAttachments \in Nat
  BY StorageAssumption, FilesAssumption DEF Files, Keys, NoFile

LEMMA FiniteFiles ==
  ASSUME NEW S \in SUBSET Files PROVE IsFiniteSet(S) /\ Cardinality(S) \in Nat
<1>1. IsFiniteSet(Files)
  BY FileNumbers, FS_Interval DEF Files
<1> QED BY <1>1, FS_Subset, FS_CardinalityType

LEMMA FewerFiles ==
  ASSUME NEW T \in SUBSET Files, NEW S \in SUBSET T PROVE Cardinality(S) <= Cardinality(T)
  BY FiniteFiles, FS_Subset

LEMMA IdleCall ==
  /\ Idle \in Calls /\ Idle.op = "idle" /\ Idle.of = None /\ Idle.first = {}
  /\ Idle.detached = None /\ Idle.emptied = None /\ Idle.adds = {} /\ Idle.then = {}
  /\ Idle.writes = FALSE /\ Idle.last = {} /\ Idle.added = {} /\ Idle.image = None
  /\ Idle.row = NoPost /\ Idle.clears = FALSE
  /\ Mine(Idle) = {} /\ ToRemove(Idle) = {} /\ Hidden(Idle) = {}
  BY DEF Idle, Calls, PostRows, NoPost, Mine, ToRemove, Hidden

LEMMA IdleOK ==
  /\ CallOK(Idle) /\ HandlerOK(Idle) /\ HandlerOK(Idle)'
  BY IdleCall, FileNumbers DEF CallOK, HandlerOK, PlaceOK, NumbersOK, HandsOK, RemovalsOK,
    CoverOK, RoomOK

LEMMA CallType ==
  ASSUME NEW c \in Calls
  PROVE  /\ c.op \in {"idle", "create", "update", "delete", "avatar"}
         /\ c.of \in Subjects \union {None} /\ c.row \in PostRows
         /\ c.first \in SUBSET Files /\ c.then \in SUBSET Files /\ c.last \in SUBSET Files
         /\ c.detached \in Files \union {None} /\ c.emptied \in Files \union {None}
         /\ c.adds \in SUBSET Uploads /\ c.writes \in BOOLEAN /\ c.clears \in BOOLEAN
         /\ c.added \in SUBSET Files /\ c.image \in Files \union {None}
         /\ Mine(c) \in SUBSET Files /\ ToRemove(c) \in SUBSET Files
         /\ Hidden(c) \in SUBSET Files
<1>1. /\ c.op \in {"idle", "create", "update", "delete", "avatar"}
      /\ c.of \in Subjects \union {None} /\ c.row \in PostRows
      /\ c.first \in SUBSET Files /\ c.then \in SUBSET Files /\ c.last \in SUBSET Files
      /\ c.detached \in Files \union {None} /\ c.emptied \in Files \union {None}
      /\ c.adds \in SUBSET Uploads /\ c.writes \in BOOLEAN /\ c.clears \in BOOLEAN
      /\ c.added \in SUBSET Files /\ c.image \in Files \union {None}
  BY DEF Calls
<1> QED BY <1>1 DEF Mine, ToRemove, Hidden

\* After the removal of f, a handler is less of what it was: x, which has d for the file
\* detached and e for the one emptied.
Reduced(x, c, f, d, e) ==
  /\ x \in Calls
  /\ x.op = c.op /\ x.of = c.of /\ x.row = c.row /\ x.writes = c.writes
  /\ x.adds = c.adds /\ x.added = c.added /\ x.image = c.image /\ x.clears = c.clears
  /\ x.first = c.first \ {f} /\ x.then = c.then \ {f} /\ x.last = c.last \ {f}
  /\ x.detached = d /\ x.emptied = e

LEMMA WithoutIsReduced ==
  ASSUME NEW c \in Calls, NEW f, NEW e \in Files \union {None}
  PROVE  /\ Reduced(Without(c, f), c, f, None, None)
         /\ Reduced([Without(c, f) EXCEPT !.detached = e], c, f, e, None)
         /\ Reduced([Without(c, f) EXCEPT !.emptied = e], c, f, None, e)
  BY DEF Calls, Without, Reduced

LEMMA ReducedSets ==
  ASSUME NEW c, NEW x, NEW f, NEW d, NEW e, Reduced(x, c, f, d, e)
  PROVE  /\ Mine(x) = Mine(c) /\ Coming(x) = Coming(c) /\ (Replaces(x) <=> Replaces(c))
         /\ ToRemove(x) \subseteq ToRemove(c) \union {d, e}
         /\ Hidden(x) \subseteq Hidden(c) \union {d, e}
         /\ None \notin ToRemove(x) \union Hidden(x)
<1>1. Mine(x) = Mine(c) /\ Coming(x) = Coming(c) /\ (Replaces(x) <=> Replaces(c))
  BY DEF Reduced, Mine, Coming, Replaces
<1>2. ToRemove(x) \subseteq ToRemove(c) \union {d, e}
  BY DEF Reduced, ToRemove
<1>3. Hidden(x) \subseteq Hidden(c) \union {d, e}
  BY DEF Reduced, Hidden
<1>4. None \notin ToRemove(x) \union Hidden(x)
  BY DEF Hidden, ToRemove
<1> QED BY <1>1, <1>2, <1>3, <1>4

LEMMA WrittenFields ==
  ASSUME NEW c \in Calls
  PROVE  LET w == Written(c)
         IN /\ w \in Calls
            /\ w.op = c.op /\ w.of = c.of /\ w.row = c.row /\ w.adds = c.adds
            /\ w.first = c.first /\ w.then = c.then /\ w.last = c.last /\ w.clears = c.clears
            /\ w.detached = c.detached /\ w.emptied = c.emptied
            /\ w.writes = FALSE /\ w.added = {} /\ w.image = None
  BY DEF Calls, Written

LEMMA UploadedFields ==
  ASSUME NEW c \in Calls, NEW t \in Uploads
  PROVE  LET i == [c EXCEPT !.adds = @ \ {t}, !.image = t.file]
             a == [c EXCEPT !.adds = @ \ {t}, !.added = @ \union {t.file}]
         IN /\ i \in Calls /\ a \in Calls
            /\ \A x \in {i, a} :
                 /\ x.op = c.op /\ x.of = c.of /\ x.row = c.row /\ x.writes = c.writes
                 /\ x.first = c.first /\ x.then = c.then /\ x.last = c.last
                 /\ x.detached = c.detached /\ x.emptied = c.emptied
                 /\ x.clears = c.clears /\ x.adds = c.adds \ {t}
            /\ i.added = c.added /\ i.image = t.file
            /\ a.added = c.added \union {t.file} /\ a.image = c.image
  BY DEF Calls, Uploads

LEMMA UploadTypes ==
  ASSUME NEW c \in Calls, NEW t \in c.adds
  PROVE  t \in Uploads /\ t.file \in Files /\ t.file \in Int /\ t.key \in Keys
<1>1. t \in Uploads
  BY CallType
<1> QED BY <1>1, FileNumbers DEF Uploads

-----------------------------------------------------------------------------
(* FILES.  A handler begins.                                               *)

LEMMA InvParts ==
  ASSUME FilesInv
  PROVE  /\ FilesTypes /\ RowsOK /\ AttachmentLimit /\ FilesOK /\ ShownOK /\ ServedOK
         /\ NoFileIsLost
         /\ \A r \in Requests :
              /\ req[r] \in Calls /\ CallOK(req[r]) /\ PlaceOK(req[r]) /\ NumbersOK(req[r])
              /\ HandsOK(req[r]) /\ RemovalsOK(req[r])
              /\ req[r].of \notin clashed => CoverOK(req[r]) /\ RoomOK(req[r])
         /\ \A r, q \in Requests :
              /\ Mine(req[r]) \intersect ToRemove(req[q]) = {}
              /\ r # q => PairOK(req[r], req[q])
  BY DEF FilesInv, HandlerOK, FilesTypes

\* What a call has to be when it begins with n uploads.
NewCall(c, n) ==
  /\ c \in Calls /\ c.op # "idle"
  /\ CallOK(c) /\ PlaceOK(c) /\ RemovalsOK(c) /\ CoverOK(c) /\ RoomOK(c)
  /\ Mine(c) = {} /\ c.emptied = None
  /\ c.op = "create" => \A q \in Requests : req[q].of # c.of
  /\ \A f \in ToRemove(c) : Owned(f)
  /\ \A t \in c.adds : uploads < t.file /\ t.file <= uploads + n

LEMMA StartKeeps ==
  ASSUME FilesInv, NEW r \in Requests, NEW c, NEW n \in Nat, NewCall(c, n), Start(r, c, n)
  PROVE  FilesInv'
<1>1. /\ req[r].op = "idle" /\ uploads + n <= MaxFiles /\ uploads' = uploads + n
      /\ req' = [req EXCEPT ![r] = c]
      /\ clashed' = clashed \union {o \in {c.of} : \E q \in Requests : req[q].of = o}
      /\ UNCHANGED <<file, stored, post, avatar, faults, madeFor, cut>>
  BY DEF Start, Begin
<1>2. /\ c \in Calls /\ c.op # "idle" /\ c.of \in Subjects /\ c.of # None
  BY FileNumbers DEF NewCall, CallOK, Calls, Subjects
<1>3. uploads \in Nat /\ uploads <= uploads' /\ uploads' \in 0..MaxFiles
  BY InvParts, <1>1, FileNumbers DEF FilesTypes, StorageTypeOK
<1>4. \A q \in Requests : req'[q] = IF q = r THEN c ELSE req[q]
  BY InvParts, <1>1 DEF FilesTypes
<1>5. req[r] = Idle
  BY InvParts, <1>1 DEF CallOK
<1>6. clashed \subseteq clashed' /\ clashed' \subseteq Subjects
  BY InvParts, <1>1, <1>2 DEF FilesTypes
<1>7. FilesTypes' /\ RowsOK' /\ AttachmentLimit'
  <2>1. FilesTypes'
    BY InvParts, <1>1, <1>2, <1>3, <1>6 DEF FilesTypes, StorageTypeOK
  <2>2. RowsOK'
    BY InvParts, <1>1 DEF RowsOK, Live, Shown, Exists
  <2>3. AttachmentLimit'
    BY InvParts, <1>1, <1>6 DEF AttachmentLimit
  <2> QED BY <2>1, <2>2, <2>3
<1>8. ASSUME NEW q \in Requests, q # r PROVE HandlerOK(req[q])'
  <2>1. req'[q] = req[q]
    BY <1>4, <1>8
  <2>2. CallOK(req[q])'
    BY InvParts, <2>1 DEF CallOK
  <2>3. PlaceOK(req[q])'
    BY InvParts, <2>1, <1>1 DEF PlaceOK, BringsOK
  <2>4. NumbersOK(req[q])'
    <3>1. req[q] \in Calls
      BY InvParts
    <3>2. \A t \in req[q].adds : t.file \in Int
      BY <3>1, UploadTypes
    <3> QED BY InvParts, <2>1, <1>1, <1>3, <3>2 DEF NumbersOK
  <2>5. HandsOK(req[q])' /\ RemovalsOK(req[q])'
    BY InvParts, <2>1, <1>1 DEF HandsOK, RemovalsOK, Exists, Owned, Shown, Served
  <2>6. (req[q].of \notin clashed => CoverOK(req[q]) /\ RoomOK(req[q]))'
    BY InvParts, <2>1, <1>1, <1>6 DEF CoverOK, RoomOK, Live, Shown
  <2> QED BY <2>2, <2>3, <2>4, <2>5, <2>6 DEF HandlerOK
<1>9. HandlerOK(req[r])'
  <2>1. req'[r] = c
    BY <1>4
  <2>2. CallOK(c)' /\ PlaceOK(c)' /\ RemovalsOK(c)' /\ CoverOK(c)' /\ RoomOK(c)'
    BY <1>1 DEF NewCall, CallOK, PlaceOK, BringsOK, RemovalsOK, CoverOK, RoomOK, Live, Shown
  <2>3. NumbersOK(c)'
    <3>1. ASSUME NEW t \in c.adds PROVE t.file <= uploads' /\ madeFor'[t.file] = None
      <4>1. t.file \in Files /\ t.file > uploads
        BY <1>2, <1>3, CallType, FileNumbers DEF NewCall, Uploads
      <4> QED BY <4>1, <1>1, InvParts DEF NewCall, FilesOK
    <3> QED BY <3>1 DEF NumbersOK
  <2>4. HandsOK(c)'
    BY DEF NewCall, HandsOK
  <2> QED BY <2>1, <2>2, <2>3, <2>4 DEF HandlerOK
<1>10. ASSUME NEW q \in Requests, NEW s \in Requests, q # s PROVE PairOK(req[q], req[s])'
  <2>1. ASSUME NEW k \in Requests, k # r PROVE PairOK(c, req[k])' /\ PairOK(req[k], c)'
    <3>1. ASSUME NEW t \in c.adds, NEW u \in req[k].adds PROVE t.file # u.file
      <4>1. uploads < t.file /\ u.file <= uploads /\ u.file \in Int /\ t.file \in Int
        <5>1. req[k] \in Calls /\ NumbersOK(req[k])
          BY InvParts
        <5>2. t.file \in Int /\ u.file \in Int
          BY <5>1, <1>2, UploadTypes
        <5> QED BY <5>1, <5>2 DEF NewCall, NumbersOK
      <4> QED BY <4>1, <1>3
    <3>2. c.of = req[k].of => c.of \in clashed'
      BY <1>1
    <3>3. (c.op = "create" => c.of # req[k].of) /\ (req[k].op = "create" => req[k].of # c.of)
      <4>1. /\ req[k].op = "create" => post[req[k].of] = NoPost /\ req[k].of \in Posts
            /\ c.op = "update" \/ c.op = "delete" => post[c.of].kind # "none"
            /\ c.op = "avatar" => c.of \in Users
        BY InvParts DEF PlaceOK, CallOK, NewCall
      <4>2. c.op = "create" => c.of # req[k].of
        BY DEF NewCall
      <4>3. c.op \in {"create", "update", "delete", "avatar"}
        BY <1>2, CallType
      <4> QED BY <4>1, <4>2, <4>3, FileNumbers DEF NoPost
    <3> QED BY <3>1, <3>2, <3>3, <1>4, <2>1 DEF PairOK, NewCall
  <2>2. CASE q # r /\ s # r
    BY <2>2, <1>4, <1>6, <1>10, InvParts DEF PairOK
  <2> QED BY <2>1, <2>2, <1>4, <1>10
<1>11. ASSUME NEW q \in Requests, NEW s \in Requests
       PROVE  (Mine(req[q]) \intersect ToRemove(req[s]) = {})'
  <2>1. \A k \in Requests : Mine(req[k]) \intersect ToRemove(c) = {}
    BY InvParts DEF NewCall, HandsOK
  <2>2. Mine(c) = {}
    BY DEF NewCall
  <2> QED BY <2>1, <2>2, <1>4, InvParts
<1>12. FilesOK' /\ ShownOK'
  <2>1. \A f \in Files : f > uploads' => f > uploads
    BY <1>3, FileNumbers
  <2> QED BY InvParts, <1>1, <2>1 DEF FilesOK, ShownOK, Exists, Shown
<1>13. ServedOK'
  <2>1. \A f \in Files : \A q \in Requests : req[q].emptied = f => req'[q].emptied = f
    BY <1>4, <1>5, IdleCall, FileNumbers
  <2>2. \A p \in Posts : Shown(p) \subseteq Files
    BY InvParts DEF FilesTypes, Shown, PostRows
  <2> QED BY InvParts, <1>1, <2>1, <2>2 DEF ServedOK, Shown, Served
<1>14. NoFileIsLost'
  <2>1. ASSUME NEW f \in Files, Held(f) PROVE Held(f)'
    BY <2>1, <1>4, <1>5, IdleCall, FileNumbers DEF Held
  <2> QED BY InvParts, <1>1, <1>6, <2>1 DEF NoFileIsLost, Exists, Owned, Shown
<1> QED BY <1>7, <1>8, <1>9, <1>10, <1>11, <1>12, <1>13, <1>14 DEF FilesInv

\* What an upload of some names, and of an image, is going to add.
NewUploads(names, bucket, image) == Attachments(names) \union Picture(names, bucket, image)
Count(names, image) == Len(names) + (IF image THEN 1 ELSE 0)

ListOK(names) ==
  /\ Len(names) \in Nat /\ Len(names) <= MaxAttachments /\ DOMAIN names = 1..Len(names)
  /\ \A i \in DOMAIN names : names[i] \in Names \union {None}

LEMMA NamesAreLists ==
  /\ ListOK(<<>>) /\ Len(<<>>) = 0
  /\ \A names \in NameLists : ListOK(names)
<1>1. ListOK(<<>>) /\ Len(<<>>) = 0
  BY FileNumbers DEF ListOK
<1>2. ASSUME NEW names \in NameLists PROVE ListOK(names)
  <2>1. PICK n \in 0..MaxAttachments : names \in [1..n -> Names \union {None}]
    BY DEF NameLists
  <2>2. n \in Nat /\ n <= MaxAttachments
    BY FileNumbers
  <2>3. Len(names) = n /\ DOMAIN names = 1..n
    BY <2>1, <2>2
  <2> QED BY <2>1, <2>2, <2>3 DEF ListOK
<1> QED BY <1>1, <1>2

LEMMA AttachmentIs ==
  ASSUME uploads \in Nat, NEW names, ListOK(names), uploads + Len(names) <= MaxFiles,
         NEW t \in Attachments(names)
  PROVE  /\ t \in Uploads /\ ~IsPicture(t) /\ Len(names) # 0
         /\ uploads < t.file /\ t.file <= uploads + Len(names)
         /\ t.key.name \in Names \union {t.file}
         /\ \A s \in Attachments(names) : s.file = t.file => s = t
<1>1. PICK i \in DOMAIN names : t = Numbered(i, "message-attachments", names[i])
  BY DEF Attachments
<1>2. i \in Nat /\ 1 <= i /\ i <= Len(names) /\ uploads + i \in Files
  BY <1>1, FileNumbers DEF ListOK, Files
<1>3. /\ t.file = uploads + i /\ t.key.bucket = "message-attachments"
      /\ t.key.name \in Names \union {t.file} /\ t.key \in Keys /\ t \in Uploads
  BY <1>1, <1>2 DEF Numbered, Keys, Buckets, Uploads, ListOK
<1>4. ASSUME NEW s \in Attachments(names), s.file = t.file PROVE s = t
  <2>1. PICK j \in DOMAIN names : s = Numbered(j, "message-attachments", names[j])
    BY DEF Attachments
  <2>2. j \in Nat /\ s.file = uploads + j
    BY <2>1 DEF Numbered, ListOK
  <2>3. i = j
    BY <2>2, <1>2, <1>3, <1>4
  <2> QED BY <2>1, <2>3, <1>1
<1> QED BY <1>2, <1>3, <1>4 DEF IsPicture, ListOK

LEMMA PictureIs ==
  ASSUME uploads \in Nat, NEW names, ListOK(names), NEW image \in BOOLEAN,
         NEW bucket \in Buckets \ {"message-attachments"},
         uploads + Count(names, image) <= MaxFiles, NEW t \in Picture(names, bucket, image)
  PROVE  /\ t \in Uploads /\ IsPicture(t) /\ image /\ t.key.bucket = bucket
         /\ t.file = uploads + Len(names) + 1 /\ t.key.name = t.file
         /\ \A s \in Picture(names, bucket, image) : s = t
<1>1. /\ image /\ t = Numbered(Len(names) + 1, bucket, None)
      /\ \A s \in Picture(names, bucket, image) : s = t
  BY DEF Picture
<1>2. Len(names) + 1 \in Nat /\ uploads + (Len(names) + 1) \in Files
  BY <1>1, FileNumbers DEF ListOK, Files, Count
<1>3. /\ t.file = uploads + (Len(names) + 1) /\ t.key.bucket = bucket /\ t.key.name = t.file
      /\ t.key \in Keys /\ t \in Uploads
  BY <1>1, <1>2 DEF Numbered, Keys, Uploads
<1>4. uploads + (Len(names) + 1) = uploads + Len(names) + 1
  BY DEF ListOK
<1>5. IsPicture(t)
  BY <1>3 DEF IsPicture
<1> QED BY <1>1, <1>3, <1>4, <1>5

LEMMA NewUploadsAre ==
  ASSUME uploads \in Nat, NEW names, ListOK(names), NEW image \in BOOLEAN,
         NEW bucket, image => bucket \in Buckets \ {"message-attachments"},
         uploads + Count(names, image) <= MaxFiles
  PROVE  LET adds == NewUploads(names, bucket, image)
         IN /\ Count(names, image) \in Nat
            /\ \A t \in adds :
                 /\ t \in Uploads /\ uploads < t.file
                 /\ t.file <= uploads + Count(names, image)
                 /\ t.key.name \in Names \union {t.file}
                 /\ IsPicture(t) => image /\ t.key.bucket = bucket
                 /\ ~IsPicture(t) => Len(names) # 0
            /\ \A s, t \in adds :
                 s.file = t.file \/ (IsPicture(s) /\ IsPicture(t)) => s = t
            /\ {t.file : t \in {s \in adds : ~IsPicture(s)}}
                 \subseteq {uploads + i : i \in 1..Len(names)}
<1> DEFINE adds == NewUploads(names, bucket, image)
<1>1. Len(names) \in Nat /\ Count(names, image) \in Nat /\ Len(names) <= Count(names, image)
      /\ (image => Len(names) + 1 = Count(names, image))
  BY DEF ListOK, Count
<1>2. uploads + Len(names) <= MaxFiles
  BY <1>1, FileNumbers
<1>3. ASSUME NEW t \in Attachments(names)
      PROVE  /\ t \in Uploads /\ ~IsPicture(t) /\ Len(names) # 0
             /\ uploads < t.file /\ t.file <= uploads + Len(names)
             /\ t.key.name \in Names \union {t.file}
             /\ \A s \in Attachments(names) : s.file = t.file => s = t
  BY <1>2, AttachmentIs
<1>4. ASSUME NEW t \in Picture(names, bucket, image)
      PROVE  /\ t \in Uploads /\ IsPicture(t) /\ image /\ t.key.bucket = bucket
             /\ t.file = uploads + Len(names) + 1 /\ t.key.name = t.file
             /\ \A s \in Picture(names, bucket, image) : s = t
  <2>1. image
    BY DEF Picture
  <2> QED BY <2>1, PictureIs
<1>5. ASSUME NEW t \in adds
      PROVE  /\ t \in Uploads /\ uploads < t.file
             /\ t.file <= uploads + Count(names, image)
             /\ t.key.name \in Names \union {t.file}
             /\ IsPicture(t) => image /\ t.key.bucket = bucket
             /\ ~IsPicture(t) => Len(names) # 0
  <2>1. \A u \in Uploads : u.file \in Int
    BY FileNumbers DEF Uploads
  <2>2. CASE t \in Attachments(names)
    BY <2>1, <2>2, <1>1, <1>3
  <2>3. CASE t \in Picture(names, bucket, image)
    BY <2>1, <2>3, <1>1, <1>4
  <2> QED BY <2>2, <2>3 DEF NewUploads
<1>6. ASSUME NEW s \in adds, NEW t \in adds,
             s.file = t.file \/ (IsPicture(s) /\ IsPicture(t))
      PROVE  s = t
  <2>1. CASE s \in Attachments(names) /\ t \in Attachments(names)
    BY <2>1, <1>3, <1>6
  <2>2. CASE s \in Picture(names, bucket, image) /\ t \in Picture(names, bucket, image)
    BY <2>2, <1>4
  <2>3. ASSUME NEW a \in Attachments(names), NEW b \in Picture(names, bucket, image)
        PROVE  a.file # b.file /\ ~(IsPicture(a) /\ IsPicture(b))
    <3>1. a.file \in Int /\ a.file <= uploads + Len(names) /\ ~IsPicture(a)
      BY <1>3, FileNumbers DEF Uploads
    <3>2. b.file = uploads + Len(names) + 1
      BY <1>4
    <3> QED BY <3>1, <3>2, <1>1
  <2> QED BY <2>1, <2>2, <2>3, <1>6 DEF NewUploads
<1>7. {t.file : t \in {s \in adds : ~IsPicture(s)}} \subseteq {uploads + i : i \in 1..Len(names)}
  <2>1. ASSUME NEW t \in adds, ~IsPicture(t) PROVE t.file \in {uploads + i : i \in 1..Len(names)}
    <3>1. t \in Attachments(names)
      BY <2>1, <1>4 DEF NewUploads
    <3>2. PICK i \in DOMAIN names : t = Numbered(i, "message-attachments", names[i])
      BY <3>1 DEF Attachments
    <3> QED BY <3>2 DEF Numbered, ListOK
  <2> QED BY <2>1
<1> HIDE DEF adds
<1> QED BY <1>1, <1>5, <1>6, <1>7 DEF adds

\* Attachments that stay and those to come are within the limit.
LEMMA RoomForNew ==
  ASSUME NEW S \in SUBSET Files, NEW T \in SUBSET Files, NEW k \in Nat, NEW a \in Nat,
         T \subseteq {a + i : i \in 1..k}, Cardinality(S) + k <= MaxAttachments
  PROVE  Cardinality(S \union T) <= MaxAttachments
<1>1. T \subseteq (a + 1)..(a + k)
  OBVIOUS
<1>2. IsFiniteSet((a + 1)..(a + k)) /\ Cardinality((a + 1)..(a + k)) = k
  <2>1. a + 1 \in Int /\ a + k \in Int
    OBVIOUS
  <2>2. IF a + 1 > a + k THEN k = 0 ELSE (a + k) - (a + 1) + 1 = k
    OBVIOUS
  <2> QED BY <2>1, <2>2, FS_Interval
<1>3. Cardinality(T) <= k
  BY <1>1, <1>2, FS_Subset
<1>4. /\ IsFiniteSet(S) /\ IsFiniteSet(T) /\ Cardinality(S) \in Nat /\ Cardinality(T) \in Nat
      /\ Cardinality(S \intersect T) \in Nat
  BY FiniteFiles
<1>5. Cardinality(S \union T) = Cardinality(S) + Cardinality(T) - Cardinality(S \intersect T)
  BY <1>4, FS_Union
<1> QED BY <1>3, <1>4, <1>5, FileNumbers

LEMMA ComingAre ==
  ASSUME NEW c, c.added = {}, NEW names, NEW bucket, NEW image,
         c.adds = NewUploads(names, bucket, image)
  PROVE  Coming(c) = {t.file : t \in {s \in NewUploads(names, bucket, image) : ~IsPicture(s)}}
  BY DEF Coming

LEMMA CreateIsNew ==
  ASSUME FilesInv, NEW r \in Requests, NEW p \in Posts, NEW row \in PostRows, NEW names,
         ListOK(names), NEW image \in BOOLEAN,
         NEW bucket, image => bucket \in Buckets \ {"message-attachments"},
         row.kind \in Kinds, row.attached = {}, row.image = None,
         row.kind \in Texts => ~image, row.kind \in Pictured => Len(names) = 0,
         row.kind = "mission" => bucket = "mission-images",
         Create(r, p, row, names, bucket, image)
  PROVE  FilesInv'
<1> DEFINE adds == NewUploads(names, bucket, image)
           c == [Idle EXCEPT !.op = "create", !.of = p, !.row = row, !.writes = TRUE,
                             !.adds = adds]
           n == Count(names, image)
<1>1. post[p] = NoPost /\ Start(r, c, n) /\ \A q \in Requests : req[q].of # p
  BY DEF Create, Count, NewUploads
<1>2. uploads \in Nat /\ uploads + n <= MaxFiles
  BY <1>1, InvParts, FileNumbers DEF Start, Begin, FilesTypes, StorageTypeOK
<1>3. /\ n \in Nat
      /\ \A t \in adds :
           /\ t \in Uploads /\ uploads < t.file /\ t.file <= uploads + n
           /\ t.key.name \in Names \union {t.file}
           /\ IsPicture(t) => image /\ t.key.bucket = bucket
           /\ ~IsPicture(t) => Len(names) # 0
      /\ \A s, t \in adds : s.file = t.file \/ (IsPicture(s) /\ IsPicture(t)) => s = t
      /\ {t.file : t \in {s \in adds : ~IsPicture(s)}} \subseteq {uploads + i : i \in 1..Len(names)}
  BY <1>2, NewUploadsAre
<1>4. /\ c.op = "create" /\ c.of = p /\ c.row = row /\ c.first = {} /\ c.detached = None
      /\ c.emptied = None /\ c.adds = adds /\ c.then = {} /\ c.writes = TRUE /\ c.last = {}
      /\ c.added = {} /\ c.image = None /\ c.clears = FALSE
  BY DEF Idle
<1>5. c \in Calls
  <2>1. adds \in SUBSET Uploads
    BY <1>3
  <2> HIDE DEF adds
  <2> QED BY <2>1, IdleCall DEF Calls, Subjects
<1> HIDE DEF adds, c, n
<1>6. Mine(c) = {} /\ ToRemove(c) = {} /\ Hidden(c) = {}
  BY <1>4 DEF Mine, ToRemove, Hidden
<1>7. CallOK(c)
  BY <1>3, <1>4, <1>6 DEF CallOK
<1>8. PlaceOK(c)
  <2>1. row.kind \in Texts => \A t \in adds : ~IsPicture(t)
    BY <1>3
  <2>2. row.kind \in Pictured => \A t \in adds : IsPicture(t)
    BY <1>3
  <2>3. row.kind = "mission" => \A t \in adds : t.key.bucket = "mission-images"
    BY <1>3, <2>2 DEF Pictured
  <2> QED BY <1>1, <1>4, <2>1, <2>2, <2>3 DEF PlaceOK, BringsOK
<1>9. RemovalsOK(c) /\ CoverOK(c)
  BY <1>4, <1>6 DEF RemovalsOK, CoverOK
<1>10. RoomOK(c)
  <2>1. Coming(c) \subseteq {uploads + i : i \in 1..Len(names)}
    BY <1>3, <1>4, ComingAre DEF adds
  <2>2. Coming(c) \in SUBSET Files
    BY <1>5, <1>4, UploadTypes DEF Coming
  <2>3. post[c.of].attached \ c.first = {}
    BY <1>1, <1>4 DEF NoPost
  <2>4. Cardinality({}) = 0
    BY FS_EmptySet
  <2>5. Cardinality({} \union Coming(c)) <= MaxAttachments
    <3>1. {} \in SUBSET Files /\ Len(names) \in Nat
      BY DEF ListOK
    <3>2. Cardinality({}) + Len(names) <= MaxAttachments
      BY <2>4 DEF ListOK
    <3> QED BY <1>2, <2>1, <2>2, <3>1, <3>2, RoomForNew
  <2> QED BY <2>3, <2>5 DEF RoomOK
<1>11. NewCall(c, n)
  BY <1>1, <1>3, <1>4, <1>5, <1>6, <1>7, <1>8, <1>9, <1>10 DEF NewCall
<1> QED BY <1>1, <1>3, <1>11, StartKeeps

LEMMA UpdateIsNew ==
  ASSUME FilesInv, NEW r \in Requests, NEW p \in Posts, Live(p), NEW removed, NEW names,
         ListOK(names), NEW image \in BOOLEAN, NEW clears \in BOOLEAN, clears => ~image,
         NEW bucket, image => bucket \in Buckets \ {"message-attachments"},
         NEW then \in SUBSET OldImage(p), NEW last \in SUBSET OldImage(p),
         image \/ clears => OldImage(p) \subseteq then \union last \/ post[p].kind = "mission",
         post[p].kind \in Texts => ~image, post[p].kind \in Pictured => Len(names) = 0,
         post[p].kind = "mission" => bucket = "mission-images",
         Update(r, p, removed, names, bucket, image, then, last, clears)
  PROVE  FilesInv'
<1> DEFINE adds == NewUploads(names, bucket, image)
           c == [Idle EXCEPT !.op = "update", !.of = p, !.writes = TRUE, !.first = removed,
                             !.adds = adds, !.then = then, !.last = last, !.clears = clears]
           n == Count(names, image)
<1>1. removed \subseteq post[p].attached /\ WithinLimit(p, removed, names) /\ Start(r, c, n)
  BY DEF Update, Count, NewUploads
<1>2. uploads \in Nat /\ uploads + n <= MaxFiles
  BY <1>1, InvParts, FileNumbers DEF Start, Begin, FilesTypes, StorageTypeOK
<1>3. /\ n \in Nat
      /\ \A t \in adds :
           /\ t \in Uploads /\ uploads < t.file /\ t.file <= uploads + n
           /\ t.key.name \in Names \union {t.file}
           /\ IsPicture(t) => image /\ t.key.bucket = bucket
           /\ ~IsPicture(t) => Len(names) # 0
      /\ \A s, t \in adds : s.file = t.file \/ (IsPicture(s) /\ IsPicture(t)) => s = t
      /\ {t.file : t \in {s \in adds : ~IsPicture(s)}} \subseteq {uploads + i : i \in 1..Len(names)}
  BY <1>2, NewUploadsAre
<1>4. /\ c.op = "update" /\ c.of = p /\ c.row = NoPost /\ c.first = removed
      /\ c.detached = None /\ c.emptied = None /\ c.adds = adds /\ c.then = then
      /\ c.writes = TRUE /\ c.last = last /\ c.added = {} /\ c.image = None
      /\ c.clears = clears
  BY DEF Idle
<1>5. /\ post[p].attached \in SUBSET Files /\ post[p].image \in Files \union {None}
      /\ OldImage(p) \subseteq Files /\ Shown(p) \subseteq Files
      /\ OldImage(p) \subseteq Shown(p) /\ post[p].attached \subseteq Shown(p)
  BY InvParts DEF FilesTypes, PostRows, OldImage, Shown
<1>6. c \in Calls
  <2>1. adds \in SUBSET Uploads
    BY <1>3
  <2>2. removed \in SUBSET Files /\ then \in SUBSET Files /\ last \in SUBSET Files
    BY <1>1, <1>5
  <2> HIDE DEF adds
  <2> QED BY <2>1, <2>2, IdleCall DEF Calls, Subjects
<1> HIDE DEF adds, c, n
<1>7. /\ Mine(c) = {} /\ ToRemove(c) = removed \union then \union last
      /\ Hidden(c) = then \union last
  <2>1. None \notin removed \union then \union last
    BY <1>1, <1>5, FileNumbers
  <2> QED BY <1>4, <2>1 DEF Mine, ToRemove, Hidden
<1>8. CallOK(c)
  BY <1>3, <1>4, <1>7 DEF CallOK
<1>9. PlaceOK(c)
  <2>1. post[p].kind \in Texts => \A t \in adds : ~IsPicture(t)
    BY <1>3
  <2>2. post[p].kind \in Pictured => \A t \in adds : IsPicture(t)
    BY <1>3
  <2>3. post[p].kind = "mission" => \A t \in adds : t.key.bucket = "mission-images"
    BY <1>3, <2>2 DEF Pictured
  <2>4. post[p].kind # "none"
    BY DEF Live, Kinds
  <2> QED BY <1>4, <2>1, <2>2, <2>3, <2>4 DEF PlaceOK, BringsOK
<1>10. RemovalsOK(c) /\ \A f \in ToRemove(c) : Owned(f)
  <2>1. \A f \in ToRemove(c) : f \in Shown(p)
    BY <1>1, <1>5, <1>7
  <2>2. \A f \in Shown(p) : madeFor[f] = p
    BY InvParts DEF ShownOK
  <2>3. ASSUME NEW f \in Hidden(c), NEW k \in Posts PROVE f \notin post[k].attached
    <3>1. f = post[p].image /\ f # None
      BY <1>7, <2>3 DEF OldImage
    <3>2. f \notin post[p].attached
      BY <3>1, InvParts DEF ShownOK
    <3>3. f \in post[k].attached => madeFor[f] = k
      BY InvParts DEF ShownOK, Shown
    <3>4. madeFor[f] = p
      BY <2>2, <3>1 DEF Shown
    <3> QED BY <3>2, <3>3, <3>4
  <2> QED BY <1>4, <2>1, <2>2, <2>3 DEF RemovalsOK, Owned
<1>11. CoverOK(c)
  <2>1. Replaces(c) => image \/ clears
    BY <1>3, <1>4 DEF Replaces
  <2>2. Replaces(c) => post[p].image \in {None} \union ToRemove(c) \/ post[p].kind = "mission"
    BY <2>1, <1>7 DEF OldImage
  <2> QED BY <1>4, <2>2 DEF CoverOK
<1>12. RoomOK(c)
  <2>1. Coming(c) \subseteq {uploads + i : i \in 1..Len(names)}
    BY <1>3, <1>4, ComingAre DEF adds
  <2>2. Coming(c) \in SUBSET Files
    BY <1>6, <1>4, UploadTypes DEF Coming
  <2>3. post[p].attached \ removed \in SUBSET Files /\ Len(names) \in Nat
    BY <1>5 DEF ListOK
  <2>4. Cardinality(post[p].attached \ removed) + Len(names) <= MaxAttachments
    BY <1>1 DEF WithinLimit
  <2>5. Cardinality((post[p].attached \ removed) \union Coming(c)) <= MaxAttachments
    BY <1>2, <2>1, <2>2, <2>3, <2>4, RoomForNew
  <2> QED BY <1>4, <2>5 DEF RoomOK
<1>13. NewCall(c, n)
  BY <1>3, <1>4, <1>6, <1>7, <1>8, <1>9, <1>10, <1>11, <1>12 DEF NewCall
<1> QED BY <1>1, <1>3, <1>13, StartKeeps

LEMMA DeleteIsNew ==
  ASSUME FilesInv, NEW r \in Requests, NEW p \in Posts, Live(p), Delete(r, p, Shown(p))
  PROVE  FilesInv'
<1> DEFINE c == [Idle EXCEPT !.op = "delete", !.of = p, !.writes = TRUE, !.last = Shown(p)]
<1>1. Start(r, c, 0)
  BY DEF Delete
<1>2. /\ c.op = "delete" /\ c.of = p /\ c.row = NoPost /\ c.first = {}
      /\ c.detached = None /\ c.emptied = None /\ c.adds = {} /\ c.then = {}
      /\ c.writes = TRUE /\ c.last = Shown(p) /\ c.added = {} /\ c.image = None
      /\ c.clears = FALSE
  BY DEF Idle
<1>3. Shown(p) \in SUBSET Files
  BY InvParts DEF FilesTypes, PostRows, Shown
<1>4. c \in Calls
  BY <1>3, IdleCall DEF Calls, Subjects
<1> HIDE DEF c
<1>5. Mine(c) = {} /\ ToRemove(c) = Shown(p) /\ Hidden(c) = {}
  BY <1>2, <1>3, FileNumbers DEF Mine, ToRemove, Hidden
<1>6. CallOK(c)
  BY <1>2, <1>5 DEF CallOK
<1>7. PlaceOK(c)
  BY <1>2 DEF PlaceOK, Live, Kinds
<1>8. RemovalsOK(c) /\ \A f \in ToRemove(c) : Owned(f)
  BY <1>2, <1>5, InvParts DEF RemovalsOK, Owned, ShownOK
<1>9. CoverOK(c) /\ RoomOK(c)
  BY <1>2 DEF CoverOK, RoomOK
<1>10. NewCall(c, 0)
  BY <1>2, <1>4, <1>5, <1>6, <1>7, <1>8, <1>9 DEF NewCall
<1> QED BY <1>1, <1>10, StartKeeps

LEMMA AvatarIsNew ==
  ASSUME FilesInv, NEW r \in Requests, NEW u \in Users, ChangeAvatar(r, u)
  PROVE  FilesInv'
<1> DEFINE old == {avatar[u]} \ {None}
           adds == NewUploads(<<>>, "user-avatars", TRUE)
           c == [Idle EXCEPT !.op = "avatar", !.of = u, !.writes = TRUE, !.first = old,
                             !.adds = adds]
<1>0. Len(<<>>) = 0 /\ ListOK(<<>>) /\ "user-avatars" \in Buckets \ {"message-attachments"}
  BY NamesAreLists DEF Buckets
<1>1. Start(r, c, 1)
  <2>1. Attachments(<<>>) = {}
    BY DEF Attachments
  <2> QED BY <2>1 DEF ChangeAvatar, NewUploads
<1>2. uploads \in Nat /\ uploads + 1 <= MaxFiles /\ Count(<<>>, TRUE) = 1
  BY <1>0, <1>1, InvParts, FileNumbers DEF Start, Begin, FilesTypes, StorageTypeOK, Count
<1>3. /\ \A t \in adds :
           /\ t \in Uploads /\ uploads < t.file /\ t.file <= uploads + 1
           /\ t.key.name \in Names \union {t.file} /\ IsPicture(t)
      /\ \A s, t \in adds : s.file = t.file \/ (IsPicture(s) /\ IsPicture(t)) => s = t
  BY <1>0, <1>2, NewUploadsAre
<1>4. /\ c.op = "avatar" /\ c.of = u /\ c.row = NoPost /\ c.first = old
      /\ c.detached = None /\ c.emptied = None /\ c.adds = adds /\ c.then = {}
      /\ c.writes = TRUE /\ c.last = {} /\ c.added = {} /\ c.image = None
      /\ c.clears = FALSE
  BY DEF Idle
<1>5. avatar[u] \in Files \union {None} /\ old \in SUBSET Files
  BY InvParts DEF FilesTypes
<1>6. c \in Calls
  <2>1. adds \in SUBSET Uploads
    BY <1>3
  <2> HIDE DEF adds, old
  <2> QED BY <2>1, <1>5, IdleCall DEF Calls, Subjects
<1> HIDE DEF adds, c
<1>7. Mine(c) = {} /\ ToRemove(c) = old /\ Hidden(c) = old
  BY <1>4, FileNumbers DEF Mine, ToRemove, Hidden
<1>8. CallOK(c)
  BY <1>3, <1>4, <1>7 DEF CallOK
<1>9. PlaceOK(c) /\ RoomOK(c)
  BY <1>4 DEF PlaceOK, RoomOK
<1>10. RemovalsOK(c) /\ \A f \in ToRemove(c) : Owned(f)
  <2>1. \A f \in old : f = avatar[u] /\ madeFor[f] = u
    BY InvParts DEF ShownOK
  <2>2. \A f \in old, p \in Posts : f \notin post[p].attached
    BY <2>1, InvParts, FileNumbers DEF ShownOK, Shown
  <2> QED BY <1>4, <1>7, <2>1, <2>2 DEF RemovalsOK, Owned
<1>11. CoverOK(c)
  BY <1>4, <1>7 DEF CoverOK
<1>12. NewCall(c, 1)
  BY <1>3, <1>4, <1>6, <1>7, <1>8, <1>9, <1>10, <1>11 DEF NewCall
<1> QED BY <1>1, <1>12, StartKeeps

LEMMA RowFields ==
  ASSUME NEW k \in Kinds, NEW u \in Users \union {None}
  PROVE  /\ Row(k, u) \in PostRows /\ Row(k, u).kind = k
         /\ Row(k, u).attached = {} /\ Row(k, u).image = None
  BY DEF Row, NoPost, PostRows

LEMMA CommentFields ==
  ASSUME NEW k \in Kinds, NEW u \in Users, NEW m \in Posts
  PROVE  LET row == [Row(k, u) EXCEPT !.on = m]
         IN row \in PostRows /\ row.kind = k /\ row.attached = {} /\ row.image = None
  BY DEF Row, NoPost, PostRows

LEMMA CreatingKeeps ==
  ASSUME FilesInv, NEW r \in Requests, Creating(r)
  PROVE  FilesInv'
<1>1. PICK u \in Users, p \in Posts :
        \/ \E names \in NameLists :
             \/ SendMessage(r, u, p, names)
             \/ \E m \in Posts : CreateMissionComment(r, u, p, m, names)
             \/ CreatePlanComment(r, u, p, names)
             \/ \E image \in BOOLEAN : CreateNews(r, u, p, names, image)
        \/ CreateAchievement(r, p)
        \/ \E image \in BOOLEAN : CreateMission(r, u, p, image)
  BY DEF Creating
<1>2. ASSUME NEW names \in NameLists, SendMessage(r, u, p, names) PROVE FilesInv'
  <2> DEFINE row == Row("message", u)
  <2>0. /\ "message" \in Kinds /\ "message" \notin Pictured
    BY DEF Kinds, Texts, Pictured, Buckets
  <2>1. /\ row \in PostRows /\ row.kind = "message" /\ row.attached = {} /\ row.image = None
    BY <2>0, RowFields
  <2>2. Create(r, p, row, names, None, FALSE)
    BY <1>2 DEF SendMessage
  <2>3. ListOK(names)
    BY NamesAreLists
  <2> HIDE DEF row
  <2> QED BY <2>0, <2>1, <2>2, <2>3, CreateIsNew
<1>3. ASSUME NEW names \in NameLists, NEW m \in Posts,
             CreateMissionComment(r, u, p, m, names) PROVE FilesInv'
  <2> DEFINE row == [Row("missionComment", u) EXCEPT !.on = m]
  <2>0. /\ "missionComment" \in Kinds /\ "missionComment" \notin Pictured
    BY DEF Kinds, Texts, Pictured, Buckets
  <2>1. /\ row \in PostRows /\ row.kind = "missionComment" /\ row.attached = {} /\ row.image = None
    BY <2>0, CommentFields
  <2>2. Create(r, p, row, names, None, FALSE)
    BY <1>3 DEF CreateMissionComment
  <2>3. ListOK(names)
    BY NamesAreLists
  <2> HIDE DEF row
  <2> QED BY <2>0, <2>1, <2>2, <2>3, CreateIsNew
<1>4. ASSUME NEW names \in NameLists, CreatePlanComment(r, u, p, names) PROVE FilesInv'
  <2> DEFINE row == Row("planComment", u)
  <2>0. /\ "planComment" \in Kinds /\ "planComment" \notin Pictured
    BY DEF Kinds, Texts, Pictured, Buckets
  <2>1. /\ row \in PostRows /\ row.kind = "planComment" /\ row.attached = {} /\ row.image = None
    BY <2>0, RowFields
  <2>2. Create(r, p, row, names, None, FALSE)
    BY <1>4 DEF CreatePlanComment
  <2>3. ListOK(names)
    BY NamesAreLists
  <2> HIDE DEF row
  <2> QED BY <2>0, <2>1, <2>2, <2>3, CreateIsNew
<1>5. ASSUME NEW names \in NameLists, NEW image \in BOOLEAN,
             CreateNews(r, u, p, names, image) PROVE FilesInv'
  <2> DEFINE row == Row("news", u)
  <2>0. /\ "news" \in Kinds /\ "news" \notin Texts /\ "news" \notin Pictured
        /\ "news-images" \in Buckets \ {"message-attachments"}
    BY DEF Kinds, Texts, Pictured, Buckets
  <2>1. /\ row \in PostRows /\ row.kind = "news" /\ row.attached = {} /\ row.image = None
    BY <2>0, RowFields
  <2>2. Create(r, p, row, names, "news-images", image)
    BY <1>5 DEF CreateNews
  <2>3. ListOK(names)
    BY NamesAreLists
  <2> HIDE DEF row
  <2> QED BY <2>0, <2>1, <2>2, <2>3, CreateIsNew
<1>6. ASSUME CreateAchievement(r, p) PROVE FilesInv'
  <2> DEFINE row == Row("achievement", None)
  <2>0. /\ "achievement" \in Kinds /\ "achievement" \notin Texts
        /\ "achievement-icons" \in Buckets \ {"message-attachments"}
    BY DEF Kinds, Texts, Pictured, Buckets
  <2>1. /\ row \in PostRows /\ row.kind = "achievement" /\ row.attached = {} /\ row.image = None
    BY <2>0, RowFields
  <2>2. Create(r, p, row, <<>>, "achievement-icons", TRUE)
    BY <1>6 DEF CreateAchievement
  <2>3. ListOK(<<>>) /\ Len(<<>>) = 0
    BY NamesAreLists
  <2> HIDE DEF row
  <2> QED BY <2>0, <2>1, <2>2, <2>3, CreateIsNew
<1>7. ASSUME NEW image \in BOOLEAN, CreateMission(r, u, p, image) PROVE FilesInv'
  <2> DEFINE row == Row("mission", u)
  <2>0. /\ "mission" \in Kinds /\ "mission" \notin Texts
        /\ "mission-images" \in Buckets \ {"message-attachments"}
    BY DEF Kinds, Texts, Pictured, Buckets
  <2>1. /\ row \in PostRows /\ row.kind = "mission" /\ row.attached = {} /\ row.image = None
    BY <2>0, RowFields
  <2>2. Create(r, p, row, <<>>, "mission-images", image)
    BY <1>7 DEF CreateMission
  <2>3. ListOK(<<>>) /\ Len(<<>>) = 0
    BY NamesAreLists
  <2> HIDE DEF row
  <2> QED BY <2>0, <2>1, <2>2, <2>3, CreateIsNew
<1> QED BY <1>1, <1>2, <1>3, <1>4, <1>5, <1>6, <1>7

LEMMA UpdatingKeeps ==
  ASSUME FilesInv, NEW r \in Requests, Updating(r)
  PROVE  FilesInv'
<1>1. PICK p \in Posts :
        \/ \E removed \in SUBSET post[p].attached, names \in NameLists :
             \/ \E u \in Users : \/ UpdateMessage(r, u, p, removed, names)
                                 \/ UpdateMissionComment(r, u, p, removed, names)
                                 \/ UpdatePlanComment(r, u, p, removed, names)
             \/ \E image, removeImage \in BOOLEAN :
                  UpdateNews(r, p, removed, names, image, removeImage)
        \/ \E image \in BOOLEAN : UpdateAchievement(r, p, image) \/ UpdateMission(r, p, image)
  BY DEF Updating
<1>2. ASSUME NEW removed, NEW names \in NameLists, post[p].kind \in Texts,
             UpdateText(r, p, removed, names)
      PROVE  FilesInv'
  <2>1. Live(p) /\ post[p].kind \notin Pictured
    BY <1>2 DEF Live, Texts, Kinds, Pictured
  <2>2. Update(r, p, removed, names, None, FALSE, {}, {}, FALSE)
    BY <1>2 DEF UpdateText
  <2>3. post[p].kind = "mission" => None = "mission-images"
    BY <1>2 DEF Texts
  <2>4. ListOK(names) /\ {} \in SUBSET OldImage(p)
    BY NamesAreLists
  <2> QED BY <1>2, <2>1, <2>2, <2>3, <2>4, UpdateIsNew
<1>3. ASSUME NEW removed, NEW names \in NameLists, NEW u \in Users,
             \/ UpdateMessage(r, u, p, removed, names)
             \/ UpdateMissionComment(r, u, p, removed, names)
             \/ UpdatePlanComment(r, u, p, removed, names)
      PROVE  FilesInv'
  BY <1>2, <1>3 DEF UpdateMessage, UpdateMissionComment, UpdatePlanComment, Texts
<1>4. ASSUME NEW removed, NEW names \in NameLists, NEW image \in BOOLEAN,
             NEW removeImage \in BOOLEAN, UpdateNews(r, p, removed, names, image, removeImage)
      PROVE  FilesInv'
  <2> DEFINE then == IF image \/ removeImage THEN OldImage(p) ELSE {}
             clears == removeImage /\ ~image
  <2>1. /\ Live(p) /\ post[p].kind = "news" /\ post[p].kind \notin Texts \union Pictured
        /\ "news-images" \in Buckets \ {"message-attachments"}
    BY <1>4 DEF UpdateNews, Live, Texts, Kinds, Pictured, Buckets
  <2>2. Update(r, p, removed, names, "news-images", image, then, {}, clears)
    BY <1>4 DEF UpdateNews
  <2>3. /\ clears \in BOOLEAN /\ (clears => ~image) /\ then \in SUBSET OldImage(p)
        /\ (image \/ clears => OldImage(p) \subseteq then \union {})
    OBVIOUS
  <2> HIDE DEF then, clears
  <2> QED BY <2>1, <2>2, <2>3, NamesAreLists, UpdateIsNew
<1>5. ASSUME NEW image \in BOOLEAN, UpdateAchievement(r, p, image) PROVE FilesInv'
  <2> DEFINE last == IF image THEN OldImage(p) ELSE {}
  <2>1. /\ Live(p) /\ post[p].kind = "achievement" /\ post[p].kind \notin Texts
        /\ "achievement-icons" \in Buckets \ {"message-attachments"}
    BY <1>5 DEF UpdateAchievement, Live, Texts, Kinds, Buckets
  <2>2. Update(r, p, {}, <<>>, "achievement-icons", image, {}, last, FALSE)
    BY <1>5 DEF UpdateAchievement
  <2>3. last \in SUBSET OldImage(p) /\ (image => OldImage(p) \subseteq {} \union last)
    OBVIOUS
  <2> HIDE DEF last
  <2> QED BY <2>1, <2>2, <2>3, NamesAreLists, UpdateIsNew
<1>6. ASSUME NEW image \in BOOLEAN, UpdateMission(r, p, image) PROVE FilesInv'
  <2>1. /\ Live(p) /\ post[p].kind = "mission" /\ post[p].kind \notin Texts
        /\ "mission-images" \in Buckets \ {"message-attachments"}
    BY <1>6 DEF UpdateMission, Live, Texts, Kinds, Buckets
  <2>2. Update(r, p, {}, <<>>, "mission-images", image, {}, {}, FALSE)
    BY <1>6 DEF UpdateMission
  <2>3. ListOK(<<>>) /\ Len(<<>>) = 0 /\ {} \in SUBSET OldImage(p)
    BY NamesAreLists
  <2> QED BY <2>1, <2>2, <2>3, UpdateIsNew
<1> QED BY <1>1, <1>3, <1>4, <1>5, <1>6

LEMMA DeletingKeeps ==
  ASSUME FilesInv, NEW r \in Requests, Deleting(r)
  PROVE  FilesInv'
<1>1. PICK p \in Posts :
        \/ \E u \in Users : \/ DeleteMessage(r, u, p)
                            \/ DeleteMissionComment(r, u, p)
                            \/ DeletePlanComment(r, u, p)
        \/ DeleteNews(r, p)
        \/ DeleteAchievement(r, p)
        \/ DeleteMission(r, p)
  BY DEF Deleting
<1>2. /\ post[p].kind \in Texts => post[p].image = None
      /\ post[p].kind \in Pictured => post[p].attached = {}
  BY InvParts DEF ShownOK
<1>3. ASSUME post[p].kind \in Texts, Delete(r, p, post[p].attached) PROVE FilesInv'
  <2>1. Shown(p) = post[p].attached
    BY <1>2, <1>3 DEF Shown
  <2> QED BY <1>3, <2>1, DeleteIsNew DEF Live, Texts, Kinds
<1>4. ASSUME post[p].kind \in Pictured, Delete(r, p, OldImage(p)) PROVE FilesInv'
  <2>1. Shown(p) = OldImage(p)
    BY <1>2, <1>4 DEF Shown, OldImage
  <2> QED BY <1>4, <2>1, DeleteIsNew DEF Live, Pictured, Kinds
<1>5. ASSUME DeleteNews(r, p) PROVE FilesInv'
  <2>1. OldImage(p) \union post[p].attached = Shown(p)
    BY DEF Shown, OldImage
  <2> QED BY <1>5, <2>1, DeleteIsNew DEF DeleteNews, Live, Kinds
<1> QED BY <1>1, <1>3, <1>4, <1>5 DEF DeleteMessage, DeleteMissionComment, DeletePlanComment,
  DeleteAchievement, DeleteMission, Texts, Pictured

-----------------------------------------------------------------------------
(* FILES.  What a step of one handler leaves to the others.                *)

\* What a handler is after a step: done, or as before with no more in its hands.
Within(d, c) ==
  \/ d = Idle
  \/ /\ d.op = c.op /\ d.of = c.of /\ d.adds \subseteq c.adds
     /\ Mine(d) \subseteq Mine(c) /\ ToRemove(d) \subseteq ToRemove(c)

LEMMA HeldIs ==
  ASSUME NEW f \in Files
  PROVE  Held(f) <=> \E r \in Requests : f \in Mine(req[r]) \/ f \in ToRemove(req[r])
  BY FileNumbers DEF Held, Mine

LEMMA BusyHasSubject ==
  ASSUME FilesInv, NEW r \in Requests, req[r].op # "idle"
  PROVE  req[r].of \in Subjects /\ req[r].of # None
  BY InvParts, FileNumbers DEF CallOK, Calls, Subjects

LEMMA StepOf ==
  ASSUME FilesInv, NEW r \in Requests, NEW d \in Calls, Within(d, req[r]),
         req' = [req EXCEPT ![r] = d], UNCHANGED clashed
  PROVE  /\ req' \in [Requests -> Calls]
         /\ \A q \in Requests : req'[q] = IF q = r THEN d ELSE req[q]
         /\ \A q, s \in Requests : q # s => PairOK(req[q], req[s])'
         /\ \A q, s \in Requests : (Mine(req[q]) \intersect ToRemove(req[s]) = {})'
<1>1. req' \in [Requests -> Calls] /\ \A q \in Requests : req'[q] = IF q = r THEN d ELSE req[q]
  BY InvParts DEF FilesTypes
<1>2. ASSUME NEW q \in Requests, NEW s \in Requests, q # s PROVE PairOK(req[q], req[s])'
  <2>1. PairOK(req[q], req[s])
    BY <1>2, InvParts
  <2>2. CASE q # r /\ s # r
    BY <2>1, <2>2, <1>1 DEF PairOK
  <2>3. CASE q = r
    BY <2>1, <2>3, <1>1, <1>2, IdleCall DEF PairOK, Within
  <2>4. CASE s = r
    <3>1. req[q].op # "idle" => req[q].of # None
      BY BusyHasSubject
    <3>2. req[q].op = "create" => req[q].of # d.of
      BY <2>1, <3>1, <2>4, IdleCall DEF PairOK, Within
    <3> QED BY <2>1, <2>4, <3>1, <3>2, <1>1, <1>2, IdleCall DEF PairOK, Within
  <2> QED BY <2>2, <2>3, <2>4
<1>3. ASSUME NEW q \in Requests, NEW s \in Requests
      PROVE  (Mine(req[q]) \intersect ToRemove(req[s]) = {})'
  <2>1. Mine(d) \subseteq Mine(req[r]) /\ ToRemove(d) \subseteq ToRemove(req[r])
    BY IdleCall DEF Within
  <2> QED BY <2>1, <1>1, InvParts
<1> QED BY <1>1, <1>2, <1>3

\* A handler that makes no step.
LEMMA HandlerKeeps ==
  ASSUME NEW c \in Calls, HandlerOK(c), UNCHANGED <<uploads, clashed>>,
         \A t \in c.adds : madeFor'[t.file] = madeFor[t.file],
         \A f \in Mine(c) \union ToRemove(c) : madeFor'[f] = madeFor[f],
         \A f \in Mine(c) : file'[f] = file[f] /\ ~Owned(f)' /\ (file[f].name = f => Served(f)'),
         \A f \in Hidden(c), p \in Posts : f \notin post'[p].attached,
         c.op = "create" => post'[c.of] = post[c.of],
         c.op \in {"update", "delete"} =>
           post'[c.of].kind = post[c.of].kind \/ post'[c.of] = GonePost,
         c.op = "delete" /\ post[c.of] = GonePost => post'[c.of] = GonePost,
         c.of \notin clashed /\ c.op \in {"update", "delete"}
             /\ post'[c.of].kind = post[c.of].kind =>
           /\ post'[c.of].image \in {post[c.of].image, None}
           /\ post'[c.of].attached \subseteq post[c.of].attached,
         c.of \notin clashed /\ c.op \in {"update", "delete"} =>
           /\ post[c.of].attached \in SUBSET Files
           /\ post'[c.of].attached \subseteq post[c.of].attached,
         c.of \notin clashed /\ c.op = "avatar" => avatar'[c.of] \in {avatar[c.of], None}
  PROVE  HandlerOK(c)'
<1>0. /\ CallOK(c) /\ PlaceOK(c) /\ NumbersOK(c) /\ HandsOK(c) /\ RemovalsOK(c)
      /\ c.of \notin clashed => CoverOK(c) /\ RoomOK(c)
  BY DEF HandlerOK
<1>1. CallOK(c)'
  BY <1>0 DEF CallOK
<1>2. PlaceOK(c)'
  <2>1. GonePost.kind = "gone"
    BY DEF GonePost, NoPost
  <2>2. c.image # None => c.image \in Mine(c)
    BY DEF Mine
  <2>3. ASSUME NEW k, BringsOK(k, c) PROVE BringsOK(k, c)'
    BY <2>2, <2>3 DEF BringsOK
  <2>4. BringsOK("gone", c)'
    BY DEF BringsOK, Texts, Pictured
  <2> QED BY <1>0, <2>1, <2>3, <2>4 DEF PlaceOK
<1>3. NumbersOK(c)'
  BY <1>0 DEF NumbersOK
<1>4. HandsOK(c)'
  BY <1>0 DEF HandsOK, Exists
<1>5. RemovalsOK(c)'
  BY <1>0 DEF RemovalsOK
<1>6. ASSUME c.of \notin clashed PROVE CoverOK(c)' /\ RoomOK(c)'
  <2>1. CoverOK(c)'
    BY <1>0, <1>6 DEF CoverOK, Live, Shown, GonePost, NoPost, Kinds
  <2>2. RoomOK(c)'
    <3>1. c.op \in {"create", "update"} => post'[c.of].attached \subseteq post[c.of].attached
      BY <1>6
    <3>2. c.op \in {"create", "update"} => post[c.of].attached \in SUBSET Files
      BY <1>0, <1>6 DEF PlaceOK, NoPost
    <3>3. Coming(c) \in SUBSET Files
      BY CallType, UploadTypes DEF Coming
    <3>4. ASSUME c.op \in {"create", "update"}
          PROVE  Cardinality((post'[c.of].attached \ c.first) \union Coming(c))
                   <= Cardinality((post[c.of].attached \ c.first) \union Coming(c))
      BY <3>1, <3>2, <3>3, <3>4, FewerFiles
    <3>5. ASSUME c.op \in {"create", "update"}
          PROVE  /\ Cardinality((post'[c.of].attached \ c.first) \union Coming(c)) \in Nat
                 /\ Cardinality((post[c.of].attached \ c.first) \union Coming(c)) \in Nat
      BY <3>1, <3>2, <3>3, <3>5, FiniteFiles
    <3> QED BY <1>0, <1>6, <3>4, <3>5, FileNumbers DEF RoomOK, Coming
  <2> QED BY <2>1, <2>2
<1> QED BY <1>1, <1>2, <1>3, <1>4, <1>5, <1>6 DEF HandlerOK

\* An upload under way does not touch what others have stored under names of their own.
LEMMA PutServes ==
  ASSUME FilesInv, NEW r \in Requests, NEW t \in req[r].adds,
         stored' = [stored EXCEPT ![t.key] = t.file],
         NEW f \in Files, Exists(f), file[f].name = f, Served(f), file'[f] = file[f]
  PROVE  Served(f)'
<1>1. t.key \in Keys /\ t.file \in Files /\ madeFor[t.file] = None
  BY InvParts, UploadTypes DEF NumbersOK
<1>2. t.key.name \in Names \union {t.file}
  BY InvParts DEF CallOK
<1>3. madeFor[f] # None
  BY InvParts DEF FilesOK
<1>4. file[f] # t.key
  BY <1>1, <1>2, <1>3, FileNumbers
<1>5. stored \in [Keys -> Files \union {None}]
  BY InvParts DEF FilesTypes, StorageTypeOK
<1> QED BY <1>1, <1>4, <1>5 DEF Served

LEMMA StopKeeps ==
  ASSUME FilesInv, NEW r \in Requests, req[r].op # "idle",
         GiveUp(r, Idle), faults' \in 0..MaxFaults,
         \/ UNCHANGED stored
         \/ \E t \in req[r].adds : stored' = [stored EXCEPT ![t.key] = t.file],
         UNCHANGED <<file, post, avatar, uploads, madeFor, clashed>>
  PROVE  FilesInv'
<1>1. req' = [req EXCEPT ![r] = Idle] /\ cut' = cut \union {req[r].of}
  BY DEF GiveUp
<1>2. /\ req' \in [Requests -> Calls]
      /\ \A q \in Requests : req'[q] = IF q = r THEN Idle ELSE req[q]
      /\ \A q, s \in Requests : q # s => PairOK(req[q], req[s])'
      /\ \A q, s \in Requests : (Mine(req[q]) \intersect ToRemove(req[s]) = {})'
  BY <1>1, IdleCall, StepOf DEF Within
<1>3. req[r].of \in Subjects
  BY BusyHasSubject
<1>4. stored' \in [Keys -> Files \union {None}]
  <2>1. ASSUME NEW t \in req[r].adds PROVE t.key \in Keys /\ t.file \in Files
    BY InvParts, UploadTypes
  <2> QED BY <2>1, InvParts DEF FilesTypes, StorageTypeOK
<1>5. \A f \in Files : Exists(f) /\ file[f].name = f /\ Served(f) => Served(f)'
  BY PutServes DEF Served
<1>6. FilesTypes' /\ RowsOK' /\ AttachmentLimit'
  BY InvParts, <1>1, <1>2, <1>3, <1>4
    DEF FilesTypes, StorageTypeOK, RowsOK, AttachmentLimit, Live, Shown, Exists
<1>7. ASSUME NEW q \in Requests PROVE HandlerOK(req[q])'
  <2>1. CASE q = r
    BY <2>1, <1>2, IdleOK
  <2>2. CASE q # r
    <3>0. PICK c \in Calls : c = req[q]
      BY InvParts
    <3>1. /\ HandlerOK(c) /\ CallOK(c) /\ HandsOK(c) /\ RemovalsOK(c)
          /\ Mine(c) \in SUBSET Files
      BY <3>0, InvParts, CallType DEF FilesInv
    <3>2. \A f \in Mine(c) : ~Owned(f)' /\ (file[f].name = f => Served(f)')
      BY <3>1, <1>5 DEF HandsOK, Owned, Shown
    <3>3. c.op \in {"update", "delete"} => post[c.of].attached \in SUBSET Files
      BY <3>1, InvParts DEF CallOK, FilesTypes, PostRows
    <3>4. \A f \in Hidden(c), p \in Posts : f \notin post'[p].attached
      BY <3>1 DEF RemovalsOK
    <3>5. HandlerOK(c)'
      BY <3>1, <3>2, <3>3, <3>4, HandlerKeeps
    <3> QED BY <3>0, <3>5, <2>2, <1>2
  <2> QED BY <2>1, <2>2
<1>8. FilesOK' /\ ShownOK'
  BY InvParts DEF FilesOK, ShownOK, Exists, Shown
<1>9. ServedOK'
  <2>1. ASSUME NEW p \in Posts, NEW f \in Shown(p), file[f].name = f, ~Served(f)'
        PROVE  f \notin post[p].attached /\ (p \in cut' \/ \E q \in Requests : req'[q].emptied = f)
    <3>1. f \in Files /\ Exists(f)
      BY InvParts DEF RowsOK, FilesTypes, PostRows, Shown
    <3>2. ~Served(f)
      BY <2>1, <3>1, <1>5
    <3>3. req[r].emptied = f => p = req[r].of
      BY <3>1, FileNumbers, InvParts DEF RemovalsOK, ToRemove, ShownOK
    <3> QED BY <2>1, <3>2, <3>3, <1>1, <1>2, InvParts DEF ServedOK
  <2> QED BY <2>1 DEF ServedOK, Shown
<1>10. NoFileIsLost'
  <2>1. ASSUME NEW f \in Files, Held(f), ~Held(f)' PROVE madeFor[f] \in cut'
    <3>1. f \in Mine(req[r]) \/ f \in ToRemove(req[r])
      BY <2>1, <1>2, FileNumbers DEF Held, Mine
    <3>2. madeFor[f] = req[r].of
      BY <3>1, InvParts DEF HandsOK, RemovalsOK
    <3> QED BY <3>2, <1>1
  <2> QED BY <2>1, <1>1, InvParts DEF NoFileIsLost, Exists, Owned, Shown
<1> QED BY <1>2, <1>6, <1>7, <1>8, <1>9, <1>10 DEF FilesInv

LEMMA ThrowKeeps ==
  ASSUME FilesInv, NEW r \in Requests, Throw(r) PROVE FilesInv'
<1>1. req[r].op # "idle"
  BY InvParts, IdleCall DEF Throw, Misses, MayWrite, CallOK
<1>2. faults' \in 0..MaxFaults
  BY InvParts DEF Throw, FilesTypes, StorageTypeOK
<1> QED BY <1>1, <1>2, StopKeeps DEF Throw

LEMMA FaultKeeps ==
  ASSUME FilesInv, NEW r \in Requests, Fault(r) PROVE FilesInv'
<1>1. faults' \in 0..MaxFaults
  BY InvParts, FileNumbers DEF Fault, FilesTypes, StorageTypeOK
<1> QED BY <1>1, StopKeeps DEF Fault

-----------------------------------------------------------------------------
(* FILES.  Removals.                                                       *)

LEMMA RestIs ==
  ASSUME NEW x \in Calls, CallOK(x)
  PROVE  /\ Rest(x) \in {x, Idle} /\ Mine(Rest(x)) = Mine(x) /\ ToRemove(Rest(x)) = ToRemove(x)
         /\ Rest(x).emptied = x.emptied
<1>1. CASE Rest(x) = x
  BY <1>1
<1>2. CASE Rest(x) # x
  <2>1. Rest(x) = Idle /\ ~x.writes /\ x.last = {} /\ x.detached = None /\ x.emptied = None
    BY <1>2 DEF Rest, Free
  <2>2. x.first = {} /\ x.then = {} /\ Mine(x) = {}
    BY <2>1 DEF CallOK
  <2>3. ToRemove(x) = {}
    BY <2>1, <2>2 DEF ToRemove
  <2> QED BY <2>1, <2>2, <2>3, IdleCall
<1> QED BY <1>1, <1>2

LEMMA MayEmptyIs ==
  ASSUME NEW c \in Calls, CallOK(c), NEW f \in Files, MayEmpty(c, f)
  PROVE  /\ f \in ToRemove(c) /\ f \in Hidden(c)
         /\ c.op \notin {"idle", "create"} /\ (c.op = "delete" => ~c.writes)
         /\ c.emptied = None /\ c.detached \in {None, f}
         /\ c.op = "update" => f \notin c.first \/ f \in Hidden(c)
<1>1. c.op # "idle"
  BY FileNumbers, IdleCall DEF CallOK, MayEmpty
<1>2. f \in ToRemove(c)
  BY FileNumbers DEF MayEmpty, ToRemove
<1>3. c.op # "create"
  BY <1>2 DEF CallOK
<1>4. c.op = "delete" => ~c.writes
  BY FileNumbers DEF CallOK, MayEmpty
<1>5. f \in Hidden(c)
  BY <1>4, FileNumbers DEF MayEmpty, Hidden
<1>6. c.emptied = None /\ c.detached \in {None, f}
  BY FileNumbers DEF MayEmpty, Free, CallOK
<1> QED BY <1>1, <1>2, <1>3, <1>4, <1>5, <1>6

\* A handler that has made a step with the removal of f.
LEMMA ReducedKeeps ==
  ASSUME NEW c \in Calls, HandlerOK(c), NEW f \in Files, NEW d \in {None, f},
         NEW e \in {None, f}, NEW x, Reduced(x, c, f, d, e), f \in ToRemove(c),
         c.op \notin {"idle", "create"}, c.op = "delete" => ~c.writes,
         d # None => c.op = "update" /\ c.writes /\ e = None,
         UNCHANGED <<uploads, madeFor, clashed>>,
         \A g \in Mine(c) : file'[g] = file[g] /\ ~Owned(g)' /\ (file[g].name = g => Served(g)'),
         \A g \in Hidden(c) \union ({d, e} \ {None}), p \in Posts : g \notin post'[p].attached,
         c.op \in {"update", "delete"} =>
           /\ post'[c.of].kind = post[c.of].kind
           /\ post'[c.of].image \in {post[c.of].image, None}
           /\ post'[c.of].image \in ToRemove(c) => post'[c.of].image \in ToRemove(x)
           /\ post[c.of].attached \in SUBSET Files
           /\ post'[c.of].attached \ x.first \subseteq post[c.of].attached \ c.first,
         c.op = "delete" /\ post[c.of] = GonePost => post'[c.of] = GonePost,
         c.op = "avatar" =>
           /\ avatar'[c.of] \in {avatar[c.of], None}
           /\ avatar'[c.of] \in ToRemove(c) => avatar'[c.of] \in ToRemove(x)
  PROVE  CallOK(x) /\ HandlerOK(x)'
<1>0. /\ CallOK(c) /\ PlaceOK(c) /\ NumbersOK(c) /\ HandsOK(c) /\ RemovalsOK(c)
      /\ c.of \notin clashed => CoverOK(c) /\ RoomOK(c)
  BY DEF HandlerOK
<1>1. /\ x \in Calls
      /\ x.op = c.op /\ x.of = c.of /\ x.row = c.row /\ x.writes = c.writes
      /\ x.adds = c.adds /\ x.added = c.added /\ x.image = c.image /\ x.clears = c.clears
      /\ x.first = c.first \ {f} /\ x.then = c.then \ {f} /\ x.last = c.last \ {f}
      /\ x.detached = d /\ x.emptied = e
  BY DEF Reduced
<1>2. /\ Mine(x) = Mine(c) /\ Coming(x) = Coming(c) /\ (Replaces(x) <=> Replaces(c))
      /\ ToRemove(x) \subseteq ToRemove(c) \union {d, e}
      /\ Hidden(x) \subseteq Hidden(c) \union {d, e}
      /\ None \notin ToRemove(x) \union Hidden(x)
  BY ReducedSets
<1>3. CallOK(x)
  BY <1>0, <1>1, <1>2 DEF CallOK
<1>4. CallOK(x)'
  BY <1>3 DEF CallOK
<1>5. PlaceOK(x)'
  <2>1. c.image # None => c.image \in Mine(c)
    BY DEF Mine
  <2>2. ASSUME NEW k, BringsOK(k, c) PROVE BringsOK(k, x)'
    BY <2>1, <2>2, <1>1 DEF BringsOK
  <2> QED BY <1>0, <1>1, <2>2 DEF PlaceOK
<1>6. NumbersOK(x)' /\ HandsOK(x)'
  BY <1>0, <1>1, <1>2 DEF NumbersOK, HandsOK, Exists
<1>7. RemovalsOK(x)'
  <2>1. \A g \in ToRemove(x) : g \in ToRemove(c)
    BY <1>2
  <2>2. \A g \in Hidden(x) : g \in Hidden(c) \union ({d, e} \ {None})
    BY <1>2
  <2> QED BY <1>0, <1>1, <2>1, <2>2 DEF RemovalsOK
<1>8. ASSUME c.of \notin clashed PROVE CoverOK(x)' /\ RoomOK(x)'
  <2>1. CoverOK(x)'
    BY <1>0, <1>1, <1>2, <1>8 DEF CoverOK, Live
  <2>2. RoomOK(x)'
    <3>1. ASSUME c.op = "update"
          PROVE  (post'[c.of].attached \ x.first) \union Coming(c)
                   \in SUBSET ((post[c.of].attached \ c.first) \union Coming(c))
      BY <3>1
    <3>2. Coming(c) \in SUBSET Files
      BY CallType, UploadTypes DEF Coming
    <3>3. ASSUME c.op = "update"
          PROVE  /\ Cardinality((post'[c.of].attached \ x.first) \union Coming(c))
                      <= Cardinality((post[c.of].attached \ c.first) \union Coming(c))
                 /\ Cardinality((post'[c.of].attached \ x.first) \union Coming(c)) \in Nat
                 /\ Cardinality((post[c.of].attached \ c.first) \union Coming(c)) \in Nat
      BY <3>1, <3>2, <3>3, FewerFiles, FiniteFiles
    <3>4. Coming(x)' = Coming(c)
      BY <1>1 DEF Coming, IsPicture
    <3> QED BY <1>0, <1>1, <1>8, <3>3, <3>4, FileNumbers DEF RoomOK
  <2> QED BY <2>1, <2>2
<1> QED BY <1>1, <1>3, <1>4, <1>5, <1>6, <1>7, <1>8 DEF HandlerOK

\* A step of handler r towards the removal of f: at most f leaves the rows.
Sheds(r, d, f) ==
  /\ UNCHANGED <<uploads, madeFor, clashed, cut, faults>>
  /\ req' = [req EXCEPT ![r] = d]
  /\ post' \in [Posts -> PostRows] /\ avatar' \in [Users -> Files \union {None}]
  /\ file' \in [Files -> Keys \union {NoFile}] /\ stored' \in [Keys -> Files \union {None}]
  /\ \A p \in Posts :
       /\ post'[p].kind = post[p].kind
       /\ post'[p].attached \in {post[p].attached, post[p].attached \ {f}}
       /\ post'[p].image = post[p].image \/ (post[p].image = f /\ post'[p].image = None)
       /\ post[p] \in {NoPost, GonePost} => post'[p] = post[p]
  /\ \A u \in Users : avatar'[u] = avatar[u] \/ (avatar[u] = f /\ avatar'[u] = None)
  /\ \A g \in Files \ {f} :
       /\ file'[g] = file[g]
       /\ Exists(g) /\ file[g].name = g /\ Served(g) => Served(g)'
  /\ file'[f] = file[f] \/ (file'[f] = NoFile /\ ~Owned(f)')

LEMMA ShedsOthers ==
  ASSUME FilesInv, NEW r \in Requests, NEW d \in Calls, NEW f \in ToRemove(req[r]),
         Sheds(r, d, f), NEW q \in Requests, q # r
  PROVE  HandlerOK(req[q])'
<1>1. req'[q] = req[q]
  BY InvParts DEF Sheds, FilesTypes
<1>2. PICK c \in Calls : c = req[q]
  BY InvParts
<1>3. /\ HandlerOK(c) /\ CallOK(c) /\ HandsOK(c) /\ RemovalsOK(c) /\ Mine(c) \in SUBSET Files
      /\ f \notin Mine(c)
  BY <1>2, InvParts, CallType DEF FilesInv
<1>4. \A g \in Mine(c) : file'[g] = file[g] /\ ~Owned(g)' /\ (file[g].name = g => Served(g)')
  <2>1. ASSUME NEW g \in Files, Owned(g)' PROVE Owned(g)
    BY <2>1, FileNumbers DEF Owned, Shown, Sheds
  <2> QED BY <1>3, <2>1 DEF Sheds, HandsOK
<1>5. \A g \in Hidden(c), p \in Posts : g \notin post'[p].attached
  BY <1>3 DEF Sheds, RemovalsOK
<1>6. /\ c.op = "create" => post'[c.of] = post[c.of]
      /\ c.op = "delete" /\ post[c.of] = GonePost => post'[c.of] = GonePost
  BY <1>3, <1>2, InvParts DEF Sheds, PlaceOK, CallOK
<1>7. c.op \in {"update", "delete"} =>
        /\ post'[c.of].kind = post[c.of].kind
        /\ post'[c.of].image \in {post[c.of].image, None}
        /\ post[c.of].attached \in SUBSET Files
        /\ post'[c.of].attached \subseteq post[c.of].attached
  <2>1. c.op \in {"update", "delete"} => c.of \in Posts
    BY <1>3 DEF CallOK
  <2>2. \A p \in Posts : post[p].attached \in SUBSET Files
    BY InvParts DEF FilesTypes, PostRows
  <2> QED BY <2>1, <2>2 DEF Sheds
<1>8. c.op = "avatar" => avatar'[c.of] \in {avatar[c.of], None}
  BY <1>3 DEF Sheds, CallOK
<1>9. HandlerOK(c)'
  BY <1>3, <1>4, <1>5, <1>6, <1>7, <1>8, HandlerKeeps DEF Sheds
<1> QED BY <1>1, <1>2, <1>9

LEMMA ShedsKeeps ==
  ASSUME FilesInv, NEW r \in Requests, NEW d \in Calls, NEW f \in ToRemove(req[r]),
         Sheds(r, d, f), Within(d, req[r]), HandlerOK(d)',
         Mine(d) = Mine(req[r]), ToRemove(req[r]) \ {f} \subseteq ToRemove(d),
         f \notin ToRemove(d) => ~Exists(f)', req[r].emptied \in {None, f},
         \A p \in Posts : f \in Shown(p)' /\ file'[f].name = f =>
           Served(f)' \/ (f \notin post'[p].attached /\ d.emptied = f)
  PROVE  FilesInv'
<1>0. f \in Files
  BY InvParts, CallType
<1>1. /\ req' \in [Requests -> Calls]
      /\ \A q \in Requests : req'[q] = IF q = r THEN d ELSE req[q]
      /\ \A q, s \in Requests : q # s => PairOK(req[q], req[s])'
      /\ \A q, s \in Requests : (Mine(req[q]) \intersect ToRemove(req[s]) = {})'
  BY StepOf DEF Sheds
<1>2. /\ \A p \in Posts : post[p].attached \in SUBSET Files /\ Shown(p) \in SUBSET Files
      /\ \A p \in Posts : Shown(p)' \subseteq Shown(p) /\ Shown(p) \subseteq Shown(p)' \union {f}
      /\ \A p \in Posts : post'[p].attached \subseteq post[p].attached
  BY InvParts, FileNumbers DEF Sheds, Shown, FilesTypes, PostRows
<1>3. \A g \in Files : Owned(g)' \/ file'[g] = file[g] \/ g = f
  BY DEF Sheds
<1>4. FilesTypes' /\ RowsOK' /\ AttachmentLimit'
  <2>1. FilesTypes'
    BY InvParts, <1>1 DEF FilesTypes, StorageTypeOK, Sheds
  <2>2. RowsOK'
    <3>1. \A p \in Posts : ~Live(p)' => post'[p] \in {NoPost, GonePost}
      BY InvParts DEF RowsOK, Sheds, Live
    <3>2. ASSUME NEW p \in Posts, NEW g \in Files, g \in Shown(p)' PROVE Exists(g)'
      <4>1. Exists(g)
        BY <3>2, <1>2, InvParts DEF RowsOK
      <4>2. CASE g # f
        BY <4>1, <4>2 DEF Sheds, Exists
      <4>3. CASE g = f
        BY <4>1, <4>3, <3>2 DEF Sheds, Exists, Owned
      <4> QED BY <4>2, <4>3
    <3>3. ASSUME NEW u \in Users, avatar'[u] # None PROVE Exists(avatar[u])'
      <4>1. avatar'[u] = avatar[u] /\ avatar[u] \in Files /\ Exists(avatar[u])
        BY <3>3, InvParts DEF RowsOK, Sheds, FilesTypes
      <4>2. CASE avatar[u] # f
        BY <4>1, <4>2 DEF Sheds, Exists
      <4>3. CASE avatar[u] = f
        BY <4>1, <4>3, <3>3 DEF Sheds, Exists, Owned
      <4> QED BY <4>2, <4>3
    <3> QED BY <3>1, <3>2, <3>3 DEF RowsOK
  <2>3. AttachmentLimit'
    <3>1. ASSUME NEW p \in Posts
          PROVE  /\ Cardinality(post'[p].attached) <= Cardinality(post[p].attached)
                 /\ Cardinality(post'[p].attached) \in Nat
                 /\ Cardinality(post[p].attached) \in Nat
      <4>1. post[p].attached \in SUBSET Files /\ post'[p].attached \in SUBSET post[p].attached
        BY <1>2
      <4> QED BY <4>1, FewerFiles, FiniteFiles
    <3> QED BY <3>1, InvParts, FileNumbers DEF AttachmentLimit, Sheds
  <2> QED BY <2>1, <2>2, <2>3
<1>5. \A q \in Requests : HandlerOK(req[q])'
  <2>1. HandlerOK(req[r])'
    BY <1>1
  <2> QED BY <2>1, ShedsOthers
<1>6. FilesOK' /\ ShownOK'
  <2>1. FilesOK'
    BY InvParts, <1>0 DEF FilesOK, Sheds, Exists
  <2>2. \A p \in Posts : \A g \in Shown(p)' : madeFor'[g] = p
    BY InvParts, <1>2 DEF ShownOK, Sheds
  <2>3. \A u \in Users : avatar'[u] # None => madeFor'[avatar'[u]] = u
    BY InvParts DEF ShownOK, Sheds
  <2>4. ASSUME NEW p \in Posts
        PROVE  /\ post'[p].image \notin post'[p].attached
               /\ post'[p].kind \in Texts => post'[p].image = None
               /\ post'[p].kind \in Pictured => post'[p].attached = {}
               /\ post'[p].kind = "mission" /\ post'[p].image # None =>
                    file'[post'[p].image].bucket = "mission-images"
    <3>1. post'[p].image \in {post[p].image, None} /\ post'[p].kind = post[p].kind
      BY DEF Sheds
    <3>2. post'[p].attached \subseteq post[p].attached /\ None \notin post[p].attached
      BY <1>2, FileNumbers
    <3>3. post'[p].image # None => file'[post'[p].image] = file[post'[p].image]
      <4>1. ASSUME NEW i \in Files, post'[p].image = i PROVE file'[i] = file[i]
        <5>1. Owned(i)'
          BY <4>1, FileNumbers DEF Owned, Shown
        <5> QED BY <5>1 DEF Sheds
      <4>2. post'[p].image \in Files \union {None}
        BY DEF Sheds, PostRows
      <4> QED BY <4>1, <4>2
    <3>4. /\ post[p].image \notin post[p].attached
          /\ post[p].kind \in Texts => post[p].image = None
          /\ post[p].kind \in Pictured => post[p].attached = {}
          /\ post[p].kind = "mission" /\ post[p].image # None =>
               file[post[p].image].bucket = "mission-images"
      BY InvParts DEF ShownOK
    <3> QED BY <3>1, <3>2, <3>3, <3>4
  <2> QED BY <2>1, <2>2, <2>3, <2>4 DEF ShownOK
<1>7. ServedOK'
  <2>1. ASSUME NEW p \in Posts, NEW g \in Shown(p)', file'[g].name = g, ~Served(g)'
        PROVE  g \notin post'[p].attached /\ (p \in cut' \/ \E q \in Requests : req'[q].emptied = g)
    <3>1. g \in Shown(p) /\ g \in Files /\ Exists(g)
      BY <1>2, InvParts DEF RowsOK
    <3>2. CASE g = f
      BY <3>2, <2>1, <1>1
    <3>3. CASE g # f
      <4>1. ~Served(g) /\ file[g].name = g
        BY <3>1, <3>3, <2>1 DEF Sheds
      <4>2. g \notin post[p].attached /\ (p \in cut \/ \E q \in Requests : req[q].emptied = g)
        BY <3>1, <4>1, InvParts DEF ServedOK
      <4>3. \A q \in Requests : req[q].emptied = g => req'[q].emptied = g
        BY <1>1, <3>3, <3>1, FileNumbers
      <4> QED BY <4>2, <4>3, <1>2 DEF Sheds
    <3> QED BY <3>2, <3>3
  <2> QED BY <2>1 DEF ServedOK
<1>8. NoFileIsLost'
  <2>1. ASSUME NEW g \in Files, Exists(g)', ~Owned(g)', ~Held(g)'
        PROVE  madeFor[g] \in clashed \union cut \/ file'[g].bucket = "mission-images"
    <3>1. g # f
      <4>1. f \in ToRemove(d) => Held(f)'
        BY <1>0, <1>1, HeldIs, FileNumbers DEF Held, ToRemove
      <4> QED BY <4>1, <2>1
    <3>2. ~Owned(g)
      BY <2>1, <3>1, <1>2, FileNumbers DEF Owned, Sheds
    <3>3. ~Held(g)
      <4>1. ASSUME NEW q \in Requests, g \in Mine(req[q]) \/ g \in ToRemove(req[q])
            PROVE  g \in Mine(req'[q]) \/ g \in ToRemove(req'[q])
        BY <4>1, <3>1, <1>1
      <4>2. (\E q \in Requests : g \in Mine(req'[q]) \/ g \in ToRemove(req'[q])) => Held(g)'
        BY FileNumbers DEF Held, Mine
      <4> QED BY <4>1, <4>2, <2>1, HeldIs
    <3>4. Exists(g) /\ file'[g] = file[g]
      BY <2>1, <3>1 DEF Exists, Sheds
    <3> QED BY <3>2, <3>3, <3>4, InvParts DEF NoFileIsLost
  <2> QED BY <2>1 DEF NoFileIsLost, Sheds
<1> QED BY <1>1, <1>4, <1>5, <1>6, <1>7, <1>8 DEF FilesInv

LEMMA ReducedRemoves ==
  ASSUME NEW c \in Calls, NEW f \in ToRemove(c), NEW x, NEW d \in {None, f},
         NEW e \in {None, f}, Reduced(x, c, f, d, e), {c.detached, c.emptied} \subseteq {None, f}
  PROVE  /\ ToRemove(x) = (ToRemove(c) \ {f}) \union ({d, e} \ {None})
         /\ ToRemove(x) \subseteq ToRemove(c)
         /\ Within(x, c)
<1>1. ToRemove(x) = (ToRemove(c) \ {f}) \union ({d, e} \ {None})
  BY DEF Reduced, ToRemove
<1>2. ToRemove(x) \subseteq ToRemove(c)
  BY <1>1
<1> QED BY <1>1, <1>2, ReducedSets DEF Within, Reduced

\* The parts that every step of a removal has in common.
LEMMA RemovalHands ==
  ASSUME FilesInv, NEW r \in Requests, NEW d, NEW f \in ToRemove(req[r]), Sheds(r, d, f)
  PROVE  /\ f \in Files /\ HandlerOK(req[r]) /\ CallOK(req[r]) /\ req[r] \in Calls
         /\ f \notin Mine(req[r])
         /\ \A g \in Mine(req[r]) :
              file'[g] = file[g] /\ ~Owned(g)' /\ (file[g].name = g => Served(g)')
         /\ \A g \in Hidden(req[r]), p \in Posts : g \notin post'[p].attached
         /\ req[r].op \in {"update", "delete"} =>
              req[r].of \in Posts /\ post[req[r].of].attached \in SUBSET Files
<1>1. /\ f \in Files /\ HandlerOK(req[r]) /\ CallOK(req[r]) /\ req[r] \in Calls
      /\ f \notin Mine(req[r]) /\ Mine(req[r]) \in SUBSET Files
  BY InvParts, CallType DEF FilesInv
<1>2. \A g \in Mine(req[r]) :
        file'[g] = file[g] /\ ~Owned(g)' /\ (file[g].name = g => Served(g)')
  <2>1. ASSUME NEW g \in Files, Owned(g)' PROVE Owned(g)
    BY <2>1, FileNumbers DEF Owned, Shown, Sheds
  <2> QED BY <1>1, <2>1, InvParts DEF Sheds, HandsOK
<1>3. \A g \in Hidden(req[r]), p \in Posts : g \notin post'[p].attached
  BY InvParts DEF Sheds, RemovalsOK
<1>4. req[r].op \in {"update", "delete"} =>
        req[r].of \in Posts /\ post[req[r].of].attached \in SUBSET Files
  BY <1>1, InvParts DEF CallOK, FilesTypes, PostRows
<1> QED BY <1>1, <1>2, <1>3, <1>4

LEMMA DetachKeeps ==
  ASSUME FilesInv, NEW r \in Requests, Detach(r) PROVE FilesInv'
<1>0. PICK c \in Calls : c = req[r]
  BY InvParts
<1>1. PICK f \in c.first :
        /\ Free(c) /\ c.op = "update" /\ f \in post[c.of].attached
        /\ post' = [post EXCEPT ![c.of].attached = @ \ {f}]
        /\ req' = [req EXCEPT ![r] = [Without(c, f) EXCEPT !.detached = f]]
        /\ UNCHANGED <<file, stored, avatar, uploads, faults, madeFor, clashed, cut>>
  BY <1>0 DEF Detach
<1> DEFINE d == [Without(c, f) EXCEPT !.detached = f]
<1>2. /\ f \in Files /\ f # None /\ f \in ToRemove(c) /\ c.of \in Posts /\ c.writes
      /\ madeFor[f] = c.of
  <2>1. f \in Files /\ f # None
    BY <1>1, CallType, FileNumbers
  <2>2. f \in ToRemove(c)
    BY <1>1, <2>1 DEF ToRemove
  <2> QED BY <2>1, <2>2, <1>0, <1>1, InvParts, CallType DEF CallOK, RemovalsOK
<1>3. Reduced(d, c, f, f, None) /\ d \in Calls
  <2>1. Reduced(d, c, f, f, None)
    BY <1>2, WithoutIsReduced
  <2> QED BY <2>1 DEF Reduced
<1>4. c.detached = None /\ c.emptied = None
  BY <1>1 DEF Free
<1>5. /\ ToRemove(d) = (ToRemove(c) \ {f}) \union ({f, None} \ {None})
      /\ ToRemove(d) = ToRemove(c) /\ Within(d, c)
  <2>1. /\ ToRemove(d) = (ToRemove(c) \ {f}) \union ({f, None} \ {None})
        /\ Within(d, c)
    BY <1>2, <1>3, <1>4, ReducedRemoves
  <2> QED BY <2>1, <1>2
<1> HIDE DEF d
<1>6. Sheds(r, d, f)
  <2>1. post' \in [Posts -> PostRows]
    BY <1>1, <1>2, InvParts DEF FilesTypes, PostRows
  <2>2. \A p \in Posts :
          /\ post'[p].kind = post[p].kind
          /\ post'[p].attached \in {post[p].attached, post[p].attached \ {f}}
          /\ post'[p].image = post[p].image
          /\ post[p] \in {NoPost, GonePost} => post'[p] = post[p]
    BY <1>1, <1>2, InvParts DEF FilesTypes, PostRows, NoPost, GonePost
  <2> QED BY <1>1, <2>1, <2>2, InvParts DEF Sheds, d, FilesTypes, StorageTypeOK, Served
<1>7. /\ HandlerOK(c) /\ f \notin Mine(c)
      /\ \A g \in Mine(c) : file'[g] = file[g] /\ ~Owned(g)' /\ (file[g].name = g => Served(g)')
      /\ \A g \in Hidden(c), p \in Posts : g \notin post'[p].attached
      /\ post[c.of].attached \in SUBSET Files
  BY <1>0, <1>1, <1>2, <1>6, RemovalHands
<1>8. \A p \in Posts : f \notin Shown(p)'
  <2>1. ASSUME NEW p \in Posts, f \in Shown(p) PROVE p = c.of /\ f # post[p].image
    BY <2>1, <1>1, <1>2, InvParts DEF ShownOK
  <2> QED BY <2>1, <1>1, <1>2, InvParts DEF Shown, FilesTypes, PostRows
<1>9. HandlerOK(d)'
  <2>1. /\ post'[c.of].kind = post[c.of].kind /\ post'[c.of].image = post[c.of].image
        /\ post'[c.of].attached = post[c.of].attached \ {f}
    BY <1>1, <1>2, InvParts DEF FilesTypes, PostRows
  <2>2. post'[c.of].attached \ d.first \subseteq post[c.of].attached \ c.first
    BY <2>1, <1>3 DEF Reduced
  <2>3. \A g \in Hidden(c) \union ({f, None} \ {None}), p \in Posts : g \notin post'[p].attached
    BY <1>7, <1>8 DEF Shown
  <2> QED BY <1>1, <1>2, <1>3, <1>5, <1>7, <2>1, <2>2, <2>3, ReducedKeeps
<1>10. Mine(d) = Mine(c)
  BY <1>3, ReducedSets
<1> QED BY <1>0, <1>2, <1>3, <1>4, <1>5, <1>6, <1>8, <1>9, <1>10, ShedsKeeps

\* A row is taken for what it is when a removal begins.
LEMMA RemoveObjectKeeps ==
  ASSUME FilesInv, NEW r \in Requests, RemoveObject(r) PROVE FilesInv'
<1>0. PICK c \in Calls : c = req[r]
  BY InvParts
<1>1. PICK f \in Files :
        /\ MayEmpty(c, f)
        /\ IF Exists(f)
           THEN /\ RemoveFrom(file[f])
                /\ req' = [req EXCEPT ![r] = [Without(c, f) EXCEPT !.emptied = f]]
           ELSE /\ req' = [req EXCEPT ![r] = Rest(Without(c, f))]
                /\ UNCHANGED stored
        /\ UNCHANGED <<file, post, avatar, uploads, faults, madeFor, clashed, cut>>
  BY <1>0 DEF RemoveObject
<1>2. /\ f # None /\ f \in ToRemove(c) /\ f \in Hidden(c) /\ c.op \notin {"idle", "create"}
      /\ c.op = "delete" => ~c.writes
      /\ c.emptied = None /\ c.detached \in {None, f}
      /\ \A p \in Posts : f \notin post[p].attached
  BY <1>0, <1>1, MayEmptyIs, InvParts, FileNumbers DEF RemovalsOK
<1>3. /\ file \in [Files -> Keys \union {NoFile}] /\ stored \in [Keys -> Files \union {None}]
      /\ post \in [Posts -> PostRows] /\ avatar \in [Users -> Files \union {None}]
  BY InvParts DEF FilesTypes, StorageTypeOK
<1>4. ASSUME NEW x, NEW e \in {None, f}, Reduced(x, c, f, None, e),
             NEW d \in {x, Idle}, Sheds(r, d, f),
             Exists(f) => e = f
      PROVE  CallOK(x) /\ HandlerOK(d)'
  <2>1. /\ HandlerOK(c) /\ f \notin Mine(c)
        /\ \A g \in Mine(c) :
             file'[g] = file[g] /\ ~Owned(g)' /\ (file[g].name = g => Served(g)')
        /\ \A g \in Hidden(c), p \in Posts : g \notin post'[p].attached
        /\ c.op \in {"update", "delete"} =>
             c.of \in Posts /\ post[c.of].attached \in SUBSET Files
    BY <1>0, <1>2, <1>4, RemovalHands
  <2>2. ToRemove(x) = (ToRemove(c) \ {f}) \union ({None, e} \ {None})
    BY <1>2, <1>4, ReducedRemoves
  <2>3. c.op \in {"update", "delete"} =>
          (post'[c.of].image \in ToRemove(c) => post'[c.of].image \in ToRemove(x))
    <3>1. \A p \in Posts : post[p].image = f => Exists(f)
      BY <1>2, InvParts DEF RowsOK, Shown
    <3> QED BY <3>1, <2>1, <2>2, <1>1, <1>2, <1>4
  <2>4. c.op = "avatar" =>
          (avatar'[c.of] \in ToRemove(c) => avatar'[c.of] \in ToRemove(x))
    <3>1. \A u \in Users : avatar[u] = f => Exists(f)
      BY <1>2, InvParts DEF RowsOK
    <3>2. c.op = "avatar" => c.of \in Users
      BY <2>1 DEF HandlerOK, CallOK
    <3> QED BY <3>1, <3>2, <2>2, <1>1, <1>2, <1>4
  <2>5. c.op \in {"update", "delete"} =>
          post'[c.of].attached \ x.first \subseteq post[c.of].attached \ c.first
    BY <2>1, <1>1, <1>2, <1>4 DEF Reduced
  <2>6. \A g \in Hidden(c) \union ({None, e} \ {None}), p \in Posts : g \notin post'[p].attached
    BY <2>1, <1>1, <1>2
  <2>7. CallOK(x) /\ HandlerOK(x)'
    BY <1>1, <1>2, <1>4, <2>1, <2>3, <2>4, <2>5, <2>6, ReducedKeeps
  <2> QED BY <2>7, IdleOK, <1>4
<1>5. CASE Exists(f)
  <2> DEFINE d == [Without(c, f) EXCEPT !.emptied = f]
  <2>1. Reduced(d, c, f, None, f) /\ d \in Calls
    <3>1. Reduced(d, c, f, None, f)
      BY WithoutIsReduced
    <3> QED BY <3>1 DEF Reduced
  <2>2. ToRemove(d) = (ToRemove(c) \ {f}) \union ({None, f} \ {None}) /\ Within(d, c)
    BY <2>1, <1>2, ReducedRemoves
  <2>3. req' = [req EXCEPT ![r] = d] /\ stored' = [stored EXCEPT ![file[f]] = None]
    BY <1>1, <1>5 DEF RemoveFrom
  <2> HIDE DEF d
  <2>4. Sheds(r, d, f)
    <3>1. file[f] \in Keys /\ file[f].name \in Names \union {f}
      BY <1>3, <1>5, InvParts DEF Exists, FilesOK
    <3>2. ASSUME NEW g \in Files \ {f}, Exists(g), file[g].name = g, Served(g) PROVE Served(g)'
      <4>1. file[g] # file[f]
        BY <3>1, <3>2, FileNumbers
      <4> QED BY <4>1, <3>1, <3>2, <1>1, <1>3, <2>3 DEF Served, Exists
    <3> QED BY <3>1, <3>2, <2>3, <1>1, <1>3 DEF Sheds
  <2>5. HandlerOK(d)'
    BY <2>1, <2>4, <1>4
  <2>6. Mine(d) = Mine(c) /\ d.emptied = f
    BY <2>1, ReducedSets DEF Reduced
  <2> QED BY <1>0, <1>1, <1>2, <2>1, <2>2, <2>4, <2>5, <2>6, ShedsKeeps
<1>6. CASE ~Exists(f)
  <2> DEFINE x == Without(c, f)
             d == Rest(x)
  <2>1. Reduced(x, c, f, None, None) /\ x \in Calls
    <3>1. Reduced(x, c, f, None, None)
      BY WithoutIsReduced
    <3> QED BY <3>1 DEF Reduced
  <2>2. ToRemove(x) = (ToRemove(c) \ {f}) \union ({None, None} \ {None}) /\ Within(x, c)
    BY <2>1, <1>2, ReducedRemoves
  <2>3. req' = [req EXCEPT ![r] = d] /\ UNCHANGED stored
    BY <1>1, <1>6
  <2>4. d \in {x, Idle} /\ d \in Calls
    BY <2>1, IdleCall DEF Rest
  <2> HIDE DEF d, x
  <2>5. Sheds(r, d, f)
    BY <2>3, <1>1, <1>3 DEF Sheds, Served
  <2>6. CallOK(x) /\ HandlerOK(d)'
    BY <2>1, <2>4, <2>5, <1>4, <1>6
  <2>7. Mine(d) = Mine(x) /\ ToRemove(d) = ToRemove(x) /\ Mine(x) = Mine(c)
    <3>1. d = Rest(x)
      BY DEF d
    <3> QED BY <3>1, <2>1, <2>6, RestIs, ReducedSets
  <2>8. Within(d, c) /\ ToRemove(c) \ {f} \subseteq ToRemove(d)
    BY <2>2, <2>4, <2>7 DEF Within
  <2>9. ~Exists(f)' /\ \A p \in Posts : f \notin Shown(p)'
    <3>1. \A p \in Posts : f \notin Shown(p)
      BY <1>6, InvParts DEF RowsOK
    <3> QED BY <3>1, <1>1, <1>6 DEF Exists, Shown
  <2> QED BY <1>0, <1>1, <1>2, <2>4, <2>5, <2>6, <2>7, <2>8, <2>9, ShedsKeeps
<1> QED BY <1>5, <1>6

LEMMA DropRowKeeps ==
  ASSUME FilesInv, NEW r \in Requests, DropRow(r) PROVE FilesInv'
<1>0. PICK c \in Calls : c = req[r]
  BY InvParts
<1> DEFINE f == c.emptied
           x == Without(c, f)
           d == Rest(x)
<1>1. /\ f # None /\ Exists(f) /\ file' = [file EXCEPT ![f] = NoFile]
      /\ post' = [p \in Posts |->
                   [post[p] EXCEPT !.attached = @ \ {f}, !.image = IF @ = f THEN None ELSE @]]
      /\ avatar' = [u \in Users |-> IF avatar[u] = f THEN None ELSE avatar[u]]
      /\ req' = [req EXCEPT ![r] = Rest(Without(@, f))]
      /\ UNCHANGED <<stored, uploads, faults, madeFor, clashed, cut>>
  BY <1>0 DEF DropRow, DeleteRow
<1>2. /\ f \in Files /\ f \in ToRemove(c) /\ c.op \notin {"idle", "create"}
      /\ c.op = "delete" => ~c.writes
      /\ c.detached \in {None, f} /\ c.emptied \in {None, f}
  <2>1. f \in Files /\ f \in ToRemove(c) /\ CallOK(c)
    BY <1>0, <1>1, InvParts, CallType DEF ToRemove
  <2> QED BY <2>1, <1>1, IdleCall DEF CallOK
<1>3. Reduced(x, c, f, None, None) /\ x \in Calls
  <2>1. Reduced(x, c, f, None, None)
    BY WithoutIsReduced
  <2> QED BY <2>1 DEF Reduced
<1>4. ToRemove(x) = ToRemove(c) \ {f} /\ Within(x, c)
  <2>1. ToRemove(x) = (ToRemove(c) \ {f}) \union ({None, None} \ {None}) /\ Within(x, c)
    BY <1>3, <1>2, ReducedRemoves
  <2> QED BY <2>1
<1>5. req' = [req EXCEPT ![r] = d] /\ d \in {x, Idle} /\ d \in Calls
  BY <1>0, <1>1, <1>3, IdleCall, InvParts DEF Rest, FilesTypes
<1>6. d = Rest(x) /\ f = c.emptied
  OBVIOUS
<1> HIDE DEF d, x, f
<1>7. \A p \in Posts : f \notin Shown(p)'
  <2>1. \A p \in Posts : post[p] \in PostRows
    BY InvParts DEF FilesTypes
  <2>2. ASSUME NEW p \in Posts
        PROVE  /\ post'[p].attached = post[p].attached \ {f}
               /\ post'[p].image = IF post[p].image = f THEN None ELSE post[p].image
    BY <2>1, <1>1 DEF PostRows
  <2> QED BY <2>2, <1>1 DEF Shown
<1>8. Sheds(r, d, f)
  <2>1. /\ file \in [Files -> Keys \union {NoFile}] /\ stored \in [Keys -> Files \union {None}]
        /\ post \in [Posts -> PostRows] /\ avatar \in [Users -> Files \union {None}]
    BY InvParts DEF FilesTypes, StorageTypeOK
  <2>2. post' \in [Posts -> PostRows]
    BY <2>1, <1>1 DEF PostRows
  <2>3. \A p \in Posts :
          /\ post'[p].kind = post[p].kind
          /\ post'[p].attached = post[p].attached \ {f}
          /\ post'[p].image = post[p].image \/ (post[p].image = f /\ post'[p].image = None)
    BY <2>1, <1>1 DEF PostRows
  <2>4. ASSUME NEW p \in Posts, post[p] \in {NoPost, GonePost} PROVE post'[p] = post[p]
    <3>1. post[p].attached = {} /\ post[p].image = None
      BY <2>4 DEF NoPost, GonePost
    <3>2. post'[p] = [post[p] EXCEPT !.attached = post[p].attached, !.image = post[p].image]
      BY <3>1, <1>1, <1>2, FileNumbers
    <3>3. post[p] \in PostRows
      BY <2>1
    <3> QED BY <3>2, <3>3 DEF PostRows
  <2>5. avatar' \in [Users -> Files \union {None}] /\ file' \in [Files -> Keys \union {NoFile}]
    BY <2>1, <1>1, <1>2
  <2>6. \A u \in Users : avatar'[u] = avatar[u] \/ (avatar[u] = f /\ avatar'[u] = None)
    BY <1>1
  <2>7. \A g \in Files \ {f} : file'[g] = file[g]
    BY <2>1, <1>1
  <2>8. ~Owned(f)'
    BY <1>1, <1>2, <1>7, FileNumbers DEF Owned
  <2> QED BY <2>1, <2>2, <2>3, <2>4, <2>5, <2>6, <2>7, <2>8, <1>1, <1>2, <1>5
        DEF Sheds, Served
<1>9. CallOK(x) /\ HandlerOK(d)'
  <2>1. /\ HandlerOK(c) /\ f \notin Mine(c)
        /\ \A g \in Mine(c) :
             file'[g] = file[g] /\ ~Owned(g)' /\ (file[g].name = g => Served(g)')
        /\ \A g \in Hidden(c), p \in Posts : g \notin post'[p].attached
        /\ c.op \in {"update", "delete"} =>
             c.of \in Posts /\ post[c.of].attached \in SUBSET Files
    BY <1>0, <1>2, <1>8, RemovalHands
  <2>2. c.op \in {"update", "delete"} =>
          /\ post'[c.of].kind = post[c.of].kind
          /\ post'[c.of].image \in {post[c.of].image, None}
          /\ post'[c.of].image \in ToRemove(c) => post'[c.of].image \in ToRemove(x)
          /\ post'[c.of].attached \ x.first \subseteq post[c.of].attached \ c.first
          /\ post[c.of] = GonePost => post'[c.of] = GonePost
    <3>1. \A p \in Posts : post'[p].image # f /\ f \notin post'[p].attached
      BY <1>7, <1>2, FileNumbers DEF Shown
    <3> QED BY <3>1, <2>1, <1>3, <1>4, <1>8 DEF Sheds, Reduced
  <2>3. c.op = "avatar" =>
          /\ avatar'[c.of] \in {avatar[c.of], None}
          /\ avatar'[c.of] \in ToRemove(c) => avatar'[c.of] \in ToRemove(x)
    <3>1. c.op = "avatar" => c.of \in Users
      BY <2>1 DEF HandlerOK, CallOK
    <3>2. \A u \in Users : avatar'[u] # f
      BY <1>1, <1>2, FileNumbers
    <3> QED BY <3>1, <3>2, <1>4, <1>8 DEF Sheds
  <2>4. CallOK(x) /\ HandlerOK(x)'
    BY <1>1, <1>2, <1>3, <2>1, <2>2, <2>3, ReducedKeeps
  <2> QED BY <2>4, IdleOK, <1>5
<1>10. Mine(d) = Mine(x) /\ ToRemove(d) = ToRemove(x) /\ Mine(x) = Mine(c)
  BY <1>3, <1>6, <1>9, RestIs, ReducedSets
<1>11. Within(d, c) /\ ToRemove(c) \ {f} \subseteq ToRemove(d)
  BY <1>4, <1>5, <1>10 DEF Within
<1>12. ~Exists(f)'
  BY <1>1, <1>2, InvParts DEF Exists, FilesTypes, StorageTypeOK
<1> QED BY <1>0, <1>2, <1>5, <1>7, <1>8, <1>9, <1>10, <1>11, <1>12, ShedsKeeps

-----------------------------------------------------------------------------
(* FILES.  Uploads.                                                        *)

\* An upload that is not done has no file, and nobody has it.
LEMMA FreshUpload ==
  ASSUME FilesInv, NEW r \in Requests, NEW t \in req[r].adds
  PROVE  /\ ~Exists(t.file) /\ ~Owned(t.file)
         /\ \A q \in Requests : t.file \notin Mine(req[q]) /\ t.file \notin ToRemove(req[q])
<1>1. t.file \in Files /\ madeFor[t.file] = None
  BY InvParts, UploadTypes DEF NumbersOK
<1>2. ~Exists(t.file)
  BY <1>1, InvParts DEF FilesOK
<1>3. ~Owned(t.file)
  BY <1>1, FileNumbers, InvParts DEF Owned, ShownOK
<1>4. ASSUME NEW q \in Requests, t.file \in Mine(req[q]) \/ t.file \in ToRemove(req[q])
      PROVE  FALSE
  <2>1. madeFor[t.file] = req[q].of
    BY <1>4, InvParts DEF HandsOK, RemovalsOK
  <2>2. req[q].op # "idle"
    BY <1>4, InvParts, IdleCall DEF CallOK
  <2> QED BY <2>1, <2>2, <1>1, BusyHasSubject
<1> QED BY <1>2, <1>3, <1>4

\* What the handler of an upload has after it.
UploadedIs(x, c, t) ==
  /\ x \in Calls
  /\ x.op = c.op /\ x.of = c.of /\ x.row = c.row /\ x.writes = c.writes
  /\ x.first = c.first /\ x.then = c.then /\ x.last = c.last
  /\ x.detached = c.detached /\ x.emptied = c.emptied
  /\ x.clears = c.clears /\ x.adds = c.adds \ {t}
  /\ x.added = IF IsPicture(t) THEN c.added ELSE c.added \union {t.file}
  /\ x.image = IF IsPicture(t) THEN t.file ELSE c.image

LEMMA UploadedSets ==
  ASSUME NEW c \in Calls, CallOK(c), NEW t \in c.adds, NEW x, UploadedIs(x, c, t)
  PROVE  /\ Mine(x) = Mine(c) \union {t.file} /\ ToRemove(x) = ToRemove(c)
         /\ Hidden(x) = Hidden(c) /\ Coming(x) = Coming(c) /\ (Replaces(x) <=> Replaces(c))
<1>1. t.file # None /\ t.file \in Files
  BY UploadTypes, FileNumbers
<1>2. ToRemove(x) = ToRemove(c) /\ Hidden(x) = Hidden(c)
  BY DEF UploadedIs, ToRemove, Hidden
<1>3. CASE IsPicture(t)
  <2>1. c.image = None /\ x.added = c.added /\ x.image = t.file /\ x.adds = c.adds \ {t}
    BY <1>3 DEF CallOK, UploadedIs
  <2>2. {u \in x.adds : ~IsPicture(u)} = {u \in c.adds : ~IsPicture(u)}
    BY <1>3, <2>1
  <2>3. Coming(x) = Coming(c)
    BY <2>1, <2>2 DEF Coming
  <2>4. Mine(x) = Mine(c) \union {t.file}
    BY <1>1, <2>1 DEF Mine
  <2> QED BY <1>1, <1>2, <1>3, <2>1, <2>3, <2>4 DEF Replaces
<1>4. CASE ~IsPicture(t)
  <2>1. /\ x.image = c.image /\ x.added = c.added \union {t.file} /\ x.adds = c.adds \ {t}
        /\ x.clears = c.clears
    BY <1>4 DEF UploadedIs
  <2>2. Mine(x) = Mine(c) \union {t.file}
    BY <2>1 DEF Mine
  <2>3. {u \in c.adds : ~IsPicture(u)} = {u \in x.adds : ~IsPicture(u)} \union {t}
    BY <1>4, <2>1
  <2>4. Coming(x) = Coming(c)
    BY <2>1, <2>3 DEF Coming
  <2>5. Replaces(x) <=> Replaces(c)
    BY <1>4, <2>1 DEF Replaces
  <2> QED BY <1>2, <2>2, <2>4, <2>5
<1> QED BY <1>3, <1>4

LEMMA UploadFileKeeps ==
  ASSUME FilesInv, NEW r \in Requests, UploadFile(r) PROVE FilesInv'
<1>0. PICK c \in Calls : c = req[r]
  BY InvParts
<1>1. PICK t \in c.adds :
        /\ MayUpload(c, t)
        /\ stored' = [stored EXCEPT ![t.key] = t.file]
        /\ file' = [file EXCEPT ![t.file] = t.key]
        /\ madeFor' = [madeFor EXCEPT ![t.file] = c.of]
        /\ req' = [req EXCEPT ![r] = IF IsPicture(t)
                       THEN [c EXCEPT !.adds = @ \ {t}, !.image = t.file]
                       ELSE [c EXCEPT !.adds = @ \ {t}, !.added = @ \union {t.file}]]
        /\ UNCHANGED <<post, avatar, uploads, faults, clashed, cut>>
  BY <1>0 DEF UploadFile, PutFile
<1> DEFINE f == t.file
           x == IF IsPicture(t) THEN [c EXCEPT !.adds = @ \ {t}, !.image = t.file]
                                ELSE [c EXCEPT !.adds = @ \ {t}, !.added = @ \union {t.file}]
<1>2. /\ t \in Uploads /\ f \in Files /\ f \in Int /\ t.key \in Keys /\ f # None
      /\ CallOK(c) /\ PlaceOK(c) /\ NumbersOK(c) /\ HandsOK(c) /\ RemovalsOK(c)
      /\ c.of \notin clashed => CoverOK(c) /\ RoomOK(c)
  BY <1>0, InvParts, UploadTypes, FileNumbers
<1>3. req' = [req EXCEPT ![r] = x] /\ UploadedIs(x, c, t)
  <2>1. UploadedIs(x, c, t)
    <3> DEFINE i == [c EXCEPT !.adds = @ \ {t}, !.image = t.file]
               a == [c EXCEPT !.adds = @ \ {t}, !.added = @ \union {t.file}]
    <3>1. /\ i \in Calls /\ a \in Calls
          /\ \A y \in {i, a} :
               /\ y.op = c.op /\ y.of = c.of /\ y.row = c.row /\ y.writes = c.writes
               /\ y.first = c.first /\ y.then = c.then /\ y.last = c.last
               /\ y.detached = c.detached /\ y.emptied = c.emptied
               /\ y.clears = c.clears /\ y.adds = c.adds \ {t}
          /\ i.added = c.added /\ i.image = t.file
          /\ a.added = c.added \union {t.file} /\ a.image = c.image
      BY <1>2, UploadedFields
    <3>2. x = IF IsPicture(t) THEN i ELSE a
      OBVIOUS
    <3> HIDE DEF x, i, a
    <3> QED BY <3>1, <3>2 DEF UploadedIs
  <2> QED BY <2>1, <1>1
<1>4. /\ Mine(x) = Mine(c) \union {f} /\ ToRemove(x) = ToRemove(c)
      /\ Hidden(x) = Hidden(c) /\ Coming(x) = Coming(c) /\ (Replaces(x) <=> Replaces(c))
  BY <1>2, <1>3, UploadedSets
<1>5. /\ ~Exists(f) /\ ~Owned(f) /\ madeFor[f] = None /\ f <= uploads
      /\ \A q \in Requests : f \notin Mine(req[q]) /\ f \notin ToRemove(req[q])
  BY <1>0, <1>2, FreshUpload DEF NumbersOK
<1>6. f = t.file
  OBVIOUS
<1> HIDE DEF x, f
<1>7. /\ file' = [file EXCEPT ![f] = t.key] /\ madeFor' = [madeFor EXCEPT ![f] = c.of]
      /\ stored' = [stored EXCEPT ![t.key] = f]
  BY <1>1, <1>6
<1>8. /\ file \in [Files -> Keys \union {NoFile}] /\ stored \in [Keys -> Files \union {None}]
      /\ madeFor \in [Files -> Subjects \union {None}]
  BY InvParts DEF FilesTypes, StorageTypeOK
<1>9. /\ file'[f] = t.key /\ t.key # NoFile /\ madeFor'[f] = c.of /\ stored'[t.key] = f
      /\ \A g \in Files : g # f => file'[g] = file[g] /\ madeFor'[g] = madeFor[g]
      /\ c.of \in Subjects /\ c.of # None
  <2>1. c.op # "idle"
    BY <1>2, IdleCall DEF CallOK
  <2> QED BY <2>1, <1>0, <1>2, <1>7, <1>8, FileNumbers, BusyHasSubject
<1>10. /\ req' \in [Requests -> Calls] /\ x \in Calls
       /\ \A q \in Requests : req'[q] = IF q = r THEN x ELSE req[q]
  BY <1>3, InvParts DEF FilesTypes, UploadedIs
<1>11. ASSUME NEW g \in Files, Exists(g), file[g].name = g, Served(g) PROVE Served(g)'
  <2>1. file'[g] = file[g]
    BY <1>5, <1>9, <1>11
  <2> QED BY <2>1, <1>0, <1>1, <1>11, PutServes
<1>12. \A g \in Files : Exists(g) => g # f
  BY <1>5
<1>13. FilesTypes' /\ RowsOK' /\ AttachmentLimit'
  <2>1. FilesTypes'
    BY InvParts, <1>1, <1>2, <1>7, <1>8, <1>9, <1>10 DEF FilesTypes, StorageTypeOK
  <2>2. \A g \in Files : Exists(g) => Exists(g)'
    BY <1>9 DEF Exists
  <2>3. RowsOK'
    BY <2>2, <1>1, InvParts DEF RowsOK, Live, Shown, FilesTypes
  <2> QED BY <2>1, <2>3, <1>1, InvParts DEF AttachmentLimit
<1>14. ASSUME NEW q \in Requests, q # r PROVE HandlerOK(req[q])'
  <2>1. PICK d \in Calls : d = req[q]
    BY InvParts
  <2>2. /\ HandlerOK(d) /\ CallOK(d) /\ HandsOK(d) /\ RemovalsOK(d) /\ PairOK(c, d)
        /\ Mine(d) \in SUBSET Files /\ ToRemove(d) \in SUBSET Files
        /\ f \notin Mine(d) /\ f \notin ToRemove(d)
    BY <1>0, <1>5, <1>14, <2>1, InvParts, CallType DEF FilesInv
  <2>3. \A u \in d.adds : madeFor'[u.file] = madeFor[u.file]
    <3>1. \A u \in d.adds : u.file # f /\ u.file \in Files
      BY <2>2, <1>6, UploadTypes DEF PairOK
    <3> QED BY <3>1, <1>9
  <2>4. \A g \in Mine(d) \union ToRemove(d) : madeFor'[g] = madeFor[g]
    BY <2>2, <1>9
  <2>5. \A g \in Mine(d) : file'[g] = file[g] /\ ~Owned(g)' /\ (file[g].name = g => Served(g)')
    BY <2>2, <1>1, <1>9, <1>11 DEF HandsOK, Owned, Shown
  <2>6. d.op \in {"update", "delete"} => post[d.of].attached \in SUBSET Files
    BY <2>2, InvParts DEF CallOK, FilesTypes, PostRows
  <2>7. \A g \in Hidden(d), p \in Posts : g \notin post'[p].attached
    BY <2>2, <1>1 DEF RemovalsOK
  <2>8. HandlerOK(d)'
    BY <1>1, <2>2, <2>3, <2>4, <2>5, <2>6, <2>7, HandlerKeeps
  <2> QED BY <2>1, <2>8, <1>10, <1>14
<1>15. HandlerOK(x)'
  <2>0. /\ x.op = c.op /\ x.of = c.of /\ x.row = c.row /\ x.writes = c.writes
        /\ x.first = c.first /\ x.then = c.then /\ x.last = c.last
        /\ x.detached = c.detached /\ x.emptied = c.emptied
        /\ x.clears = c.clears /\ x.adds = c.adds \ {t}
        /\ x.added = IF IsPicture(t) THEN c.added ELSE c.added \union {f}
        /\ x.image = IF IsPicture(t) THEN f ELSE c.image
    BY <1>3, <1>6 DEF UploadedIs
  <2>1. CallOK(x)
    <3>1. f \notin c.added /\ f # c.image /\ c.op \notin {"idle", "delete"} /\ c.writes
      <4>1. f \notin Mine(c)
        BY <1>0, <1>5
      <4> QED BY <4>1, <1>2, IdleCall DEF Mine, CallOK
    <3>2. IsPicture(t) => ~c.clears /\ \A s \in x.adds : ~IsPicture(s)
      BY <1>2, <2>0 DEF CallOK
    <3>3. c.op = "avatar" => IsPicture(t)
      BY <1>2 DEF CallOK
    <3> QED BY <1>2, <1>4, <2>0, <3>1, <3>2, <3>3 DEF CallOK
  <2>2. CallOK(x)'
    BY <2>1 DEF CallOK
  <2>3. PlaceOK(x)'
    <3>1. c.image # None => c.image \in Mine(c) /\ c.image \in Files /\ c.image # f
      BY <1>0, <1>2, <1>5, CallType DEF Mine
    <3>2. ASSUME NEW k, BringsOK(k, c) PROVE BringsOK(k, x)'
      <4>1. k \in Texts => x.image = None /\ \A s \in x.adds : ~IsPicture(s)
        BY <3>2, <2>0 DEF BringsOK
      <4>2. k \in Pictured => x.added = {} /\ \A s \in x.adds : IsPicture(s)
        BY <3>2, <2>0 DEF BringsOK
      <4>3. k = "mission" =>
              /\ x.image # None => file'[x.image].bucket = "mission-images"
              /\ \A s \in x.adds : s.key.bucket = "mission-images"
        BY <3>1, <3>2, <2>0, <1>9 DEF BringsOK
      <4> QED BY <4>1, <4>2, <4>3 DEF BringsOK
    <3> QED BY <3>2, <2>0, <1>1, <1>2 DEF PlaceOK
  <2>4. NumbersOK(x)'
    <3>1. ASSUME NEW s \in x.adds PROVE s.file <= uploads' /\ madeFor'[s.file] = None
      <4>1. s \in c.adds /\ s.file # f /\ s.file \in Files
        BY <2>0, <1>2, <1>6, UploadTypes DEF CallOK
      <4> QED BY <4>1, <1>1, <1>2, <1>9 DEF NumbersOK
    <3> QED BY <3>1 DEF NumbersOK
  <2>5. HandsOK(x)'
    <3>1. \A g \in Mine(c) : g \in Files /\ g # f
      BY <1>0, <1>5, CallType
    <3>2. \A g \in Files : ~Owned(g) => ~Owned(g)'
      BY <1>1 DEF Owned, Shown
    <3>3. ASSUME NEW g \in Mine(c)
          PROVE  (/\ Exists(g) /\ madeFor[g] = c.of /\ ~Owned(g)
                  /\ file[g].name = g => Served(g))'
      <4>1. Exists(g) /\ madeFor[g] = c.of /\ ~Owned(g) /\ (file[g].name = g => Served(g))
        BY <1>2 DEF HandsOK
      <4>2. file'[g] = file[g] /\ madeFor'[g] = madeFor[g] /\ ~Owned(g)'
        BY <4>1, <3>1, <3>2, <1>9
      <4> QED BY <4>1, <4>2, <3>1, <1>11 DEF Exists
    <3>4. (Exists(f) /\ ~Owned(f) /\ Served(f))' /\ madeFor'[f] = c.of
      BY <3>2, <1>2, <1>5, <1>9 DEF Exists, Served
    <3> QED BY <3>3, <3>4, <2>0, <1>4 DEF HandsOK
  <2>6. RemovalsOK(x)'
    <3>1. \A g \in ToRemove(c) : g \in Files /\ g # f
      BY <1>0, <1>5, CallType
    <3> QED BY <3>1, <2>0, <1>1, <1>2, <1>4, <1>9 DEF RemovalsOK
  <2>7. ASSUME c.of \notin clashed PROVE CoverOK(x)' /\ RoomOK(x)'
    <3>1. Coming(x)' = Coming(x) /\ (Replaces(x)' <=> Replaces(x)) /\ ToRemove(x)' = ToRemove(x)
      BY DEF Coming, Replaces, ToRemove, IsPicture
    <3> QED BY <3>1, <2>0, <2>7, <1>1, <1>2, <1>4 DEF CoverOK, RoomOK, Live, Shown
  <2> QED BY <2>0, <2>2, <2>3, <2>4, <2>5, <2>6, <2>7, <1>1 DEF HandlerOK
<1>16. ASSUME NEW q \in Requests, NEW s \in Requests, q # s PROVE PairOK(req[q], req[s])'
  <2>1. PairOK(req[q], req[s])
    BY <1>16, InvParts
  <2>2. x.op = c.op /\ x.of = c.of /\ x.adds \subseteq c.adds /\ Mine(x) = Mine(c) \union {f}
    BY <1>3, <1>4 DEF UploadedIs
  <2>3. CASE q # r /\ s # r
    BY <2>1, <2>3, <1>1, <1>10 DEF PairOK
  <2>4. CASE q = r
    BY <2>1, <2>2, <2>4, <1>0, <1>1, <1>5, <1>10, <1>16 DEF PairOK
  <2>5. CASE s = r
    BY <2>1, <2>2, <2>5, <1>0, <1>1, <1>5, <1>10, <1>16 DEF PairOK
  <2> QED BY <2>3, <2>4, <2>5
<1>17. ASSUME NEW q \in Requests, NEW s \in Requests
       PROVE  (Mine(req[q]) \intersect ToRemove(req[s]) = {})'
  BY <1>0, <1>4, <1>5, <1>10, InvParts
<1>18. FilesOK' /\ ShownOK'
  <2>1. FilesOK'
    <3>1. t.key.name \in Names \union {f} /\ ~(f > uploads)
      <4>1. uploads \in Nat
        BY InvParts DEF FilesTypes, StorageTypeOK
      <4> QED BY <4>1, <1>2, <1>5, <1>6 DEF CallOK
    <3> QED BY <3>1, <1>1, <1>9, InvParts DEF FilesOK, Exists
  <2>2. \A p \in Posts : \A g \in Shown(p) : g # f /\ g \in Files
    BY <1>5, InvParts DEF Owned, Shown, FilesTypes, PostRows
  <2>3. \A u \in Users : avatar[u] # f
    BY <1>5 DEF Owned
  <2>4. \A p \in Posts : post[p].image # None => post[p].image \in Shown(p)
    BY DEF Shown
  <2>5. \A p \in Posts : \A g \in Shown(p) : madeFor'[g] = p
    BY <2>2, <1>9, InvParts DEF ShownOK
  <2>6. \A u \in Users : avatar[u] # None => madeFor'[avatar[u]] = u
    BY <2>3, <1>9, InvParts DEF ShownOK, FilesTypes
  <2>7. \A p \in Posts : post[p].kind = "mission" /\ post[p].image # None =>
          file'[post[p].image].bucket = "mission-images"
    BY <2>2, <2>4, <1>9, InvParts DEF ShownOK
  <2> QED BY <2>1, <2>5, <2>6, <2>7, <1>1, InvParts DEF ShownOK, Shown
<1>19. ServedOK'
  <2>1. ASSUME NEW p \in Posts, NEW g \in Shown(p), file'[g].name = g, ~Served(g)'
        PROVE  g \notin post[p].attached /\ (p \in cut \/ \E q \in Requests : req'[q].emptied = g)
    <3>1. g \in Files /\ g # f /\ Exists(g)
      BY <1>5, InvParts DEF Owned, RowsOK, FilesTypes, PostRows, Shown
    <3>2. file[g].name = g /\ ~Served(g)
      BY <3>1, <2>1, <1>9, <1>11
    <3>3. x.emptied = c.emptied
      BY <1>3 DEF UploadedIs
    <3> QED BY <3>2, <3>3, <2>1, <1>0, <1>10, InvParts DEF ServedOK
  <2> QED BY <2>1, <1>1 DEF ServedOK, Shown
<1>20. NoFileIsLost'
  <2>1. ASSUME NEW g \in Files, Exists(g)', ~Owned(g)', ~Held(g)'
        PROVE  madeFor'[g] \in clashed \union cut \/ file'[g].bucket = "mission-images"
    <3>1. \A q \in Requests : ~(g \in Mine(req'[q]) \/ g \in ToRemove(req'[q]))
      BY <2>1, FileNumbers DEF Held, Mine
    <3>2. g # f
      BY <3>1, <1>4, <1>10
    <3>3. Exists(g) /\ ~Owned(g)
      BY <3>2, <2>1, <1>1, <1>9 DEF Exists, Owned, Shown
    <3>4. ~Held(g)
      BY <3>1, <1>0, <1>4, <1>10, HeldIs
    <3> QED BY <3>2, <3>3, <3>4, <1>9, InvParts DEF NoFileIsLost
  <2> QED BY <2>1, <1>1 DEF NoFileIsLost
<1>21. \A q \in Requests : HandlerOK(req[q])'
  BY <1>10, <1>14, <1>15
<1> QED BY <1>13, <1>16, <1>17, <1>18, <1>19, <1>20, <1>21 DEF FilesInv

-----------------------------------------------------------------------------
(* FILES.  Writes.                                                         *)

LEMMA MayWriteIs ==
  ASSUME NEW c \in Calls, MayWrite(c)
  PROVE  /\ c.writes /\ c.detached = None /\ c.emptied = None /\ c.first = {} /\ c.adds = {}
         /\ c.then = {} /\ ToRemove(c) = c.last /\ Coming(c) = c.added
         /\ Replaces(c) <=> c.clears \/ c.image # None
         /\ c.op \notin {"create", "delete"} => Hidden(c) = c.last
         /\ None \notin c.last
<1>1. /\ c.writes /\ c.detached = None /\ c.emptied = None /\ c.first = {} /\ c.adds = {}
      /\ c.then = {}
  BY DEF MayWrite, Free
<1>2. c.last \in SUBSET Files /\ None \notin c.last
  BY CallType, FileNumbers
<1> QED BY <1>1, <1>2 DEF ToRemove, Hidden, Coming, Replaces

\* A handler that has written: the removals that follow are left to it.
LEMMA WrittenKeeps ==
  ASSUME NEW c \in Calls, CallOK(c), RemovalsOK(c), MayWrite(c), c.op \in {"update", "delete"},
         UNCHANGED madeFor, post'[c.of].kind # "none",
         c.op = "delete" => post'[c.of] = GonePost,
         \A f \in c.last, p \in Posts : f \notin post'[p].attached
  PROVE  LET d == Rest(Written(c))
         IN /\ d \in Calls /\ Within(d, c) /\ HandlerOK(d)'
            /\ Mine(d) = {} /\ ToRemove(d) = ToRemove(c) /\ d.emptied = None
<1> DEFINE w == Written(c)
           d == Rest(w)
<1>1. /\ w \in Calls
      /\ w.op = c.op /\ w.of = c.of /\ w.row = c.row /\ w.adds = c.adds
      /\ w.first = c.first /\ w.then = c.then /\ w.last = c.last /\ w.clears = c.clears
      /\ w.detached = c.detached /\ w.emptied = c.emptied
      /\ w.writes = FALSE /\ w.added = {} /\ w.image = None
  BY WrittenFields
<1>2. d \in {w, Idle} /\ d = Rest(w)
  BY DEF Rest
<1> HIDE DEF w, d
<1>3. /\ c.first = {} /\ c.then = {} /\ c.adds = {} /\ c.detached = None /\ c.emptied = None
      /\ ToRemove(c) = c.last
  BY MayWriteIs
<1>4. Mine(w) = {} /\ ToRemove(w) = ToRemove(c) /\ Hidden(w) \subseteq c.last
  BY <1>1, <1>3 DEF Mine, ToRemove, Hidden
<1>5. CallOK(w)
  BY <1>1, <1>3, <1>4 DEF CallOK
<1>6. HandlerOK(w)'
  <2>1. CallOK(w)'
    BY <1>5 DEF CallOK
  <2>2. PlaceOK(w)'
    <3>1. \A k : BringsOK(k, w)'
      BY <1>1, <1>3 DEF BringsOK
    <3> QED BY <3>1, <1>1 DEF PlaceOK
  <2>3. NumbersOK(w)' /\ HandsOK(w)'
    BY <1>1, <1>3, <1>4 DEF NumbersOK, HandsOK
  <2>4. RemovalsOK(w)'
    BY <1>1, <1>4 DEF RemovalsOK
  <2>5. CoverOK(w)' /\ RoomOK(w)'
    BY <1>1 DEF CoverOK, RoomOK
  <2> QED BY <2>1, <2>2, <2>3, <2>4, <2>5 DEF HandlerOK
<1>7. HandlerOK(d)'
  BY <1>2, <1>6, IdleOK
<1>8. Mine(d) = {} /\ ToRemove(d) = ToRemove(c) /\ d.emptied = None
  BY <1>1, <1>2, <1>3, <1>4, <1>5, RestIs
<1>9. d \in Calls /\ Within(d, c)
  BY <1>1, <1>2, <1>8, IdleCall DEF Within
<1>10. d = Rest(Written(c))
  BY <1>2 DEF w
<1> QED BY <1>7, <1>8, <1>9, <1>10

\* Posts that go, with what is theirs: what is left to prove of the step that takes them.
Vanish(lost) ==
  /\ post' \in [Posts -> PostRows]
  /\ \A p \in lost : Live(p) /\ post'[p] = GonePost
  /\ \A p \in Posts \ lost :
       /\ post'[p].kind = post[p].kind /\ post'[p].attached = post[p].attached
       /\ post'[p].image = post[p].image /\ (~Live(p) => post'[p] = post[p])
  /\ avatar' \in [Users -> Files \union {None}]
  /\ \A u \in Users : avatar'[u] \in {avatar[u], None}
  /\ UNCHANGED <<file, stored, uploads, faults, madeFor, clashed>>

LEMMA GoneFields ==
  /\ GonePost \in PostRows /\ GonePost.kind = "gone" /\ GonePost.attached = {}
  /\ GonePost.image = None /\ "gone" \notin Kinds \union Texts \union Pictured
  BY DEF GonePost, NoPost, PostRows, Kinds, Texts, Pictured

LEMMA VanishOthers ==
  ASSUME FilesInv, NEW lost \in SUBSET Posts, Vanish(lost), NEW c \in Calls, HandlerOK(c)
  PROVE  HandlerOK(c)'
<1>1. /\ CallOK(c) /\ PlaceOK(c) /\ HandsOK(c) /\ RemovalsOK(c) /\ Mine(c) \in SUBSET Files
  BY CallType DEF HandlerOK
<1>2. \A p \in Posts : /\ post[p].attached \in SUBSET Files
                       /\ post'[p].attached \subseteq post[p].attached
                       /\ Shown(p)' \subseteq Shown(p) /\ post'[p].image \in {post[p].image, None}
                       /\ post'[p].kind = post[p].kind \/ (p \in lost /\ post'[p] = GonePost)
                       /\ ~Live(p) => post'[p] = post[p]
  BY GoneFields, InvParts DEF Vanish, FilesTypes, PostRows, Shown
<1>3. \A f \in Mine(c) : file'[f] = file[f] /\ ~Owned(f)' /\ (file[f].name = f => Served(f)')
  <2>1. None \notin Mine(c)
    BY <1>1, FileNumbers
  <2> QED BY <2>1, <1>1, <1>2 DEF Vanish, HandsOK, Owned, Served
<1>4. \A f \in Hidden(c), p \in Posts : f \notin post'[p].attached
  BY <1>1, <1>2 DEF RemovalsOK
<1>5. /\ c.op = "create" => post'[c.of] = post[c.of]
      /\ c.op \in {"update", "delete"} => c.of \in Posts
  <2>1. c.op = "create" => post[c.of] = NoPost /\ c.of \in Posts
    BY <1>1 DEF PlaceOK, CallOK
  <2>3. c.op \in {"update", "delete"} => c.of \in Posts
    BY <1>1 DEF CallOK
  <2>4. c.op = "create" => ~Live(c.of)
    BY <2>1 DEF Live, NoPost, Kinds
  <2> QED BY <2>1, <2>3, <2>4, <1>2
<1>6. c.op \in {"update", "delete"} =>
        /\ post'[c.of].kind = post[c.of].kind \/ post'[c.of] = GonePost
        /\ post'[c.of].image \in {post[c.of].image, None}
        /\ post[c.of] = GonePost => post'[c.of] = GonePost
        /\ post[c.of].attached \in SUBSET Files
        /\ post'[c.of].attached \subseteq post[c.of].attached
  <2>1. \A p \in Posts : post[p] = GonePost => ~Live(p)
    BY GoneFields DEF Live
  <2> QED BY <2>1, <1>2, <1>5
<1>7. c.op = "avatar" => avatar'[c.of] \in {avatar[c.of], None}
  BY <1>1 DEF CallOK, Vanish
<1> QED BY <1>1, <1>3, <1>4, <1>5, <1>6, <1>7, HandlerKeeps DEF Vanish

LEMMA VanishRows ==
  ASSUME FilesInv, NEW lost \in SUBSET Posts, Vanish(lost),
         req' \in [Requests -> Calls], cut \subseteq cut', cut' \subseteq Subjects,
         \A q \in Requests : req'[q].emptied = req[q].emptied
  PROVE  FilesTypes' /\ RowsOK' /\ AttachmentLimit' /\ FilesOK' /\ ShownOK' /\ ServedOK'
<1>1. \A p \in Posts :
        \/ post'[p] = GonePost
        \/ /\ post'[p].kind = post[p].kind /\ post'[p].attached = post[p].attached
           /\ post'[p].image = post[p].image /\ (~Live(p) => post'[p] = post[p])
  BY DEF Vanish
<1>a. \A u \in Users : avatar'[u] # None => avatar'[u] = avatar[u]
  BY DEF Vanish
<1>2. \A p \in Posts : Shown(p)' \subseteq Shown(p) /\ Shown(p) \in SUBSET Files
  BY <1>1, GoneFields, InvParts DEF Shown, FilesTypes, PostRows
<1>3. FilesTypes'
  BY InvParts, GoneFields DEF FilesTypes, StorageTypeOK, Vanish
<1>4. RowsOK'
  <2>1. \A p \in Posts : ~Live(p)' => post'[p] \in {NoPost, GonePost}
    BY <1>1, InvParts, GoneFields DEF RowsOK, Live
  <2>2. \A p \in Posts, f \in Files : f \in Shown(p)' => Exists(f)'
    BY <1>2, InvParts DEF RowsOK, Vanish, Exists
  <2>3. \A u \in Users : avatar'[u] # None => Exists(avatar[u])' /\ avatar'[u] = avatar[u]
    BY <1>a, InvParts DEF RowsOK, Vanish, Exists
  <2> QED BY <2>1, <2>2, <2>3 DEF RowsOK, Exists
<1>5. AttachmentLimit'
  <2>1. Cardinality({}) = 0
    BY FS_EmptySet
  <2>2. ASSUME NEW p \in Posts, p \notin clashed
        PROVE  Cardinality(post'[p].attached) <= MaxAttachments
    <3>1. CASE post'[p].attached = post[p].attached
      BY <2>2, <3>1, InvParts DEF AttachmentLimit
    <3>2. CASE post'[p] = GonePost
      <4>1. post'[p].attached = {}
        BY <3>2, GoneFields
      <4> QED BY <4>1, <2>1, FileNumbers
    <3> QED BY <1>1, <3>1, <3>2
  <2> QED BY <2>2 DEF AttachmentLimit, Vanish
<1>6. FilesOK' /\ ShownOK'
  <2>1. FilesOK'
    BY InvParts DEF FilesOK, Vanish, Exists
  <2>2. \A p \in Posts : \A f \in Shown(p)' : madeFor'[f] = p
    BY <1>2, InvParts DEF ShownOK, Vanish
  <2>3. \A p \in Posts :
          /\ post'[p].image \notin post'[p].attached
          /\ post'[p].kind \in Texts => post'[p].image = None
          /\ post'[p].kind \in Pictured => post'[p].attached = {}
          /\ post'[p].kind = "mission" /\ post'[p].image # None =>
               file'[post'[p].image].bucket = "mission-images"
    BY <1>1, GoneFields, InvParts DEF ShownOK, Vanish
  <2> QED BY <2>1, <2>2, <2>3, <1>a, InvParts DEF ShownOK, Vanish
<1>7. ServedOK'
  <2>1. ASSUME NEW p \in Posts, NEW f \in Shown(p)', file'[f].name = f, ~Served(f)'
        PROVE  f \notin post'[p].attached /\ (p \in cut' \/ \E q \in Requests : req'[q].emptied = f)
    <3>1. f \in Shown(p) /\ file[f].name = f /\ ~Served(f)
      BY <1>2, <2>1 DEF Vanish, Served
    <3>2. post'[p].attached \subseteq post[p].attached
      BY <1>1, GoneFields
    <3> QED BY <3>1, <3>2, InvParts DEF ServedOK
  <2> QED BY <2>1 DEF ServedOK
<1> QED BY <1>3, <1>4, <1>5, <1>6, <1>7

\* The same of a whole step that no handler makes: it passes over what it takes.
LEMMA VanishKeeps ==
  ASSUME FilesInv, NEW lost \in SUBSET Posts, Vanish(lost), UNCHANGED req,
         cut \union lost \subseteq cut', cut' \subseteq Subjects,
         \A u \in Users : avatar'[u] # avatar[u] => u \in cut'
  PROVE  FilesInv'
<1>1. req' \in [Requests -> Calls] /\ \A q \in Requests : req'[q].emptied = req[q].emptied
  BY InvParts DEF FilesTypes
<1>2. FilesTypes' /\ RowsOK' /\ AttachmentLimit' /\ FilesOK' /\ ShownOK' /\ ServedOK'
  BY <1>1, VanishRows
<1>3. ASSUME NEW q \in Requests PROVE HandlerOK(req[q])'
  <2>1. PICK c \in Calls : c = req[q]
    BY InvParts
  <2>2. HandlerOK(c)'
    BY <2>1, VanishOthers DEF FilesInv
  <2> QED BY <2>1, <2>2
<1>4. NoFileIsLost'
  <2>1. ASSUME NEW f \in Files, Owned(f), ~Owned(f)' PROVE madeFor[f] \in cut'
    <3>1. CASE \E p \in Posts : f \in Shown(p)
      <4>1. PICK p \in Posts : f \in Shown(p)
        BY <3>1
      <4>2. f \notin Shown(p)'
        BY <2>1 DEF Owned
      <4>3. p \in lost
        BY <4>1, <4>2 DEF Vanish, Shown
      <4> QED BY <4>1, <4>3, InvParts DEF ShownOK
    <3>2. CASE \E u \in Users : avatar[u] = f
      <4>1. PICK u \in Users : avatar[u] = f
        BY <3>2
      <4>2. avatar'[u] # f /\ f # None
        BY <2>1, FileNumbers DEF Owned
      <4> QED BY <4>1, <4>2, InvParts DEF ShownOK
    <3> QED BY <2>1, <3>1, <3>2 DEF Owned
  <2>2. \A f \in Files : Held(f)' <=> Held(f)
    BY DEF Held
  <2> QED BY <2>1, <2>2, InvParts DEF NoFileIsLost, Vanish, Exists
<1>5. /\ \A q, s \in Requests : q # s => PairOK(req[q], req[s])'
      /\ \A q, s \in Requests : (Mine(req[q]) \intersect ToRemove(req[s]) = {})'
  BY InvParts DEF PairOK, Vanish
<1> QED BY <1>2, <1>3, <1>4, <1>5 DEF FilesInv

\* Rows of posts that go are such a step, for the posts.
LEMMA GoneVanish ==
  ASSUME FilesInv, NEW lost \in SUBSET Posts, \A p \in lost : Live(p), post' = WithoutPosts(lost),
         UNCHANGED <<file, stored, avatar, uploads, faults, madeFor, clashed>>
  PROVE  Vanish(lost)
<1>1. /\ post' \in [Posts -> PostRows]
      /\ \A p \in Posts : post'[p] = IF p \in lost THEN GonePost ELSE post[p]
  BY GoneFields, InvParts DEF FilesTypes, WithoutPosts
<1> QED BY <1>1, InvParts DEF Vanish, FilesTypes

LEMMA CascadeKeeps ==
  ASSUME FilesInv, NEW kind \in Kinds, NEW lost \in SUBSET Posts, Cascade(kind, lost) PROVE FilesInv'
<1>1. Vanish(lost)
  BY GoneVanish DEF Cascade, Live
<1>2. /\ UNCHANGED <<req, avatar>> /\ cut \union lost \subseteq cut' /\ cut' \subseteq Subjects
  BY InvParts DEF Cascade, FilesTypes, Subjects
<1> QED BY <1>1, <1>2, VanishKeeps

LEMMA DeleteUserKeeps ==
  ASSUME FilesInv, NEW u \in Users, DeleteUser(u) PROVE FilesInv'
<1>1. PICK of \in SUBSET Posts : of = {p \in Posts : post[p].author = u}
  OBVIOUS
<1>2. PICK edited \in SUBSET {p \in Posts : post[p].kind = "news"} :
        LET lost == edited \union {p \in of : post[p].kind \in {"news", "planComment"}}
        IN /\ post' = [p \in Posts |-> IF p \in lost THEN GonePost
                                      ELSE IF p \in of THEN [post[p] EXCEPT !.author = None]
                                      ELSE post[p]]
           /\ cut' = cut \union lost \union {u}
  BY <1>1 DEF DeleteUser
<1>3. PICK lost \in SUBSET Posts :
        lost = edited \union {p \in of : post[p].kind \in {"news", "planComment"}}
  OBVIOUS
<1>4. /\ cut' = cut \union lost \union {u} /\ avatar' = [avatar EXCEPT ![u] = None]
      /\ UNCHANGED <<file, stored, req, uploads, faults, madeFor, clashed>>
      /\ \A p \in lost : post[p].kind \in {"news", "planComment"}
  BY <1>2, <1>3 DEF DeleteUser
<1>5. ASSUME NEW row \in PostRows
      PROVE  LET x == [row EXCEPT !.author = None]
             IN /\ x \in PostRows /\ x.kind = row.kind /\ x.attached = row.attached
                /\ x.image = row.image /\ x.author = None
  BY DEF PostRows
<1>6. ASSUME NEW p \in Posts
      PROVE  /\ post'[p] \in PostRows
             /\ p \in lost => Live(p) /\ post'[p] = GonePost
             /\ p \notin lost =>
                  /\ post'[p].kind = post[p].kind /\ post'[p].attached = post[p].attached
                  /\ post'[p].image = post[p].image /\ (~Live(p) => post'[p] = post[p])
  <2>1. post[p] \in PostRows
    BY InvParts DEF FilesTypes
  <2>2. post'[p] = IF p \in lost THEN GonePost
                   ELSE IF p \in of THEN [post[p] EXCEPT !.author = None] ELSE post[p]
    BY <1>2, <1>3
  <2>3. p \in lost => Live(p)
    BY <1>4 DEF Live, Kinds
  <2>4. p \in of => Live(p)
    <3>1. NoPost.author = None /\ GonePost.author = None
      BY DEF NoPost, GonePost
    <3> QED BY <3>1, <1>1, InvParts, FileNumbers DEF RowsOK
  <2> QED BY <2>1, <2>2, <2>3, <2>4, <1>5, GoneFields
<1>7. /\ avatar' \in [Users -> Files \union {None}]
      /\ \A v \in Users : avatar'[v] \in {avatar[v], None} /\ (avatar'[v] # avatar[v] => v = u)
  BY <1>4, InvParts DEF FilesTypes
<1>8. post' \in [Posts -> PostRows]
  BY <1>2, <1>6
<1>9. Vanish(lost)
  BY <1>4, <1>6, <1>7, <1>8 DEF Vanish
<1>10. /\ cut \union lost \subseteq cut' /\ cut' \subseteq Subjects
       /\ \A v \in Users : avatar'[v] # avatar[v] => v \in cut'
  BY <1>4, <1>7, InvParts DEF FilesTypes, Subjects
<1> QED BY <1>4, <1>9, <1>10, VanishKeeps

LEMMA WriteDeleteKeeps ==
  ASSUME FilesInv, NEW r \in Requests, WriteDelete(r) PROVE FilesInv'
<1>0. PICK c \in Calls : c = req[r]
  BY InvParts
<1> DEFINE d == Rest(Written(c))
<1>a. PICK comments \in SUBSET Posts :
        /\ \A p \in comments : Live(p)
        /\ post' = WithoutPosts(comments \union {c.of}) /\ cut' = cut \union comments
  <2>1. PICK lost \in SUBSET PlanComments :
          LET comments == {p \in Posts : Live(p) /\ post[p].on = c.of}
          IN /\ post' = WithoutPosts(lost \union comments \union {c.of})
             /\ cut' = cut \union lost \union comments
    BY <1>0 DEF WriteDelete
  <2>2. PICK theirs \in SUBSET Posts : theirs = {p \in Posts : Live(p) /\ post[p].on = c.of}
    OBVIOUS
  <2>3. PICK comments \in SUBSET Posts : comments = lost \union theirs
    BY <2>1 DEF PlanComments
  <2>4. \A p \in comments : Live(p)
    BY <2>1, <2>2, <2>3 DEF PlanComments, Live, Kinds
  <2>5. /\ lost \union theirs \union {c.of} = comments \union {c.of}
        /\ cut \union lost \union theirs = cut \union comments
    BY <2>3
  <2>6. post' = WithoutPosts(lost \union theirs \union {c.of}) /\ cut' = cut \union lost \union theirs
    BY <2>1, <2>2
  <2> QED BY <2>4, <2>5, <2>6
<1>1. /\ MayWrite(c) /\ c.op = "delete" /\ Live(c.of)
      /\ post' = [p \in Posts |-> IF p \in comments \union {c.of} THEN GonePost ELSE post[p]]
      /\ cut' = cut \union comments
      /\ req' = [req EXCEPT ![r] = d]
      /\ UNCHANGED <<file, stored, avatar, uploads, faults, madeFor, clashed>>
  BY <1>0, <1>a DEF WriteDelete, WithoutPosts
<1>2. /\ CallOK(c) /\ RemovalsOK(c) /\ HandsOK(c) /\ (c.of \notin clashed => CoverOK(c))
      /\ c.of \in Posts /\ comments \subseteq Posts
  BY <1>0, <1>1, InvParts DEF CallOK
<1>3. Vanish(comments \union {c.of})
  BY <1>1, <1>2, <1>a, GoneVanish
<1>4. \A f \in c.last : f # None /\ f \in ToRemove(c) /\ madeFor[f] = c.of
  BY <1>1, <1>2, MayWriteIs DEF RemovalsOK
<1>5. /\ d \in Calls /\ Within(d, c) /\ HandlerOK(d)'
      /\ Mine(d) = {} /\ ToRemove(d) = ToRemove(c) /\ d.emptied = None
  <2>1. post'[c.of] = GonePost
    BY <1>1, <1>2
  <2>2. ASSUME NEW f \in c.last, NEW p \in Posts PROVE f \notin post'[p].attached
    <3>1. f \in post[p].attached => p = c.of
      BY <1>4, InvParts DEF ShownOK, Shown
    <3> QED BY <3>1, <2>1, <1>1, GoneFields
  <2> QED BY <2>1, <2>2, <1>1, <1>2, GoneFields, WrittenKeeps
<1> HIDE DEF d
<1>6. /\ req' \in [Requests -> Calls]
      /\ \A q \in Requests : req'[q] = IF q = r THEN d ELSE req[q]
      /\ \A q, s \in Requests : q # s => PairOK(req[q], req[s])'
      /\ \A q, s \in Requests : (Mine(req[q]) \intersect ToRemove(req[s]) = {})'
  BY <1>0, <1>1, <1>5, StepOf
<1>7. FilesTypes' /\ RowsOK' /\ AttachmentLimit' /\ FilesOK' /\ ShownOK' /\ ServedOK'
  <2>1. cut \subseteq cut' /\ cut' \subseteq Subjects
    BY <1>1, InvParts DEF FilesTypes, Subjects
  <2>2. \A q \in Requests : req'[q].emptied = req[q].emptied
    BY <1>0, <1>1, <1>5, <1>6, MayWriteIs
  <2> QED BY <1>2, <1>3, <1>6, <2>1, <2>2, VanishRows
<1>8. ASSUME NEW q \in Requests PROVE HandlerOK(req[q])'
  <2>1. CASE q = r
    BY <2>1, <1>5, <1>6
  <2>2. CASE q # r
    <3>1. PICK b \in Calls : b = req[q]
      BY InvParts
    <3>2. HandlerOK(b)'
      BY <3>1, <1>2, <1>3, VanishOthers DEF FilesInv
    <3> QED BY <3>1, <3>2, <2>2, <1>6
  <2> QED BY <2>1, <2>2
<1>9. NoFileIsLost'
  <2>1. ASSUME NEW f \in Files, Owned(f), ~Owned(f)'
        PROVE  madeFor[f] \in clashed \union cut' \/ f \in ToRemove(d)
    <3>1. PICK p \in Posts : f \in Shown(p) /\ f \notin Shown(p)'
      BY <2>1, <1>1 DEF Owned
    <3>2. madeFor[f] = p
      BY <3>1, InvParts DEF ShownOK
    <3>3. p \in comments \/ p = c.of
      BY <3>1, <1>1 DEF Shown
    <3>4. CASE p = c.of /\ c.of \notin clashed
      BY <3>1, <3>4, <1>1, <1>2, <1>5, MayWriteIs DEF CoverOK
    <3> QED BY <3>2, <3>3, <3>4, <1>1
  <2>2. ASSUME NEW f \in Files, f \in ToRemove(d) \/ Held(f) PROVE Held(f)'
    <3>1. \A q \in Requests : f \in Mine(req[q]) \/ f \in ToRemove(req[q]) =>
            f \in Mine(req'[q]) \/ f \in ToRemove(req'[q])
      <4>1. Mine(c) = {}
        BY <1>1, <1>2 DEF CallOK
      <4> QED BY <4>1, <1>0, <1>5, <1>6
    <3>2. \E q \in Requests : f \in Mine(req'[q]) \/ f \in ToRemove(req'[q])
      BY <2>2, <3>1, <1>6, HeldIs
    <3> QED BY <3>2, FileNumbers DEF Held, Mine
  <2> QED BY <2>1, <2>2, <1>1, InvParts DEF NoFileIsLost, Exists
<1> QED BY <1>6, <1>7, <1>8, <1>9 DEF FilesInv

\* A write that shows the uploads of a handler at a post.
Shows(c, d, r) ==
  /\ req' = [req EXCEPT ![r] = d]
  /\ post' \in [Posts -> PostRows] /\ post'[c.of].kind \in Kinds
  /\ \A p \in Posts \ {c.of} : post'[p] = post[p]
  /\ post[c.of].kind \notin {"none", "gone"} => post'[c.of].kind = post[c.of].kind
  /\ post'[c.of].attached = post[c.of].attached \union c.added
  /\ post'[c.of].image \in {None, c.image, post[c.of].image}
  /\ c.image # None => post'[c.of].image = c.image
  /\ UNCHANGED <<file, stored, avatar, uploads, faults, madeFor, clashed, cut>>

\* What they leave: the uploads are shown, for the rest nothing changes but the image.
LEMMA ShowsOthers ==
  ASSUME FilesInv, NEW r \in Requests, NEW c \in Calls, c = req[r], NEW d,
         c.of \in Posts, c.op \in {"create", "update"}, Shows(c, d, r),
         post[c.of].kind # "gone", post[c.of] # GonePost,
         NEW q \in Requests, q # r
  PROVE  HandlerOK(req[q])'
<1>1. PICK b \in Calls : b = req[q]
  BY InvParts
<1>2. /\ HandlerOK(b) /\ CallOK(b) /\ PlaceOK(b) /\ HandsOK(b) /\ RemovalsOK(b)
      /\ PairOK(c, b) /\ PairOK(b, c)
      /\ Mine(b) \in SUBSET Files /\ Mine(c) \in SUBSET Files /\ Hidden(b) \subseteq ToRemove(b)
      /\ Mine(c) \intersect ToRemove(b) = {}
  BY <1>1, InvParts, CallType DEF FilesInv, Hidden, ToRemove
<1>3. \A f \in Mine(b) : f \notin Mine(c)
  BY <1>2 DEF PairOK
<1>4. \A f \in Mine(b) : file'[f] = file[f] /\ ~Owned(f)' /\ (file[f].name = f => Served(f)')
  <2>1. ASSUME NEW f \in Mine(b), NEW p \in Posts, f \in Shown(p)' PROVE FALSE
    <3>1. f \notin Shown(p)
      BY <1>2 DEF HandsOK, Owned
    <3>2. p = c.of
      BY <3>1, <2>1 DEF Shows, Shown
    <3>3. f \in Shown(c.of) \union Mine(c)
      BY <3>2, <2>1, <1>2, FileNumbers DEF Shows, Shown, Mine
    <3> QED BY <3>1, <3>2, <3>3, <1>3
  <2> QED BY <2>1, <1>2 DEF Shows, HandsOK, Owned, Served
<1>5. \A f \in Hidden(b), p \in Posts : f \notin post'[p].attached
  <2>1. c.added \subseteq Mine(c)
    BY DEF Mine
  <2> QED BY <2>1, <1>2 DEF Shows, RemovalsOK
<1>6. /\ b.op = "create" => post'[b.of] = post[b.of]
      /\ b.op \in {"update", "delete"} => b.of \in Posts /\ post[b.of].kind # "none"
  BY <1>2 DEF PairOK, CallOK, PlaceOK, Shows
<1>7. b.op \in {"update", "delete"} =>
        /\ post'[b.of].kind = post[b.of].kind
        /\ post[b.of] = GonePost => post'[b.of] = GonePost
        /\ b.of \notin clashed => post'[b.of] = post[b.of]
  <2>1. b.of \notin clashed /\ b.op # "idle" => b.of # c.of
    BY <1>2 DEF PairOK
  <2> QED BY <2>1, <1>6 DEF Shows
<1>8. \A p \in Posts : post[p].attached \in SUBSET Files
  BY InvParts DEF FilesTypes, PostRows
<1>9. HandlerOK(b)'
  BY <1>2, <1>4, <1>5, <1>6, <1>7, <1>8, HandlerKeeps DEF Shows
<1>10. req'[q] = req[q]
  BY InvParts DEF Shows, FilesTypes
<1> QED BY <1>1, <1>9, <1>10

LEMMA ShowsKeeps ==
  ASSUME FilesInv, NEW r \in Requests, NEW c \in Calls, c = req[r], NEW d \in Calls,
         c.of \in Posts, c.op \in {"create", "update"}, Shows(c, d, r),
         post[c.of].kind # "gone", post[c.of] # GonePost,
         Within(d, c), HandlerOK(d)', c.emptied = None, ToRemove(c) \subseteq ToRemove(d),
         c.of \notin clashed => Cardinality(post[c.of].attached \union c.added) <= MaxAttachments,
         BringsOK(post'[c.of].kind, c),
         c.of \notin clashed => \/ post[c.of].image \in {None, post'[c.of].image} \union ToRemove(c)
                                \/ post[c.of].kind = "mission"
  PROVE  FilesInv'
<1>1. /\ req' \in [Requests -> Calls]
      /\ \A q \in Requests : req'[q] = IF q = r THEN d ELSE req[q]
      /\ \A q, s \in Requests : q # s => PairOK(req[q], req[s])'
      /\ \A q, s \in Requests : (Mine(req[q]) \intersect ToRemove(req[s]) = {})'
  BY StepOf DEF Shows
<1>2. /\ CallOK(c) /\ HandsOK(c) /\ Mine(c) \in SUBSET Files
      /\ \A p \in Posts : post[p].attached \in SUBSET Files /\ Shown(p) \in SUBSET Files
  BY InvParts, CallType DEF Shown, FilesTypes, PostRows
<1>3. /\ \A p \in Posts \ {c.of} : Shown(p)' = Shown(p)
      /\ Shown(c.of)' \subseteq Shown(c.of) \union Mine(c)
      /\ Mine(c) \subseteq Shown(c.of)'
  <2>1. Shown(c.of)' \subseteq Shown(c.of) \union Mine(c)
    BY DEF Shows, Shown, Mine
  <2>2. Mine(c) \subseteq Shown(c.of)'
    BY DEF Shows, Shown, Mine
  <2> QED BY <2>1, <2>2 DEF Shows, Shown
<1>4. \A q \in Requests : HandlerOK(req[q])'
  <2>1. HandlerOK(req[r])'
    BY <1>1
  <2> QED BY <2>1, ShowsOthers
<1>5. FilesTypes'
  BY InvParts, <1>1 DEF FilesTypes, StorageTypeOK, Shows
<1>6. RowsOK'
  <2>1. \A p \in Posts : ~Live(p)' => post'[p] \in {NoPost, GonePost}
    BY InvParts DEF RowsOK, Shows, Live
  <2>2. \A p \in Posts, f \in Files : f \in Shown(p)' => Exists(f)
    BY <1>2, <1>3, InvParts DEF RowsOK, HandsOK
  <2> QED BY <2>1, <2>2, InvParts DEF RowsOK, Shows, Exists
<1>7. AttachmentLimit'
  BY InvParts DEF AttachmentLimit, Shows
<1>8. FilesOK' /\ ShownOK'
  <2>1. FilesOK'
    BY InvParts DEF FilesOK, Shows, Exists
  <2>2. \A p \in Posts : \A f \in Shown(p)' : madeFor[f] = p
    BY <1>2, <1>3, InvParts DEF ShownOK, HandsOK
  <2>3. \A p \in Posts :
          /\ post[p].image \notin post[p].attached
          /\ post[p].kind \in Texts => post[p].image = None
          /\ post[p].kind \in Pictured => post[p].attached = {}
          /\ post[p].kind = "mission" /\ post[p].image # None =>
               file[post[p].image].bucket = "mission-images"
    BY InvParts DEF ShownOK
  <2>4. /\ post'[c.of].image \notin post'[c.of].attached
        /\ post'[c.of].kind \in Texts => post'[c.of].image = None
        /\ post'[c.of].kind \in Pictured => post'[c.of].attached = {}
        /\ post'[c.of].kind = "mission" /\ post'[c.of].image # None =>
             file[post'[c.of].image].bucket = "mission-images"
    <3>1. /\ post[c.of].kind = "none" => post[c.of].image = None /\ post[c.of].attached = {}
          /\ post[c.of].kind # "none" => post'[c.of].kind = post[c.of].kind
      <4>1. post[c.of].kind = "none" => post[c.of] = NoPost
        BY GoneFields, InvParts DEF RowsOK, Live, Kinds
      <4> QED BY <4>1 DEF NoPost, Shows
    <3>2. /\ c.image # None => c.image \notin post[c.of].attached
          /\ c.image \notin c.added
          /\ post[c.of].image # None => post[c.of].image \notin c.added
      BY <1>2 DEF HandsOK, CallOK, Mine, Owned, Shown
    <3>3. None \notin post[c.of].attached /\ None \notin c.added
      BY <1>2, FileNumbers DEF Mine
    <3>4. /\ post'[c.of].kind \in Texts => c.image = None
          /\ post'[c.of].kind \in Pictured => c.added = {}
          /\ post'[c.of].kind = "mission" /\ c.image # None =>
               file[c.image].bucket = "mission-images"
      BY DEF BringsOK
    <3>5. /\ post'[c.of].attached = post[c.of].attached \union c.added
          /\ post'[c.of].image \in {None, c.image, post[c.of].image}
      BY DEF Shows
    <3>6. /\ post[c.of].image \notin post[c.of].attached
          /\ post[c.of].kind \in Texts => post[c.of].image = None
          /\ post[c.of].kind \in Pictured => post[c.of].attached = {}
          /\ post[c.of].kind = "mission" /\ post[c.of].image # None =>
               file[post[c.of].image].bucket = "mission-images"
      BY <2>3
    <3>7. post'[c.of].image \notin post'[c.of].attached
      BY <3>2, <3>3, <3>5, <3>6
    <3>8. /\ post'[c.of].kind \in Texts => post'[c.of].image = None
          /\ post'[c.of].kind \in Pictured => post'[c.of].attached = {}
      BY <3>1, <3>4, <3>5, <3>6
    <3> QED BY <3>1, <3>4, <3>5, <3>6, <3>7, <3>8
  <2> QED BY <2>1, <2>2, <2>3, <2>4, InvParts DEF ShownOK, Shows
<1>9. ServedOK'
  <2>1. ASSUME NEW p \in Posts, NEW f \in Shown(p)', file[f].name = f, ~Served(f)
        PROVE  f \notin post'[p].attached /\ (p \in cut \/ \E q \in Requests : req'[q].emptied = f)
    <3>1. f \notin Mine(c)
      BY <2>1, <1>2 DEF HandsOK
    <3>2. f \in Shown(p) /\ f \in Files
      BY <3>1, <2>1, <1>2, <1>3
    <3>3. f \notin post'[p].attached
      BY <3>1, <3>2, <2>1, InvParts DEF ServedOK, Shows, Mine
    <3>4. p \in cut \/ \E q \in Requests : req[q].emptied = f
      BY <3>2, <2>1, InvParts DEF ServedOK
    <3> QED BY <3>2, <3>3, <3>4, <1>1, FileNumbers
  <2> QED BY <2>1 DEF ServedOK, Shows, Served
<1>10. NoFileIsLost'
  <2>1. ASSUME NEW f \in Files, ~Owned(f)', ~Held(f)', Owned(f)
        PROVE  madeFor[f] \in clashed \/ file[f].bucket = "mission-images"
    <3>1. f \in Shown(c.of) /\ f \notin Shown(c.of)'
      BY <2>1, <1>3 DEF Owned, Shows
    <3>2. f = post[c.of].image /\ f # post'[c.of].image /\ f # None
      BY <3>1, FileNumbers DEF Shown, Shows
    <3>3. f \notin ToRemove(c)
      <4>1. f \in ToRemove(d) => Held(f)'
        BY <1>1, FileNumbers DEF Held
      <4> QED BY <4>1, <2>1
    <3>4. madeFor[f] = c.of
      BY <3>1, InvParts DEF ShownOK
    <3>5. CASE c.of \notin clashed
      BY <3>2, <3>3, <3>5, InvParts DEF ShownOK
    <3> QED BY <3>4, <3>5
  <2>2. ASSUME NEW f \in Files, Held(f), ~Held(f)' PROVE Owned(f)'
    <3>1. f \in Mine(c)
      <4>1. ~\E q \in Requests : f \in Mine(req'[q]) \/ f \in ToRemove(req'[q])
        BY <2>2, FileNumbers DEF Held, Mine
      <4> QED BY <4>1, <2>2, <1>1, HeldIs
    <3> QED BY <3>1, <1>3 DEF Owned
  <2> QED BY <2>1, <2>2, InvParts DEF NoFileIsLost, Shows, Exists
<1> QED BY <1>1, <1>4, <1>5, <1>6, <1>7, <1>8, <1>9, <1>10 DEF FilesInv

LEMMA WriteNewKeeps ==
  ASSUME FilesInv, NEW r \in Requests, WriteNew(r) PROVE FilesInv'
<1>0. PICK c \in Calls : c = req[r]
  BY InvParts
<1>1. /\ MayWrite(c) /\ c.op = "create"
      /\ post' = [post EXCEPT ![c.of] = [c.row EXCEPT !.attached = c.added, !.image = c.image]]
      /\ req' = [req EXCEPT ![r] = Idle]
      /\ UNCHANGED <<file, stored, avatar, uploads, faults, madeFor, clashed, cut>>
  BY <1>0 DEF WriteNew
<1>2. /\ CallOK(c) /\ PlaceOK(c) /\ (c.of \notin clashed => RoomOK(c)) /\ c.of \in Posts
      /\ c.row \in PostRows /\ c.row.kind \in Kinds /\ c.added \in SUBSET Files
      /\ c.image \in Files \union {None} /\ ToRemove(c) = {} /\ post[c.of] = NoPost
  BY <1>0, <1>1, InvParts, CallType DEF CallOK, PlaceOK
<1>3. /\ NoPost.kind = "none" /\ NoPost.attached = {} /\ NoPost.image = None
      /\ "none" \notin Kinds \union Texts \union Pictured
  BY DEF NoPost, Kinds, Texts, Pictured
<1>4. /\ post' \in [Posts -> PostRows]
      /\ post'[c.of].kind = c.row.kind /\ post'[c.of].attached = c.added
      /\ post'[c.of].image = c.image
      /\ \A p \in Posts \ {c.of} : post'[p] = post[p]
  BY <1>1, <1>2, InvParts DEF FilesTypes, PostRows
<1>5. Shows(c, Idle, r)
  BY <1>1, <1>2, <1>3, <1>4 DEF Shows
<1>6. BringsOK(post'[c.of].kind, c)
  BY <1>1, <1>2, <1>4 DEF PlaceOK
<1>7. c.of \notin clashed => Cardinality(post[c.of].attached \union c.added) <= MaxAttachments
  <2>1. Coming(c) = c.added /\ c.writes /\ c.first = {}
    BY <1>1, MayWriteIs
  <2>2. (post[c.of].attached \ c.first) \union Coming(c) = post[c.of].attached \union c.added
    BY <2>1
  <2> QED BY <2>1, <2>2, <1>1, <1>2 DEF RoomOK
<1>8. post[c.of].kind # "gone" /\ post[c.of] # GonePost
  BY <1>2, <1>3, GoneFields
<1>9. Within(Idle, c) /\ Idle \in Calls /\ HandlerOK(Idle)' /\ c.emptied = None
  BY <1>1, IdleCall, IdleOK, MayWriteIs DEF Within
<1> QED BY <1>0, <1>1, <1>2, <1>3, <1>5, <1>6, <1>7, <1>8, <1>9, ShowsKeeps

LEMMA WriteUpdateKeeps ==
  ASSUME FilesInv, NEW r \in Requests, WriteUpdate(r) PROVE FilesInv'
<1>0. PICK c \in Calls : c = req[r]
  BY InvParts
<1> DEFINE d == Rest(Written(c))
<1>1. /\ MayWrite(c) /\ c.op = "update" /\ Live(c.of)
      /\ post' = [post EXCEPT ![c.of].attached = @ \union c.added,
                              ![c.of].image = IF c.clears THEN None
                                              ELSE IF c.image # None THEN c.image ELSE @]
      /\ req' = [req EXCEPT ![r] = d]
      /\ UNCHANGED <<file, stored, avatar, uploads, faults, madeFor, clashed, cut>>
  BY <1>0 DEF WriteUpdate
<1>2. /\ CallOK(c) /\ PlaceOK(c) /\ RemovalsOK(c)
      /\ c.of \notin clashed => CoverOK(c) /\ RoomOK(c)
      /\ c.of \in Posts /\ c.added \in SUBSET Files /\ c.image \in Files \union {None}
      /\ Mine(c) \intersect ToRemove(c) = {}
  BY <1>0, <1>1, InvParts, CallType DEF CallOK
<1>3. /\ c.writes /\ c.first = {} /\ c.adds = {} /\ c.emptied = None /\ ToRemove(c) = c.last
      /\ Coming(c) = c.added /\ Hidden(c) = c.last
      /\ Replaces(c) <=> c.clears \/ c.image # None
  BY <1>1, MayWriteIs
<1>4. /\ post' \in [Posts -> PostRows]
      /\ post'[c.of].kind = post[c.of].kind
      /\ post'[c.of].attached = post[c.of].attached \union c.added
      /\ post'[c.of].image = IF c.clears THEN None
                             ELSE IF c.image # None THEN c.image ELSE post[c.of].image
      /\ \A p \in Posts \ {c.of} : post'[p] = post[p]
  BY <1>1, <1>2, InvParts DEF FilesTypes, PostRows
<1>5. /\ d \in Calls /\ Within(d, c) /\ HandlerOK(d)' /\ ToRemove(d) = ToRemove(c)
  <2>1. ASSUME NEW f \in c.last, NEW p \in Posts PROVE f \notin post'[p].attached
    <3>1. f \notin post[p].attached
      BY <1>2, <1>3 DEF RemovalsOK
    <3>2. f \notin c.added
      BY <1>2, <1>3 DEF Mine
    <3> QED BY <3>1, <3>2, <1>4
  <2>2. post'[c.of].kind # "none"
    BY <1>4, <1>1 DEF Live, Kinds
  <2> QED BY <2>1, <2>2, <1>1, <1>2, WrittenKeeps
<1> HIDE DEF d
<1>6. Shows(c, d, r)
  <2>1. c.image # None => post'[c.of].image = c.image
    BY <1>2, <1>4 DEF CallOK
  <2> QED BY <2>1, <1>1, <1>4 DEF Shows, Live
<1>7. BringsOK(post'[c.of].kind, c)
  BY <1>1, <1>2, <1>4 DEF PlaceOK
<1>8. c.of \notin clashed => Cardinality(post[c.of].attached \union c.added) <= MaxAttachments
  <2>1. (post[c.of].attached \ c.first) \union Coming(c) = post[c.of].attached \union c.added
    BY <1>3
  <2> QED BY <2>1, <1>1, <1>2, <1>3 DEF RoomOK
<1>9. post[c.of].kind # "gone" /\ post[c.of] # GonePost
  BY <1>1, GoneFields DEF Live
<1>10. c.of \notin clashed => \/ post[c.of].image \in {None, post'[c.of].image} \union ToRemove(c)
                              \/ post[c.of].kind = "mission"
  BY <1>1, <1>2, <1>3, <1>4 DEF CoverOK
<1> QED BY <1>0, <1>1, <1>2, <1>3, <1>5, <1>6, <1>7, <1>8, <1>9, <1>10, ShowsKeeps

LEMMA WriteAvatarKeeps ==
  ASSUME FilesInv, NEW r \in Requests, WriteAvatar(r) PROVE FilesInv'
<1>0. PICK c \in Calls : c = req[r]
  BY InvParts
<1>1. /\ MayWrite(c) /\ c.op = "avatar"
      /\ avatar' = [avatar EXCEPT ![c.of] = c.image]
      /\ req' = [req EXCEPT ![r] = Idle]
      /\ UNCHANGED <<file, stored, post, uploads, faults, madeFor, clashed, cut>>
  BY <1>0 DEF WriteAvatar
<1>2. /\ CallOK(c) /\ HandsOK(c) /\ (c.of \notin clashed => CoverOK(c)) /\ c.of \in Users
      /\ c.image \in Files \union {None} /\ c.last = {} /\ c.added = {} /\ c.emptied = None
      /\ c.writes
  BY <1>0, <1>1, InvParts, CallType, MayWriteIs DEF CallOK
<1>3. ToRemove(c) = {} /\ Mine(c) = {c.image} \ {None}
  BY <1>1, <1>2, MayWriteIs DEF Mine
<1>4. /\ avatar' \in [Users -> Files \union {None}] /\ avatar'[c.of] = c.image
      /\ \A u \in Users \ {c.of} : avatar'[u] = avatar[u]
  BY <1>1, <1>2, InvParts DEF FilesTypes
<1>5. /\ req' \in [Requests -> Calls]
      /\ \A q \in Requests : req'[q] = IF q = r THEN Idle ELSE req[q]
      /\ \A q, s \in Requests : q # s => PairOK(req[q], req[s])'
      /\ \A q, s \in Requests : (Mine(req[q]) \intersect ToRemove(req[s]) = {})'
  BY <1>1, IdleCall, StepOf DEF Within
<1>6. FilesTypes' /\ RowsOK' /\ AttachmentLimit'
  <2>1. FilesTypes'
    BY InvParts, <1>1, <1>4, <1>5 DEF FilesTypes, StorageTypeOK
  <2>2. \A u \in Users : avatar'[u] # None => Exists(avatar'[u])
    BY <1>2, <1>3, <1>4, InvParts DEF RowsOK, HandsOK
  <2>3. RowsOK'
    BY <2>2, <1>1, InvParts DEF RowsOK, Live, Shown, Exists
  <2> QED BY <2>1, <2>3, <1>1, InvParts DEF AttachmentLimit
<1>7. ASSUME NEW q \in Requests PROVE HandlerOK(req[q])'
  <2>1. CASE q = r
    BY <2>1, <1>5, IdleOK
  <2>2. CASE q # r
    <3>1. PICK b \in Calls : b = req[q]
      BY InvParts
    <3>2. /\ HandlerOK(b) /\ CallOK(b) /\ HandsOK(b) /\ RemovalsOK(b) /\ PairOK(c, b)
          /\ Mine(b) \in SUBSET Files
      BY <3>1, <2>2, <1>0, InvParts, CallType DEF FilesInv
    <3>3. \A f \in Mine(b) : ~Owned(f)' /\ (file[f].name = f => Served(f)')
      <4>1. ASSUME NEW f \in Mine(b), Owned(f)' PROVE FALSE
        <5>1. f # c.image /\ ~Owned(f) /\ f # None
          BY <3>2, <1>3, FileNumbers DEF PairOK, HandsOK
        <5> QED BY <5>1, <4>1, <1>1, <1>4 DEF Owned, Shown
      <4> QED BY <4>1, <3>2, <1>1 DEF HandsOK, Served
    <3>4. b.op \in {"update", "delete"} => post[b.of].attached \in SUBSET Files
      BY <3>2, InvParts DEF CallOK, FilesTypes, PostRows
    <3>5. b.of \notin clashed /\ b.op = "avatar" => avatar'[b.of] \in {avatar[b.of], None}
      <4>1. b.op = "avatar" => b.of \in Users
        BY <3>2 DEF CallOK
      <4>2. b.of \notin clashed /\ b.op = "avatar" => b.of # c.of
        BY <3>2, <1>1 DEF PairOK
      <4> QED BY <4>1, <4>2, <1>4
    <3>6. \A f \in Hidden(b), p \in Posts : f \notin post'[p].attached
      BY <3>2, <1>1 DEF RemovalsOK
    <3>7. HandlerOK(b)'
      BY <1>1, <3>2, <3>3, <3>4, <3>5, <3>6, HandlerKeeps
    <3> QED BY <3>1, <3>7, <2>2, <1>5
  <2> QED BY <2>1, <2>2
<1>8. FilesOK' /\ ShownOK'
  <2>1. \A u \in Users : avatar'[u] # None => madeFor[avatar'[u]] = u
    BY <1>2, <1>3, <1>4, InvParts DEF ShownOK, HandsOK
  <2> QED BY <2>1, <1>1, InvParts DEF FilesOK, ShownOK, Exists, Shown
<1>9. ServedOK'
  <2>1. \A f \in Files : \A q \in Requests : req[q].emptied = f => req'[q].emptied = f
    BY <1>0, <1>2, <1>5, FileNumbers
  <2>2. \A p \in Posts : Shown(p) \subseteq Files
    BY InvParts DEF FilesTypes, Shown, PostRows
  <2> QED BY InvParts, <1>1, <2>1, <2>2 DEF ServedOK, Shown, Served
<1>10. NoFileIsLost'
  <2>1. ASSUME NEW f \in Files, Owned(f), ~Owned(f)' PROVE madeFor[f] \in clashed
    <3>1. f = avatar[c.of] /\ f # None
      BY <2>1, <1>1, <1>4, FileNumbers DEF Owned, Shown
    <3>2. madeFor[f] = c.of
      BY <3>1, <1>2, InvParts DEF ShownOK
    <3>3. c.of \in clashed
      BY <3>1, <1>1, <1>2, <1>3 DEF CoverOK
    <3> QED BY <3>2, <3>3
  <2>2. ASSUME NEW f \in Files, Held(f), ~Held(f)' PROVE Owned(f)'
    <3>1. f \in Mine(c)
      <4>1. ~\E q \in Requests : f \in Mine(req'[q]) \/ f \in ToRemove(req'[q])
        BY <2>2, FileNumbers DEF Held, Mine
      <4> QED BY <4>1, <2>2, <1>0, <1>3, <1>5, HeldIs
    <3> QED BY <3>1, <1>2, <1>3, <1>4 DEF Owned
  <2> QED BY <2>1, <2>2, <1>1, InvParts DEF NoFileIsLost, Exists
<1> QED BY <1>5, <1>6, <1>7, <1>8, <1>9, <1>10 DEF FilesInv

-----------------------------------------------------------------------------
(* FILES.  The invariant holds.                                            *)

LEMMA FilesInvInit ==
  ASSUME FilesInit PROVE FilesInv
<1>1. /\ file = [f \in Files |-> NoFile] /\ stored = [k \in Keys |-> None]
      /\ uploads = 0 /\ faults = 0 /\ clashed = {} /\ cut = {}
      /\ post = [p \in Posts |-> NoPost] /\ avatar = [u \in Users |-> None]
      /\ req = [r \in Requests |-> Idle] /\ madeFor = [f \in Files |-> None]
  BY DEF FilesInit, StorageInit
<1>2. /\ NoPost \in PostRows /\ NoPost.attached = {} /\ NoPost.image = None
      /\ NoPost.kind = "none" /\ "none" \notin Kinds
  BY DEF NoPost, PostRows, Kinds
<1>3. \A p \in Posts : Shown(p) = {}
  BY <1>1, <1>2 DEF Shown
<1>4. \A f \in Files : ~Exists(f)
  BY <1>1 DEF Exists
<1>5. FilesTypes /\ RowsOK
  <2>1. FilesTypes
    BY <1>1, <1>2, IdleCall, FileNumbers DEF FilesTypes, StorageTypeOK
  <2>2. RowsOK
    BY <1>1, <1>3 DEF RowsOK, Live
  <2> QED BY <2>1, <2>2
<1>6. AttachmentLimit
  <2>1. Cardinality({}) = 0
    BY FS_EmptySet
  <2> QED BY <1>1, <1>2, <2>1, FileNumbers DEF AttachmentLimit
<1>7. /\ \A r \in Requests : HandlerOK(req[r])
      /\ \A r, q \in Requests : r # q => PairOK(req[r], req[q])
      /\ \A r, q \in Requests : Mine(req[r]) \intersect ToRemove(req[q]) = {}
  BY <1>1, IdleOK, IdleCall DEF PairOK
<1>8. FilesOK /\ ServedOK /\ NoFileIsLost
  BY <1>1, <1>3, <1>4 DEF FilesOK, ServedOK, NoFileIsLost
<1>9. ShownOK
  BY <1>1, <1>2, <1>3 DEF ShownOK, Texts, Pictured
<1> QED BY <1>5, <1>6, <1>7, <1>8, <1>9 DEF FilesInv

LEMMA FilesInvStep ==
  ASSUME FilesInv, [FilesNext]_filesVars PROVE FilesInv'
<1>1. ASSUME NEW r \in Requests, NEW u \in Users, ChangeAvatar(r, u) PROVE FilesInv'
  BY <1>1, AvatarIsNew
<1>2. CASE UNCHANGED filesVars
  <2>1. UNCHANGED <<file, stored, post, avatar, req, uploads, faults, madeFor, clashed, cut>>
    BY <1>2 DEF filesVars
  <2>2. FilesTypes' /\ RowsOK' /\ AttachmentLimit' /\ FilesOK' /\ ShownOK'
    BY <2>1, InvParts DEF FilesTypes, StorageTypeOK, RowsOK, AttachmentLimit, FilesOK, ShownOK,
      Live, Shown, Exists
  <2>3. ServedOK' /\ NoFileIsLost'
    BY <2>1, InvParts DEF ServedOK, NoFileIsLost, Shown, Owned, Held, Exists, Served
  <2>4. ASSUME NEW r \in Requests PROVE HandlerOK(req[r])'
    <3>1. /\ CallOK(req[r])' /\ PlaceOK(req[r])' /\ NumbersOK(req[r])'
          /\ HandsOK(req[r])' /\ RemovalsOK(req[r])'
      BY <2>1, InvParts DEF CallOK, PlaceOK, BringsOK, NumbersOK, HandsOK, RemovalsOK,
        Owned, Shown, Exists, Served
    <3>2. (req[r].of \notin clashed => CoverOK(req[r]) /\ RoomOK(req[r]))'
      BY <2>1, InvParts DEF CoverOK, RoomOK, Live, Shown
    <3> QED BY <3>1, <3>2 DEF HandlerOK
  <2>5. /\ \A r, q \in Requests : (r # q => PairOK(req[r], req[q]))'
        /\ \A r, q \in Requests : (Mine(req[r]) \intersect ToRemove(req[q]) = {})'
    BY <2>1, InvParts DEF PairOK
  <2> QED BY <2>2, <2>3, <2>4, <2>5 DEF FilesInv
<1>3. CASE FilesNext
  BY <1>1, <1>3, CreatingKeeps, UpdatingKeeps, DeletingKeeps, DetachKeeps, RemoveObjectKeeps,
    DropRowKeeps, UploadFileKeeps, WriteNewKeeps, WriteUpdateKeeps, WriteDeleteKeeps,
    WriteAvatarKeeps, ThrowKeeps, FaultKeeps, CascadeKeeps, DeleteUserKeeps
    DEF FilesNext, DeleteChat, DeleteGames, Kinds
<1> QED BY <1>2, <1>3

\* What a user leaves: a row is written for nobody who is gone, and gets no other author.
LEMMA UserKeysStep ==
  ASSUME FilesInv, UserKeys, [FilesNext]_filesVars PROVE UserKeys'
<1>0. /\ post \in [Posts -> PostRows] /\ avatar \in [Users -> Files \union {None}]
      /\ deleted \subseteq Users /\ None \notin Users /\ Posts \intersect Users = {}
      /\ \A u \in deleted : avatar[u] = None /\ \A p \in Posts : post[p].author # u
      /\ \A r \in Requests : req[r] \in Calls /\ CallOK(req[r])
  BY InvParts, FileNumbers DEF FilesTypes, UserKeys
<1>1. ASSUME UNCHANGED <<avatar, deleted>>,
             \A p \in Posts : \/ post'[p].author \in {post[p].author, None}
                             \/ post'[p].author \notin deleted
      PROVE  UserKeys'
  BY <1>0, <1>1 DEF UserKeys
<1>2. UNCHANGED <<post, avatar, deleted>> => UserKeys'
  BY <1>0 DEF UserKeys
<1>3. GonePost.author = None
  BY DEF GonePost, NoPost
<1>4. ASSUME NEW lost, post' = WithoutPosts(lost), UNCHANGED <<avatar, deleted>> PROVE UserKeys'
  BY <1>1, <1>3, <1>4 DEF WithoutPosts
<1>5. ASSUME NEW r \in Requests, Creating(r) \/ Updating(r) \/ Deleting(r) PROVE UserKeys'
  <2>1. Creating(r) => UNCHANGED <<post, avatar, deleted>>
    <3>1. ASSUME NEW p, NEW row, NEW names, NEW bucket, NEW image, Create(r, p, row, names, bucket, image)
          PROVE  UNCHANGED <<post, avatar, deleted>>
      BY <3>1 DEF Create, Start
    <3> QED BY <3>1 DEF Creating, SendMessage, CreateMissionComment, CreatePlanComment, CreateNews,
      CreateAchievement, CreateMission
  <2>2. Updating(r) => UNCHANGED <<post, avatar, deleted>>
    <3>1. ASSUME NEW p, NEW gone, NEW names, NEW bucket, NEW image, NEW then, NEW last, NEW clears,
                 Update(r, p, gone, names, bucket, image, then, last, clears)
          PROVE  UNCHANGED <<post, avatar, deleted>>
      BY <3>1 DEF Update, Start
    <3> QED BY <3>1 DEF Updating, UpdateMessage, UpdateMissionComment, UpdatePlanComment, UpdateText,
      UpdateNews, UpdateAchievement, UpdateMission
  <2>3. Deleting(r) => UNCHANGED <<post, avatar, deleted>>
    BY DEF Deleting, DeleteMessage, DeleteMissionComment, DeletePlanComment, DeleteNews,
      DeleteAchievement, DeleteMission, Delete, Start
  <2> QED BY <2>1, <2>2, <2>3, <1>5, <1>2
<1>6. ASSUME NEW r \in Requests, NEW u \in Users, ChangeAvatar(r, u) PROVE UserKeys'
  BY <1>6, <1>2 DEF ChangeAvatar, Start
<1>7. ASSUME NEW r \in Requests,
             RemoveObject(r) \/ UploadFile(r) \/ Throw(r) \/ Fault(r) \/ UNCHANGED filesVars
      PROVE  UserKeys'
  BY <1>7, <1>2 DEF RemoveObject, UploadFile, Throw, Fault, filesVars
<1>8. ASSUME NEW r \in Requests, Detach(r) \/ WriteUpdate(r) PROVE UserKeys'
  <2>1. ASSUME NEW row \in PostRows, NEW a, NEW i
        PROVE  /\ [row EXCEPT !.attached = a].author = row.author
               /\ [row EXCEPT !.attached = a, !.image = i].author = row.author
    BY DEF PostRows
  <2>2. PICK o : o = req[r].of
    OBVIOUS
  <2>3. ASSUME NEW p \in Posts PROVE post'[p].author = post[p].author
    <3>1. post[p] \in PostRows
      BY <1>0
    <3>2. ASSUME Detach(r) PROVE post'[p].author = post[p].author
      <4>1. PICK f : post' = [post EXCEPT ![o].attached = @ \ {f}]
        BY <2>2, <3>2 DEF Detach
      <4>2. post'[p] = IF p = o THEN [post[p] EXCEPT !.attached = @ \ {f}] ELSE post[p]
        BY <1>0, <4>1
      <4> QED BY <2>1, <3>1, <4>2
    <3>3. ASSUME WriteUpdate(r) PROVE post'[p].author = post[p].author
      <4>1. PICK c \in Calls : c = req[r]
        BY <1>0
      <4>2. post' = [post EXCEPT ![o].attached = @ \union c.added,
                                 ![o].image = IF c.clears THEN None
                                              ELSE IF c.image # None THEN c.image ELSE @]
        BY <2>2, <3>3, <4>1 DEF WriteUpdate
      <4> QED BY <1>0, <3>1, <4>2 DEF PostRows
    <3> QED BY <1>8, <3>2, <3>3
  <2> QED BY <2>3, <1>1, <1>8 DEF Detach, WriteUpdate
<1>9. ASSUME NEW r \in Requests, DropRow(r) PROVE UserKeys'
  <2>1. PICK f : f = req[r].emptied
    OBVIOUS
  <2> DEFINE Except(i) == IF i = f THEN None ELSE i
  <2>2. /\ post' = [p \in Posts |-> [post[p] EXCEPT !.attached = @ \ {f}, !.image = Except(@)]]
        /\ avatar' = [u \in Users |-> Except(avatar[u])] /\ deleted' = deleted
    BY <1>9, <2>1 DEF DropRow
  <2>3. \A p \in Posts : post'[p].author = post[p].author
    BY <1>0, <2>2 DEF PostRows
  <2>4. \A u \in deleted : avatar'[u] = None
    BY <1>0, <2>2
  <2> QED BY <1>0, <2>2, <2>3, <2>4 DEF UserKeys
<1>10. ASSUME NEW r \in Requests, WriteNew(r) PROVE UserKeys'
  <2>1. PICK c \in Calls : c = req[r]
    BY <1>0
  <2>2. /\ c.row.author \notin deleted /\ UNCHANGED <<avatar, deleted>>
        /\ post' = [post EXCEPT ![c.of] = [c.row EXCEPT !.attached = c.added, !.image = c.image]]
    BY <1>10, <2>1 DEF WriteNew
  <2>3. c.row \in PostRows
    BY <2>1, CallType
  <2>4. [c.row EXCEPT !.attached = c.added, !.image = c.image].author = c.row.author
    BY <2>3 DEF PostRows
  <2>5. \A p \in Posts : post'[p].author \in {post[p].author, c.row.author}
    BY <1>0, <2>2, <2>4
  <2> QED BY <1>1, <2>2, <2>5
<1>11. ASSUME NEW r \in Requests, WriteDelete(r) PROVE UserKeys'
  BY <1>4, <1>11 DEF WriteDelete
<1>12. ASSUME NEW r \in Requests, WriteAvatar(r) PROVE UserKeys'
  BY <1>0, <1>12 DEF WriteAvatar, UserKeys
<1>13. ASSUME NEW kind, NEW lost, Cascade(kind, lost) PROVE UserKeys'
  BY <1>4, <1>13 DEF Cascade
<1>14. ASSUME NEW u \in Users, DeleteUser(u) PROVE UserKeys'
  <2>a. PICK of : of = {p \in Posts : post[p].author = u}
    OBVIOUS
  <2>b. PICK edited :
          LET lost == edited \union {p \in of : post[p].kind \in {"news", "planComment"}}
          IN post' = [p \in Posts |-> IF p \in lost THEN GonePost
                                     ELSE IF p \in of THEN [post[p] EXCEPT !.author = None]
                                     ELSE post[p]]
    BY <1>14, <2>a DEF DeleteUser
  <2>c. PICK lost : lost = edited \union {p \in of : post[p].kind \in {"news", "planComment"}}
    OBVIOUS
  <2>1. /\ post' = [p \in Posts |-> IF p \in lost THEN GonePost
                                    ELSE IF p \in of THEN [post[p] EXCEPT !.author = None]
                                    ELSE post[p]]
        /\ avatar' = [avatar EXCEPT ![u] = None] /\ deleted' = deleted \union {u}
    BY <1>14, <2>b, <2>c DEF DeleteUser
  <2>2. ASSUME NEW row \in PostRows PROVE [row EXCEPT !.author = None].author = None
    BY DEF PostRows
  <2>3. ASSUME NEW p \in Posts 
        PROVE  \/ post'[p].author = None
               \/ post'[p].author = post[p].author /\ post[p].author # u
    <3>1. post'[p] = IF p \in lost THEN GonePost
                     ELSE IF p \in of THEN [post[p] EXCEPT !.author = None] ELSE post[p]
      BY <2>1
    <3> QED BY <3>1, <2>a, <2>2, <1>0, <1>3
  <2>4. \A v \in deleted' : v \in Users /\ avatar'[v] = None
    BY <1>0, <2>1
  <2> QED BY <1>0, <2>1, <2>3, <2>4 DEF UserKeys
<1> QED BY <1>2, <1>5, <1>6, <1>7, <1>8, <1>9, <1>10, <1>11, <1>12, <1>13, <1>14
  DEF FilesNext, DeleteChat, DeleteGames, filesVars

LEMMA FilesInvImplies ==
  ASSUME FilesInv, UserKeys PROVE FilesTypeOK /\ OwnFileIsServed /\ NoFileIsLost
<1>1. FilesTypeOK
  BY InvParts DEF FilesTypes, RowsOK, FilesTypeOK
<1>2. OwnFileIsServed
  <2>1. ASSUME NEW p \in Posts, NEW f \in Shown(p), file[f].name = f, ~Served(f)
        PROVE  f = post[p].image /\ (p \in cut \/ Held(f))
    <3>1. f \in Files
      BY InvParts DEF Shown, FilesTypes, PostRows
    <3>2. f \notin post[p].attached /\ (p \in cut \/ \E r \in Requests : req[r].emptied = f)
      BY <2>1, InvParts DEF ServedOK
    <3> QED BY <3>1, <3>2, FileNumbers DEF Shown, Held, ToRemove
  <2> QED BY <2>1 DEF OwnFileIsServed
<1> QED BY <1>1, <1>2, InvParts

LEMMA FilesInvariant == FilesSpec => [](FilesInv /\ UserKeys)
<1>1. FilesInit => FilesInv /\ UserKeys
  BY FilesInvInit DEF FilesInit, UserKeys
<1>2. FilesInv /\ UserKeys /\ [FilesNext]_filesVars => (FilesInv /\ UserKeys)'
  BY FilesInvStep, UserKeysStep
<1> QED BY <1>1, <1>2, PTL DEF FilesSpec

\* Types of the rows, the objects and the calls; foreign keys, those of users who are
\* deleted while their handlers are under way included; and no post shows more
\* attachments than ATTACHMENT_MAX_COUNT unless two edits of it overlapped
\* (validateAttachmentUpdateCount counts what it read).
THEOREM FilesAreWellFormed == FilesSpec => []FilesTypeOK
  BY FilesInvariant, FilesInvImplies, PTL

\* What a post shows can be opened: deleteFile goes after the row that shows an attachment
\* (syncAttachmentUpdates, deleteMessage, MissionCommentsService.delete, deleteComment,
\* NewsService.delete), and an object of a name of its own is no other upload's to replace.
THEOREM OwnFilesAreServed == FilesSpec => []OwnFileIsServed
  BY FilesInvariant, FilesInvImplies, PTL

\* Each upload is shown, in the hands of a handler or on its way out, but for what
\* overlaps and failed calls strand, the posts that cascades take, the avatars and posts
\* of deleted users (UsersService.delete) and the images that updateMission replaces.
THEOREM NoFilesAreLost == FilesSpec => []NoFileIsLost
  BY FilesInvariant, FilesInvImplies, PTL

-----------------------------------------------------------------------------
(* VERSIONS.  The inductive invariant.                                     *)

\* What a handler has uploaded, or is going to, for its version: nobody else's yet.
Own(c) ==
  IF c.writes THEN {t.file : t \in c.adds} \union c.shots \union ({c.fresh} \ {None}) ELSE {}

\* The other files that it knows of, to keep them, to move them or to delete them.
Known(c) ==
  ({c.read.file, c.record, c.emptied} \union c.read.shots \union c.gone
     \union (IF c.writes THEN {} ELSE {c.fresh} \union c.shots)) \ {None}

OnShow(v) == ({version[v].file} \ {None}) \union version[v].shots

\* Where its mission file goes.
Slot(c) == [bucket |-> "testing-missions", name |-> c.dto.name]

\* What is left to be done, and what has been read, at each stage.
Readable(row) ==
  /\ row.status \in Statuses /\ {row.attack, row.defense} \subseteq Sides
  /\ row.file \in Files \ row.shots

UploadsOK(c) ==
  /\ \A t \in c.adds : t.key = IF IsMissionFile(t) THEN Slot(c)
                               ELSE [bucket |-> "mission-images", name |-> t.file]
  /\ \A s, t \in c.adds : s.file = t.file \/ (IsMissionFile(s) /\ IsMissionFile(t)) => s = t
  /\ \A t \in c.adds : t.file \notin c.shots \union {c.fresh}
  /\ c.fresh \notin c.shots
  /\ c.fresh # None => \A t \in c.adds : ~IsMissionFile(t)
  /\ c.fresh = None /\ c.dto.name # None => \E t \in c.adds : IsMissionFile(t)
  /\ c.dto.name = None => c.fresh = None /\ \A t \in c.adds : ~IsMissionFile(t)

JobOK(c) ==
  /\ c.op = "idle" => c = NoJob
  /\ c.op # "idle" => c.of \in Versions
  /\ c.op \in {"create", "update"} =>
       /\ c.dto.name # None => c.dto.name \in c.names
       /\ FriendlyAccepted(c.dto, c.read)
       /\ c.writes => UploadsOK(c)
  /\ c.op = "create" =>
       /\ c.writes /\ c.dto.name # None /\ ~c.dto.clear
       /\ {c.dto.attack, c.dto.defense} \subseteq Sides
       /\ c.read = NoVersion
  /\ c.op \in {"update", "delete", "status"} => Readable(c.read)
  /\ c.op \in {"delete", "status", "rollback"} =>
       c.adds = {} /\ c.fresh = None /\ c.shots = {} /\ c.record = None /\ ~c.syncs
  /\ c.op \in {"status", "rollback"} => ~c.writes
  /\ c.op \in {"idle", "create", "status"} => c.gone = {} /\ c.emptied = None /\ c.record = None
  /\ c.op = "rollback" => c.read = NoVersion
  /\ c.op = "status" <=> c.stage # "none"
  /\ c.op = "status" =>
       /\ c.target \in {"testing-missions", "big-missions", "mini-missions"}
       /\ c.decision \in Statuses
       /\ c.target = "testing-missions" => c.decision # "APPROVED"
       /\ c.stage = "unlink" => c.source \in Keys /\ c.source.name \in c.names
  /\ c.writes => c.record = None /\ c.gone = {} /\ c.emptied = None /\ ~c.syncs
  /\ ~c.writes => c.adds = {}
  /\ c.op \in {"update", "delete"} =>
       /\ c.record \in {None, c.read.file}
       /\ c.gone \union {c.emptied} \subseteq c.read.shots \union {c.read.file, None}
       /\ c.removed \subseteq c.read.shots
  /\ c.op = "update" /\ c.read.file \in c.gone \union {c.emptied} => c.fresh # None /\ ~c.over

\* The files it knows are what it takes them for.
IsShot(f) == file[f].name = f
FilesSeen(c) ==
  /\ \A f \in c.read.shots \union c.shots : Exists(f) => IsShot(f)
  /\ c.op = "rollback" => \A f \in c.gone \union ({c.emptied} \ {None}) : Exists(f) => IsShot(f)
  /\ c.read.file # None /\ Exists(c.read.file) => file[c.read.file].name \in c.names
  /\ c.writes => \A f \in c.shots : Exists(f)
  /\ c.writes /\ c.fresh # None =>
       /\ file[c.fresh] = Slot(c)
       /\ c.dto.name \notin raced => stored[Slot(c)] = c.fresh

\* The version it is about: as it has read it, if nobody else is at work on it.
SameRow(v, row) == version[v] = [row EXCEPT !.shots = version[v].shots]
VersionSeen(c) ==
  /\ c.op = "create" => version[c.of] = NoVersion
  /\ c.op \in {"update", "delete", "status", "rollback"} => version[c.of].status # "none"
  /\ c.op = "delete" /\ ~c.writes => ~LiveVersion(c.of)
  /\ c.op # "idle" /\ c.of \notin clashed =>
       /\ (c.op \in {"update", "delete"} /\ c.writes) \/ c.op = "status" => SameRow(c.of, c.read)
       /\ c.op = "update" /\ ~c.writes /\ c.fresh # None =>
            version[c.of].file = c.fresh /\ file[c.fresh] = Slot(c)
       /\ c.op = "update" /\ ~c.over /\ Exists(c.read.file) => file[c.read.file] # Slot(c)
       /\ c.stage = "decide" => Exists(c.read.file) /\ file[c.read.file].bucket = c.target

\* The move of a file, by the only request on its version and on its name.
CopyKey(c) == [file[c.read.file] EXCEPT !.bucket = c.target]
MoveSeen(c) ==
  c.op = "status" /\ c.of \notin clashed \union cut /\ file[c.read.file].name \notin raced =>
    /\ c.stage = "unlink" =>
         c.source = file[c.read.file] /\ c.source # CopyKey(c) /\ Served(c.read.file)
    /\ c.stage \in {"unlink", "rebucket"} => stored[CopyKey(c)] = c.read.file

HandOK(c) ==
  /\ JobOK(c) /\ FilesSeen(c) /\ VersionSeen(c) /\ MoveSeen(c)
  /\ Own(c) \union Known(c) \subseteq 1..uploads
  /\ Own(c) \intersect Known(c) = {}

\* Two handlers.
HandsApart(c, d) ==
  /\ c.of = d.of /\ c.op # "idle" => c.of \in clashed /\ c.op # "create"
  /\ c.names \intersect d.names \subseteq raced
  /\ Own(c) \intersect (Own(d) \union Known(d)) = {}
  /\ c.of # d.of => Known(c) \intersect Known(d) = {}

\* A handler and a version.
HandAndRow(c, v) ==
  /\ Own(c) \intersect OnShow(v) = {}
  /\ c.of # v => Known(c) \intersect OnShow(v) = {}
  /\ c.of # v /\ LiveVersion(v) /\ NameOf(v) \in c.names => NameOf(v) \in raced

\* Two versions.
RowsApart(v, w) ==
  /\ OnShow(v) \intersect OnShow(w) = {}
  /\ LiveVersion(v) /\ LiveVersion(w) /\ NameOf(v) = NameOf(w) => NameOf(v) \in raced

\* A version.
RowOK(v) ==
  /\ OnShow(v) \subseteq 1..uploads
  /\ LiveVersion(v) =>
       /\ version[v].file # None /\ {version[v].attack, version[v].defense} \subseteq Sides
       /\ \A f \in OnShow(v) : Exists(f)
       /\ \A f \in version[v].shots : IsShot(f)
       /\ NameOf(v) \in Names
       /\ v \notin clashed => ValidSides(version[v])
       /\ v \notin clashed \union cut =>
            /\ version[v].status = "APPROVED" =>
                 /\ version[v].file = judged[v]
                 /\ file[version[v].file].bucket # "testing-missions" \/ Moving(v, "decide")
            /\ NameOf(v) \notin raced =>
                 Served(version[v].file) \/ Moving(v, "rebucket") \/ Replacing(v)
  /\ ~LiveVersion(v) => version[v] \in {NoVersion, GoneVersion}

VersionsTypes ==
  /\ StorageTypeOK
  /\ mission \in [archived : BOOLEAN, type : Types]
  /\ version \in [Versions -> VersionRows]
  /\ req \in [Requests -> Jobs]
  /\ judged \in [Versions -> Files \union {None}]
  /\ clashed \subseteq Versions /\ cut \subseteq Versions /\ raced \subseteq Names

VersionsInv ==
  /\ VersionsTypes
  /\ \A r \in Requests : HandOK(req[r])
  /\ \A r, q \in Requests : r # q => HandsApart(req[r], req[q])
  /\ \A r \in Requests, v \in Versions : HandAndRow(req[r], v)
  /\ \A v \in Versions : RowOK(v)
  /\ \A v, w \in Versions : v # w => RowsApart(v, w)

-----------------------------------------------------------------------------
(* VERSIONS.  What a step of one handler leaves alone.                     *)

LEMMA NumbersAndNames ==
  /\ Files \subseteq Int /\ None \notin Files /\ Names \intersect Files = {}
  /\ None \notin Names /\ None \notin Versions /\ None \notin Sides
  /\ NoFile \notin Keys /\ NoFile.name = None
  /\ MaxFiles \in Nat /\ MaxFaults \in Nat
  BY StorageAssumption, MissionVersionsAssumption DEF Files, Keys, NoFile

LEMMA VersionParts ==
  ASSUME VersionsInv
  PROVE  /\ file \in [Files -> Keys \union {NoFile}]
         /\ stored \in [Keys -> Files \union {None}]
         /\ uploads \in 0..MaxFiles /\ faults \in 0..MaxFaults
         /\ mission \in [archived : BOOLEAN, type : Types]
         /\ version \in [Versions -> VersionRows]
         /\ req \in [Requests -> Jobs]
         /\ judged \in [Versions -> Files \union {None}]
         /\ clashed \subseteq Versions /\ cut \subseteq Versions /\ raced \subseteq Names
         /\ \A r \in Requests : HandOK(req[r])
         /\ \A r, q \in Requests : r # q => HandsApart(req[r], req[q])
         /\ \A r \in Requests, v \in Versions : HandAndRow(req[r], v)
         /\ \A v \in Versions : RowOK(v)
         /\ \A v, w \in Versions : v # w => RowsApart(v, w)
  BY DEF VersionsInv, VersionsTypes, StorageTypeOK

LEMMA JobFields ==
  ASSUME NEW c \in Jobs
  PROVE  /\ c.of \in Versions \union {None} /\ c.names \subseteq Names /\ c.dto \in Bodies
         /\ c.op \in {"idle", "create", "update", "delete", "status", "rollback"}
         /\ c.read \in VersionRows /\ c.removed \subseteq Files /\ c.adds \subseteq Uploads
         /\ c.fresh \in Files \union {None} /\ c.shots \subseteq Files
         /\ c.writes \in BOOLEAN /\ c.over \in BOOLEAN /\ c.syncs \in BOOLEAN
         /\ c.record \in Files \union {None} /\ c.gone \subseteq Files
         /\ c.emptied \in Files \union {None}
         /\ c.stage \in {"none", "copy", "unlink", "rebucket", "decide"}
         /\ c.source \in Keys \union {NoFile} /\ c.target \in Buckets \union {None}
         /\ c.decision \in Statuses \union {None}
  BY DEF Jobs

LEMMA VersionFields ==
  ASSUME NEW row \in VersionRows
  PROVE  /\ row.status \in Statuses \union {"none", "gone"} /\ row.reviewed \in BOOLEAN
         /\ row.file \in Files \union {None} /\ row.shots \subseteq Files
         /\ row.attack \in MaybeSide /\ row.defense \in MaybeSide
         /\ row.friendly \in MaybeSide /\ row.to \in MaybeSide
  BY DEF VersionRows

LEMMA FileSets ==
  ASSUME NEW c \in Jobs PROVE Own(c) \subseteq Files /\ Known(c) \subseteq Files
<1>1. c.read.file \in Files \union {None} /\ c.read.shots \subseteq Files
  BY JobFields, VersionFields
<1>2. {t.file : t \in c.adds} \subseteq Files
  BY JobFields DEF Uploads
<1> QED BY <1>1, <1>2, JobFields DEF Own, Known

LEMMA IdleJob ==
  /\ NoJob \in Jobs /\ Own(NoJob) = {} /\ Known(NoJob) = {}
  /\ NoJob.op = "idle" /\ NoJob.of = None /\ NoJob.names = {} /\ ~NoJob.writes
  /\ NoJob.stage = "none" /\ NoJob.adds = {} /\ NoJob.fresh = None /\ NoJob.shots = {}
  /\ NoJob.read = NoVersion /\ NoVersion.file = None /\ NoVersion.shots = {}
  /\ NoVersion.status = "none" /\ NoVersion \in VersionRows
  /\ JobOK(NoJob)
<1>1. NoBody \in Bodies /\ NoVersion \in VersionRows
  BY DEF NoBody, Bodies, MaybeSide, NoVersion, VersionRows
<1>2. NoJob \in Jobs
  BY <1>1 DEF NoJob, Jobs
<1>3. /\ NoJob.op = "idle" /\ NoJob.of = None /\ NoJob.names = {} /\ ~NoJob.writes
      /\ NoJob.stage = "none" /\ NoJob.adds = {} /\ NoJob.fresh = None /\ NoJob.shots = {}
      /\ NoJob.read = NoVersion /\ NoJob.record = None /\ NoJob.emptied = None
      /\ NoJob.gone = {} /\ ~NoJob.syncs /\ NoJob.dto = NoBody
      /\ NoVersion.file = None /\ NoVersion.shots = {} /\ NoVersion.status = "none"
  BY DEF NoJob, NoVersion
<1>4. Own(NoJob) = {} /\ Known(NoJob) = {}
  BY <1>3 DEF Own, Known
<1>5. JobOK(NoJob)
  BY <1>3 DEF JobOK
<1> QED BY <1>1, <1>2, <1>3, <1>4, <1>5

LEMMA IdleHand == HandOK(NoJob) /\ HandOK(NoJob)'
<1>1. FilesSeen(NoJob) /\ FilesSeen(NoJob)'
  BY IdleJob DEF FilesSeen
<1>2. VersionSeen(NoJob) /\ VersionSeen(NoJob)'
  BY IdleJob DEF VersionSeen
<1>3. MoveSeen(NoJob) /\ MoveSeen(NoJob)'
  BY IdleJob DEF MoveSeen
<1> QED BY <1>1, <1>2, <1>3, IdleJob DEF HandOK

\* A step of handler r, from c to d, and what it may touch.
Works(r, c, d) ==
  /\ req' = [req EXCEPT ![r] = d]
  /\ UNCHANGED <<uploads, clashed, raced>> /\ cut \subseteq cut'
  /\ c.op # "idle" /\ (d = NoJob \/ d.of = c.of) /\ d.names \subseteq c.names
  /\ d.op = "create" => c.op = "create"
  /\ Own(d) \subseteq Own(c) /\ Known(d) \subseteq Known(c) \union Own(c)
  /\ \A f \in Files : f \notin Own(c) \union Known(c) => file'[f] = file[f]
  /\ \A f \in Known(c) : file'[f] = NoFile \/ (Exists(f) /\ file'[f].name = file[f].name)
  /\ \A k \in Keys : k.name \notin c.names \union Own(c) \union Known(c) => stored'[k] = stored[k]
  /\ \A v \in Versions : v # c.of => version'[v] = version[v] /\ judged'[v] = judged[v]

\* What it makes of its own version, v.
ShowsNow(v, c, d) ==
  /\ OnShow(v)' \subseteq OnShow(v) \union Own(c)
  /\ Own(d) \intersect OnShow(v)' = {}
  /\ version'[v].status = "none" => version[v].status = "none"
  /\ LiveVersion(v)' => LiveVersion(v) \/ c.op = "create"
  /\ LiveVersion(v)' => NameOf(v)' \in c.names \/ (LiveVersion(v) /\ NameOf(v)' = NameOf(v))

\* The files of two handlers, and of a handler and a row.
LEMMA ApartFrom ==
  ASSUME VersionsInv, NEW r \in Requests, NEW q \in Requests, q # r,
         NEW c, c = req[r], NEW e, e = req[q], c.op # "idle"
  PROVE  /\ Own(c) \intersect (Own(e) \union Known(e)) = {}
         /\ Own(e) \intersect (Own(c) \union Known(c)) = {}
         /\ c.names \intersect e.names \subseteq raced
         /\ c.of # e.of => Known(c) \intersect Known(e) = {}
         /\ c.of = e.of => e.of \in clashed /\ c.op # "create" /\ e.op # "create"
<1>1. HandsApart(c, e) /\ HandsApart(e, c) /\ c.of \in Versions /\ HandOK(e) /\ e \in Jobs
  BY VersionParts DEF HandOK, JobOK
<1>2. c.of = e.of => e.op # "idle"
  BY <1>1, IdleJob, NumbersAndNames DEF HandOK, JobOK
<1> QED BY <1>1, <1>2 DEF HandsApart

\* A file that another handler, or another version, knows of.
LEMMA FilesKept ==
  ASSUME VersionsInv, NEW r \in Requests, NEW q \in Requests, q # r,
         NEW c, c = req[r], NEW d, Works(r, c, d), NEW e, e = req[q]
  PROVE  /\ \A f \in Own(e) : file'[f] = file[f]
         /\ \A f \in Known(e) : file'[f] = file[f] \/ (file'[f] = NoFile /\ Exists(f))
              \/ (Exists(f) /\ Exists(f)' /\ file'[f].name = file[f].name)
         /\ e.of # c.of => \A f \in Known(e) : file'[f] = file[f]
<1>1. c \in Jobs /\ e \in Jobs /\ c.op # "idle"
  BY VersionParts DEF Works
<1>2. Own(e) \subseteq Files /\ Known(e) \subseteq Files
  BY <1>1, FileSets
<1>3. /\ Own(c) \intersect (Own(e) \union Known(e)) = {}
      /\ Own(e) \intersect (Own(c) \union Known(c)) = {}
      /\ c.of # e.of => Known(c) \intersect Known(e) = {}
  BY <1>1, ApartFrom
<1>4. /\ \A f \in Files : f \notin Own(c) \union Known(c) => file'[f] = file[f]
      /\ \A f \in Known(c) : file'[f] = NoFile \/ (Exists(f) /\ file'[f].name = file[f].name)
  BY DEF Works
<1>5. ASSUME NEW f \in Known(e)
      PROVE  file'[f] = file[f] \/ (file'[f] = NoFile /\ Exists(f))
              \/ (Exists(f) /\ Exists(f)' /\ file'[f].name = file[f].name)
  <2>1. CASE f \in Known(c)
    BY <2>1, <1>4 DEF Exists
  <2>2. CASE f \notin Known(c)
    BY <2>2, <1>2, <1>3, <1>4
  <2> QED BY <2>1, <2>2
<1> QED BY <1>2, <1>3, <1>4, <1>5

LEMMA OtherHandKept ==
  ASSUME VersionsInv, NEW r \in Requests, NEW q \in Requests, q # r,
         NEW c, c = req[r], NEW d, Works(r, c, d), NEW e, e = req[q],
         NEW v \in Versions, v = c.of, ShowsNow(v, c, d)
  PROVE  HandOK(e)'
<1>1. c \in Jobs /\ e \in Jobs /\ c.op # "idle" /\ HandOK(e) /\ JobOK(e)
  BY VersionParts DEF Works, HandOK
<1>2. /\ c.names \intersect e.names \subseteq raced
      /\ c.of = e.of => e.of \in clashed /\ c.op # "create" /\ e.op # "create"
  BY <1>1, ApartFrom
<1>3. /\ \A f \in Own(e) : file'[f] = file[f]
      /\ \A f \in Known(e) : Exists(f)' => Exists(f) /\ file'[f].name = file[f].name
      /\ e.of # c.of => \A f \in Known(e) : file'[f] = file[f]
  BY FilesKept DEF Exists
<1>4. /\ UNCHANGED <<uploads, clashed, raced>> /\ cut \subseteq cut'
      /\ \A k \in Keys : k.name \notin c.names \union Own(c) \union Known(c) => stored'[k] = stored[k]
      /\ \A w \in Versions : w # c.of => version'[w] = version[w]
  BY DEF Works
<1>5. \A k \in Keys : k.name \in Names /\ k.name \in e.names /\ k.name \notin raced =>
        stored'[k] = stored[k]
  BY <1>1, <1>2, <1>4, FileSets, NumbersAndNames
<1>6. JobOK(e)' 
  BY <1>1 DEF JobOK, UploadsOK
<1>7. FilesSeen(e)'
  <2>1. FilesSeen(e) /\ (e.writes => e.fresh \in Own(e) \union {None} /\ e.shots \subseteq Own(e))
        /\ (~e.writes => e.shots \subseteq Known(e))
        /\ e.read.shots \subseteq Known(e) /\ e.read.file \in Known(e) \union {None}
        /\ e.gone \union ({e.emptied} \ {None}) \subseteq Known(e)
    <3>1. e.read.shots \subseteq Files /\ e.gone \subseteq Files /\ e.shots \subseteq Files
          /\ e.read.file \in Files \union {None} /\ e.emptied \in Files \union {None}
      BY <1>1, JobFields, VersionFields
    <3> QED BY <1>1, <3>1, NumbersAndNames DEF HandOK, Own, Known
  <2>2. \A f \in Own(e) \union Known(e) : Exists(f)' => Exists(f) /\ file'[f].name = file[f].name
    BY <1>3 DEF Exists
  <2>3. \A f \in Own(e) \union Known(e) : (Exists(f) => IsShot(f)) => (Exists(f)' => IsShot(f)')
    BY <2>2 DEF IsShot
  <2>4. ASSUME e.writes, e.fresh # None
        PROVE  /\ file'[e.fresh] = Slot(e)
               /\ e.dto.name \notin raced' => stored'[Slot(e)] = e.fresh
    <3>1. file[e.fresh] = Slot(e) /\ (e.dto.name \notin raced => stored[Slot(e)] = e.fresh)
      BY <2>1, <2>4 DEF FilesSeen
    <3>2. e.op \in {"create", "update"}
      BY <1>1, <2>4, JobFields, IdleJob DEF JobOK
    <3>3. e.dto.name # None
      BY <1>1, <2>4, <3>2 DEF JobOK, UploadsOK
    <3>4. e.dto.name \in e.names /\ e.dto.name \in Names /\ Slot(e).name = e.dto.name
      BY <1>1, <3>2, <3>3, JobFields DEF JobOK, Bodies, Slot
    <3>5. Slot(e) \in Keys
      BY <3>4 DEF Slot, Keys, Buckets
    <3> QED BY <3>1, <3>4, <3>5, <1>3, <1>4, <1>5, <2>1, <2>4
  <2>5. \A f \in e.read.shots \union e.shots : Exists(f)' => IsShot(f)'
    BY <2>1, <2>3 DEF FilesSeen
  <2>6. e.op = "rollback" => \A f \in e.gone \union ({e.emptied} \ {None}) : Exists(f)' => IsShot(f)'
    BY <2>1, <2>3 DEF FilesSeen
  <2>7. e.read.file # None /\ Exists(e.read.file)' => file'[e.read.file].name \in e.names
    BY <2>1, <2>2 DEF FilesSeen
  <2>8. e.writes => \A f \in e.shots : Exists(f)'
    BY <2>1, <1>3 DEF FilesSeen, Exists
  <2> QED BY <2>4, <2>5, <2>6, <2>7, <2>8 DEF FilesSeen, Slot
<1>8. VersionSeen(e)'
  <2>1. VersionSeen(e) /\ (e.op # "idle" => e.of \in Versions)
    BY <1>1 DEF HandOK, JobOK
  <2>2. /\ version'[v].status = "none" => version[v].status = "none"
        /\ LiveVersion(v)' => LiveVersion(v) \/ c.op = "create"
    BY DEF ShowsNow
  <2>3. CASE e.of = c.of
    BY <2>1, <2>2, <2>3, <1>2, <1>4 DEF VersionSeen
  <2>4. CASE e.of # c.of
    <3>1. e.op # "idle" => version'[e.of] = version[e.of]
      BY <2>1, <2>4, <1>4
    <3>2. \A f \in Known(e) : file'[f] = file[f]
      BY <2>4, <1>3
    <3>3. e.op = "update" /\ ~e.writes => e.fresh \in Known(e) \union {None}
      BY DEF Known
    <3>4. e.op \in {"update", "status"} => e.read.file \in Known(e)
      BY <1>1, JobFields, NumbersAndNames DEF JobOK, Known, Readable
    <3>5. /\ e.op = "create" => version'[e.of] = NoVersion
          /\ e.op \in {"update", "delete", "status", "rollback"} => version'[e.of].status # "none"
          /\ e.op = "delete" /\ ~e.writes => ~LiveVersion(e.of)'
          /\ (e.op \in {"update", "delete"} /\ e.writes) \/ e.op = "status" =>
               (SameRow(e.of, e.read) => SameRow(e.of, e.read)')
      BY <2>1, <3>1 DEF VersionSeen, LiveVersion, SameRow
    <3>6. ASSUME e.op # "idle", e.of \notin clashed
          PROVE
         /\ (e.op \in {"update", "delete"} /\ e.writes) \/ e.op = "status" => SameRow(e.of, e.read)'
         /\ e.op = "update" /\ ~e.writes /\ e.fresh # None =>
              version'[e.of].file = e.fresh /\ file'[e.fresh] = Slot(e)
         /\ e.op = "update" /\ ~e.over /\ Exists(e.read.file)' => file'[e.read.file] # Slot(e)
         /\ e.stage = "decide" => Exists(e.read.file)' /\ file'[e.read.file].bucket = e.target
      <4>1. e.stage = "decide" => e.op = "status"
        BY <1>1 DEF JobOK
      <4>2. /\ (e.op \in {"update", "delete"} /\ e.writes) \/ e.op = "status" => SameRow(e.of, e.read)
            /\ e.op = "update" /\ ~e.writes /\ e.fresh # None =>
                 version[e.of].file = e.fresh /\ file[e.fresh] = Slot(e)
            /\ e.op = "update" /\ ~e.over /\ Exists(e.read.file) => file[e.read.file] # Slot(e)
            /\ e.stage = "decide" => Exists(e.read.file) /\ file[e.read.file].bucket = e.target
        BY <2>1, <3>6 DEF VersionSeen
      <4> QED BY <3>1, <3>2, <3>3, <3>4, <3>5, <3>6, <4>1, <4>2 DEF Exists
    <3> QED BY <1>4, <3>5, <3>6 DEF VersionSeen, Slot
  <2> QED BY <2>3, <2>4
<1>9. MoveSeen(e)'
  <2> SUFFICES ASSUME e.op = "status", e.of \notin clashed \union cut', 
                      file'[e.read.file].name \notin raced
               PROVE  /\ e.stage = "unlink" =>
                           /\ e.source = file'[e.read.file] /\ e.source # CopyKey(e)'
                           /\ Served(e.read.file)'
                      /\ e.stage \in {"unlink", "rebucket"} => stored'[CopyKey(e)'] = e.read.file
    BY <1>4 DEF MoveSeen
  <2>1. e.of # c.of /\ e.of \in Versions /\ e.of \notin cut /\ MoveSeen(e)
    BY <1>1, <1>2, <1>4 DEF JobOK, HandOK
  <2>2. SameRow(e.of, e.read) /\ Readable(e.read)
    BY <1>1, <1>4 DEF HandOK, VersionSeen, JobOK
  <2>3. version[e.of].file = e.read.file /\ LiveVersion(e.of)
    BY <2>1, <2>2, VersionParts DEF SameRow, Readable, LiveVersion, VersionRows
  <2>4. Exists(e.read.file) /\ e.read.file \in Files /\ e.read.file \in Known(e)
    BY <2>1, <2>2, <2>3, VersionParts, NumbersAndNames DEF RowOK, OnShow, Readable, Known
  <2>5. file'[e.read.file] = file[e.read.file]
    BY <1>3, <2>1, <2>4
  <2>6. file[e.read.file] \in Keys /\ file[e.read.file].name \in e.names /\ e.names \subseteq Names
    BY <1>1, <2>4, VersionParts, NumbersAndNames, JobFields DEF Exists, HandOK, FilesSeen
  <2>7. CopyKey(e)' = CopyKey(e)
    BY <2>5 DEF CopyKey
  <2>8. CopyKey(e) \in Keys /\ CopyKey(e).name = file[e.read.file].name
    BY <1>1, <2>6 DEF CopyKey, Keys, JobOK, Buckets
  <2>9. /\ stored'[file[e.read.file]] = stored[file[e.read.file]]
        /\ stored'[CopyKey(e)] = stored[CopyKey(e)]
    BY <1>5, <2>5, <2>6, <2>8
  <2> QED BY <1>4, <2>1, <2>5, <2>7, <2>9 DEF MoveSeen, Served
<1> QED BY <1>1, <1>4, <1>6, <1>7, <1>8, <1>9 DEF HandOK

LEMMA OtherPairsKept ==
  ASSUME VersionsInv, NEW r \in Requests, NEW q \in Requests, q # r,
         NEW c, c = req[r], NEW d, Works(r, c, d), NEW e, e = req[q]
  PROVE  HandsApart(d, e)' /\ HandsApart(e, d)'
<1>1. c \in Jobs /\ e \in Jobs /\ c.op # "idle" /\ JobOK(e) /\ Known(e) \subseteq Files
  BY VersionParts, FileSets DEF Works, HandOK
<1>2. /\ Own(c) \intersect (Own(e) \union Known(e)) = {}
      /\ Own(e) \intersect (Own(c) \union Known(c)) = {}
      /\ c.names \intersect e.names \subseteq raced
      /\ c.of # e.of => Known(c) \intersect Known(e) = {}
      /\ c.of = e.of => e.of \in clashed /\ c.op # "create" /\ e.op # "create"
  BY <1>1, ApartFrom
<1>3. /\ UNCHANGED <<clashed, raced>> /\ d.names \subseteq c.names
      /\ d = NoJob \/ d.of = c.of
      /\ d.op = "create" => c.op = "create"
      /\ Own(d) \subseteq Own(c) /\ Known(d) \subseteq Known(c) \union Own(c)
  BY DEF Works
<1>4. e.op # "idle" => e.of # None
  BY <1>1, NumbersAndNames DEF JobOK
<1>5. d.of = e.of /\ (d.op # "idle" \/ e.op # "idle") => c.of = e.of
  BY <1>3, <1>4, IdleJob
<1>6. d.of # e.of => Known(d) \intersect Known(e) = {}
  BY <1>2, <1>3, IdleJob
<1> QED BY <1>2, <1>3, <1>5, <1>6 DEF HandsApart

LEMMA OtherRowKept ==
  ASSUME VersionsInv, NEW r \in Requests, NEW c, c = req[r], NEW d, Works(r, c, d),
         NEW w \in Versions, w # c.of
  PROVE  /\ version'[w] = version[w] /\ OnShow(w)' = OnShow(w)
         /\ \A f \in OnShow(w) : f \in Files /\ f \notin Own(c) \union Known(c) /\ file'[f] = file[f]
         /\ LiveVersion(w)' <=> LiveVersion(w)
         /\ LiveVersion(w) => NameOf(w)' = NameOf(w) /\ version[w].file \in OnShow(w)
         /\ LiveVersion(w) /\ NameOf(w) \in c.names => NameOf(w) \in raced
<1>1. HandAndRow(c, w) /\ RowOK(w) /\ version[w] \in VersionRows
  BY VersionParts
<1>2. version'[w] = version[w] /\ OnShow(w)' = OnShow(w) /\ (LiveVersion(w)' <=> LiveVersion(w))
  BY DEF Works, OnShow, LiveVersion
<1>3. OnShow(w) \subseteq Files
  BY <1>1, VersionFields DEF OnShow
<1>4. \A f \in OnShow(w) : f \notin Own(c) \union Known(c) /\ file'[f] = file[f]
  BY <1>1, <1>3 DEF HandAndRow, Works
<1>5. LiveVersion(w) => version[w].file \in OnShow(w)
  BY <1>1 DEF RowOK, OnShow
<1>6. LiveVersion(w) => NameOf(w)' = NameOf(w)
  BY <1>2, <1>4, <1>5 DEF NameOf
<1> QED BY <1>1, <1>2, <1>3, <1>4, <1>5, <1>6 DEF HandAndRow

\* What a job asks for stays: that a move is at a stage, or a file about to be replaced.
LEMMA OtherAsksKept ==
  ASSUME NEW r \in Requests, NEW c, c = req[r], NEW d, Works(r, c, d),
         req \in [Requests -> Jobs], NEW w,
         w # c.of
  PROVE  /\ Moving(w, "decide") => Moving(w, "decide")'
         /\ Moving(w, "rebucket") => Moving(w, "rebucket")'
         /\ Replacing(w) => Replacing(w)'
<1>1. \A q \in Requests : req[q].of = w => req'[q] = req[q]
  BY DEF Works
<1> QED BY <1>1 DEF Moving, Replacing

LEMMA OtherRowOK ==
  ASSUME VersionsInv, NEW r \in Requests, NEW c, c = req[r], NEW d, Works(r, c, d),
         NEW w \in Versions, w # c.of
  PROVE  RowOK(w)'
<1>1. /\ version'[w] = version[w] /\ OnShow(w)' = OnShow(w)
      /\ \A f \in OnShow(w) : f \in Files /\ file'[f] = file[f]
      /\ LiveVersion(w)' <=> LiveVersion(w)
      /\ LiveVersion(w) => NameOf(w)' = NameOf(w) /\ version[w].file \in OnShow(w)
      /\ LiveVersion(w) /\ NameOf(w) \in c.names => NameOf(w) \in raced
  BY OtherRowKept
<1>2. RowOK(w) /\ c \in Jobs /\ req \in [Requests -> Jobs]
  BY VersionParts
<1>3. UNCHANGED <<uploads, clashed, raced>> /\ cut \subseteq cut' /\ judged'[w] = judged[w]
  BY DEF Works
<1>4. /\ Moving(w, "decide") => Moving(w, "decide")'
      /\ Moving(w, "rebucket") => Moving(w, "rebucket")'
      /\ Replacing(w) => Replacing(w)'
  BY <1>2, OtherAsksKept
<1>5. LiveVersion(w) => version[w].file \in Files /\ Exists(version[w].file) /\ NameOf(w) \in Names
  BY <1>1, <1>2 DEF RowOK
<1>6. ASSUME LiveVersion(w), NameOf(w) \notin raced, Served(version[w].file)
      PROVE  Served(version[w].file)'
  <2>1. file[version[w].file] \in Keys /\ file[version[w].file].name = NameOf(w)
    BY <1>5, <1>6, VersionParts DEF Exists, NameOf
  <2>2. NameOf(w) \notin c.names \union Own(c) \union Known(c)
    BY <1>1, <1>2, <1>5, <1>6, FileSets, NumbersAndNames
  <2> QED BY <1>1, <1>6, <2>1, <2>2 DEF Works, Served
<1>7. ~LiveVersion(w)' => version'[w] \in {NoVersion, GoneVersion}
  BY <1>1, <1>2 DEF RowOK
<1>8. ASSUME LiveVersion(w)
      PROVE  /\ version[w].file # None /\ {version[w].attack, version[w].defense} \subseteq Sides
             /\ \A f \in OnShow(w) : Exists(f)'
             /\ \A f \in version[w].shots : IsShot(f)'
             /\ NameOf(w)' \in Names
             /\ w \notin clashed => ValidSides(version[w])
             /\ w \notin clashed \union cut' =>
                  /\ version[w].status = "APPROVED" =>
                       /\ version[w].file = judged'[w]
                       /\ file'[version[w].file].bucket # "testing-missions" \/ Moving(w, "decide")'
                  /\ NameOf(w)' \notin raced =>
                       Served(version[w].file)' \/ Moving(w, "rebucket")' \/ Replacing(w)'
  <2>1. /\ version[w].file # None /\ {version[w].attack, version[w].defense} \subseteq Sides
        /\ \A f \in OnShow(w) : Exists(f)'
        /\ \A f \in version[w].shots : IsShot(f)'
        /\ NameOf(w)' \in Names
        /\ w \notin clashed => ValidSides(version[w])
    BY <1>1, <1>2, <1>5, <1>8 DEF RowOK, Exists, IsShot, OnShow
  <2>2. ASSUME w \notin clashed \union cut'
        PROVE  /\ version[w].status = "APPROVED" =>
                       /\ version[w].file = judged'[w]
                       /\ file'[version[w].file].bucket # "testing-missions" \/ Moving(w, "decide")'
               /\ NameOf(w)' \notin raced =>
                       Served(version[w].file)' \/ Moving(w, "rebucket")' \/ Replacing(w)'
    <3>1. /\ version[w].status = "APPROVED" =>
               /\ version[w].file = judged[w]
               /\ file[version[w].file].bucket # "testing-missions" \/ Moving(w, "decide")
          /\ NameOf(w) \notin raced =>
               Served(version[w].file) \/ Moving(w, "rebucket") \/ Replacing(w)
      BY <1>2, <1>3, <1>8, <2>2 DEF RowOK
    <3>2. file'[version[w].file] = file[version[w].file] /\ NameOf(w)' = NameOf(w)
      BY <1>1, <1>8
    <3> QED BY <1>3, <1>4, <1>6, <1>8, <3>1, <3>2
  <2> QED BY <2>1, <2>2
<1>9. OnShow(w)' \subseteq 1..uploads'
  BY <1>1, <1>2, <1>3 DEF RowOK
<1>10. version'[w].file = version[w].file /\ version'[w].shots = version[w].shots
  BY <1>1
<1> QED BY <1>1, <1>3, <1>7, <1>8, <1>9 DEF RowOK

LEMMA WorkKeeps ==
  ASSUME VersionsInv, NEW r \in Requests, NEW c, c = req[r], NEW d, Works(r, c, d),
         NEW v \in Versions, v = c.of, ShowsNow(v, c, d),
         VersionsTypes', HandOK(d)', RowOK(v)'
  PROVE  VersionsInv'
<1>1. c \in Jobs /\ c.op # "idle" /\ d \in Jobs /\ req'[r] = d /\ HandAndRow(c, v)
      /\ \A q \in Requests : q # r => req'[q] = req[q]
  <2>1. req \in [Requests -> Jobs] /\ req' \in [Requests -> Jobs]
    BY VersionParts DEF VersionsTypes
  <2> QED BY <2>1, VersionParts DEF Works
<1>2. ASSUME NEW q \in Requests PROVE HandOK(req[q])'
  <2>1. CASE q = r
    BY <2>1, <1>1
  <2>2. CASE q # r
    <3>1. PICK e : e = req[q]
      OBVIOUS
    <3>2. HandOK(e)'
      BY <2>2, <3>1, OtherHandKept
    <3> QED BY <1>1, <2>2, <3>1, <3>2
  <2> QED BY <2>1, <2>2
<1>3. ASSUME NEW q \in Requests, q # r, NEW e, e = req[q]
      PROVE  HandsApart(d, e)' /\ HandsApart(e, d)'
  BY <1>3, OtherPairsKept
<1>4. ASSUME NEW p \in Requests, NEW q \in Requests, p # q PROVE HandsApart(req[p], req[q])'
  <2>1. PICK e : e = req[p]
    OBVIOUS
  <2>2. PICK g : g = req[q]
    OBVIOUS
  <2>3. CASE p = r
    <3>1. HandsApart(d, g)'
      BY <1>3, <1>4, <2>2, <2>3
    <3> QED BY <1>1, <1>4, <2>2, <2>3, <3>1
  <2>4. CASE q = r
    <3>1. HandsApart(e, d)'
      BY <1>3, <1>4, <2>1, <2>4
    <3> QED BY <1>1, <1>4, <2>1, <2>4, <3>1
  <2>5. CASE p # r /\ q # r
    <3>1. HandsApart(e, g)
      BY <1>4, <2>1, <2>2, VersionParts
    <3>2. HandsApart(e, g)'
      BY <3>1 DEF HandsApart, Works
    <3> QED BY <1>1, <2>1, <2>2, <2>5, <3>2
  <2> QED BY <2>3, <2>4, <2>5
<1>5. UNCHANGED <<clashed, raced>> /\ d.names \subseteq c.names /\ (d = NoJob \/ d.of = c.of)
      /\ Own(d) \subseteq Own(c) /\ Known(d) \subseteq Known(c) \union Own(c)
  BY DEF Works
<1>6. ASSUME NEW w \in Versions PROVE HandAndRow(d, w)'
  <2>1. CASE w # v
    <3>1. /\ OnShow(w)' = OnShow(w)
          /\ \A f \in OnShow(w) : f \notin Own(c) \union Known(c)
          /\ LiveVersion(w)' <=> LiveVersion(w)
          /\ LiveVersion(w) => NameOf(w)' = NameOf(w)
          /\ LiveVersion(w) /\ NameOf(w) \in c.names => NameOf(w) \in raced
      BY <2>1, OtherRowKept
    <3> QED BY <1>5, <3>1 DEF HandAndRow
  <2>2. CASE w = v
    <3>1. Own(d) \intersect OnShow(w)' = {}
      BY <2>2 DEF ShowsNow
    <3>2. d.of # w => Known(d) = {} /\ d.names = {}
      BY <1>5, <2>2, IdleJob
    <3> QED BY <3>1, <3>2 DEF HandAndRow
  <2> QED BY <2>1, <2>2
<1>7. ASSUME NEW q \in Requests, q # r, NEW e, e = req[q], NEW w \in Versions
      PROVE  HandAndRow(e, w)'
  <2>1. HandAndRow(e, w) /\ e \in Jobs
    BY <1>7, VersionParts
  <2>2. CASE w # v
    <3>1. /\ OnShow(w)' = OnShow(w)
          /\ LiveVersion(w)' <=> LiveVersion(w)
          /\ LiveVersion(w) => NameOf(w)' = NameOf(w)
      BY <2>2, OtherRowKept
    <3> QED BY <1>5, <2>1, <3>1 DEF HandAndRow
  <2>3. CASE w = v
    <3>1. /\ Own(c) \intersect (Own(e) \union Known(e)) = {}
          /\ c.names \intersect e.names \subseteq raced
      BY <1>1, <1>7, ApartFrom
    <3>2. /\ OnShow(w)' \subseteq OnShow(w) \union Own(c)
          /\ LiveVersion(w)' => NameOf(w)' \in c.names \/ (LiveVersion(w) /\ NameOf(w)' = NameOf(w))
      BY <2>3 DEF ShowsNow
    <3> QED BY <1>5, <2>1, <3>1, <3>2 DEF HandAndRow
  <2> QED BY <2>2, <2>3
<1>8. ASSUME NEW q \in Requests, NEW w \in Versions PROVE HandAndRow(req[q], w)'
  <2>1. CASE q = r
    BY <1>1, <1>6, <2>1
  <2>2. CASE q # r
    <3>1. PICK e : e = req[q]
      OBVIOUS
    <3>2. HandAndRow(e, w)'
      BY <1>7, <2>2, <3>1
    <3> QED BY <1>1, <2>2, <3>1, <3>2
  <2> QED BY <2>1, <2>2
<1>9. ASSUME NEW w \in Versions PROVE RowOK(w)'
  BY OtherRowOK
<1>10. ASSUME NEW w \in Versions, NEW u \in Versions, w # u PROVE RowsApart(w, u)'
  <2>1. RowsApart(w, u) /\ RowsApart(u, w)
    BY <1>10, VersionParts
  <2>2. ASSUME NEW x \in Versions, x # v
        PROVE  /\ OnShow(x)' = OnShow(x)
               /\ \A f \in OnShow(x) : f \notin Own(c)
               /\ LiveVersion(x)' <=> LiveVersion(x)
               /\ LiveVersion(x) => NameOf(x)' = NameOf(x)
               /\ LiveVersion(x) /\ NameOf(x) \in c.names => NameOf(x) \in raced
    BY <2>2, OtherRowKept
  <2>3. /\ OnShow(v)' \subseteq OnShow(v) \union Own(c)
        /\ LiveVersion(v)' => NameOf(v)' \in c.names \/ (LiveVersion(v) /\ NameOf(v)' = NameOf(v))
    BY DEF ShowsNow
  <2>4. CASE w = v
    BY <1>5, <1>10, <2>1, <2>2, <2>3, <2>4 DEF RowsApart
  <2>5. CASE u = v
    BY <1>5, <1>10, <2>1, <2>2, <2>3, <2>5 DEF RowsApart
  <2>6. CASE w # v /\ u # v
    BY <1>5, <1>10, <2>1, <2>2, <2>6 DEF RowsApart
  <2> QED BY <2>4, <2>5, <2>6
<1> QED BY <1>2, <1>4, <1>8, <1>9, <1>10 DEF VersionsInv

-----------------------------------------------------------------------------
(* VERSIONS.  The steps of a handler.                                      *)

\* What a handler at work is and knows.
LEMMA HandAtWork ==
  ASSUME VersionsInv, NEW r \in Requests, NEW c, c = req[r], c.op # "idle"
  PROVE  /\ c \in Jobs /\ c.of \in Versions /\ HandOK(c) /\ JobOK(c)
         /\ FilesSeen(c) /\ VersionSeen(c) /\ MoveSeen(c)
         /\ Own(c) \subseteq Files /\ Known(c) \subseteq Files
         /\ Own(c) \union Known(c) \subseteq 1..uploads /\ Own(c) \intersect Known(c) = {}
         /\ HandAndRow(c, c.of) /\ RowOK(c.of) /\ Own(c) \intersect OnShow(c.of) = {}
         /\ version[c.of] \in VersionRows
<1>1. c \in Jobs /\ HandOK(c)
  BY VersionParts
<1>2. c.of \in Versions /\ JobOK(c)
  BY <1>1 DEF HandOK, JobOK
<1> QED BY <1>1, <1>2, FileSets, VersionParts DEF HandOK, HandAndRow

\* A version that no two requests were about has no other.
LEMMA OnlyHand ==
  ASSUME VersionsInv, NEW r \in Requests, NEW c, c = req[r], c.op # "idle", c.of \notin clashed
  PROVE  /\ \A stage : Moving(c.of, stage) => c.stage = stage
         /\ Replacing(c.of) => c.writes /\ c.fresh # None
<1>1. ASSUME NEW q \in Requests, req[q].of = c.of PROVE q = r
  BY <1>1, VersionParts DEF HandsApart
<1> QED BY <1>1 DEF Moving, Replacing

LEMMA AsksKept ==
  ASSUME NEW r \in Requests, NEW c, c = req[r], NEW d, req' = [req EXCEPT ![r] = d],
         req \in [Requests -> Jobs], NEW v
  PROVE  /\ \A stage : Moving(v, stage) /\ c.stage # stage => Moving(v, stage)'
         /\ Replacing(v) /\ ~(c.writes /\ c.fresh # None) => Replacing(v)'
         /\ \A stage : d.of = v /\ d.stage = stage => Moving(v, stage)'
         /\ d.of = v /\ d.writes /\ d.fresh # None => Replacing(v)'
<1>1. req'[r] = d /\ \A q \in Requests : q # r => req'[q] = req[q]
  OBVIOUS
<1> QED BY <1>1 DEF Moving, Replacing

LEMMA ShownStill ==
  ASSUME NEW v \in Versions, NEW c, NEW d, version'[v] = version[v],
         RowOK(v), \A f \in OnShow(v) : file'[f].name = file[f].name,
         Own(d) \subseteq Own(c), Own(c) \intersect OnShow(v) = {}
  PROVE  ShowsNow(v, c, d)
<1>1. OnShow(v)' = OnShow(v) /\ (LiveVersion(v)' <=> LiveVersion(v))
  BY DEF OnShow, LiveVersion
<1>2. LiveVersion(v) => version[v].file \in OnShow(v)
  BY DEF RowOK, OnShow
<1>3. LiveVersion(v) => NameOf(v)' = NameOf(v)
  BY <1>2 DEF NameOf
<1> QED BY <1>1, <1>3 DEF ShowsNow

LEMMA RowStill ==
  ASSUME NEW v \in Versions, RowOK(v), UNCHANGED <<clashed, raced, uploads>>, cut \subseteq cut',
         version'[v] = version[v], judged'[v] = judged[v],
         \A f \in OnShow(v) : file'[f] = file[f],
         v \notin clashed \union cut' /\ LiveVersion(v) =>
           /\ version[v].status = "APPROVED" /\ Moving(v, "decide") => Moving(v, "decide")'
           /\ NameOf(v) \notin raced
                /\ (Served(version[v].file) \/ Moving(v, "rebucket") \/ Replacing(v)) =>
              Served(version[v].file)' \/ Moving(v, "rebucket")' \/ Replacing(v)'
  PROVE  RowOK(v)'
<1>1. OnShow(v)' = OnShow(v) /\ (LiveVersion(v)' <=> LiveVersion(v))
  BY DEF OnShow, LiveVersion
<1>2. LiveVersion(v) => version[v].file \in OnShow(v)
  BY DEF RowOK, OnShow
<1>3. LiveVersion(v) => NameOf(v)' = NameOf(v) /\ file'[version[v].file] = file[version[v].file]
  BY <1>2 DEF NameOf
<1>4. OnShow(v)' \subseteq 1..uploads' /\ (~LiveVersion(v)' => version'[v] \in {NoVersion, GoneVersion})
  BY <1>1 DEF RowOK
<1>5. ASSUME LiveVersion(v)
      PROVE  /\ version[v].file # None /\ {version[v].attack, version[v].defense} \subseteq Sides
             /\ \A f \in OnShow(v) : Exists(f)'
             /\ \A f \in version[v].shots : IsShot(f)'
             /\ NameOf(v)' \in Names
             /\ v \notin clashed => ValidSides(version[v])
  BY <1>3, <1>5 DEF RowOK, Exists, IsShot, OnShow
<1>6. ASSUME LiveVersion(v), v \notin clashed \union cut'
      PROVE  /\ version[v].status = "APPROVED" =>
                  /\ version[v].file = judged'[v]
                  /\ file'[version[v].file].bucket # "testing-missions" \/ Moving(v, "decide")'
             /\ NameOf(v)' \notin raced =>
                  Served(version[v].file)' \/ Moving(v, "rebucket")' \/ Replacing(v)'
  <2>1. /\ version[v].status = "APPROVED" =>
             /\ version[v].file = judged[v]
             /\ file[version[v].file].bucket # "testing-missions" \/ Moving(v, "decide")
        /\ NameOf(v) \notin raced =>
             Served(version[v].file) \/ Moving(v, "rebucket") \/ Replacing(v)
    BY <1>6 DEF RowOK
  <2> QED BY <1>3, <1>6, <2>1
<1> QED BY <1>1, <1>4, <1>5, <1>6 DEF RowOK

\* The fields that no step of a handler changes, or only its end.
Alike(c, d) ==
  /\ d.op = c.op /\ d.of = c.of /\ d.names = c.names /\ d.dto = c.dto /\ d.read = c.read
  /\ d.removed = c.removed /\ d.over = c.over /\ d.target = c.target /\ d.decision = c.decision

LEMMA AddedIs ==
  ASSUME NEW c \in Jobs, NEW t \in c.adds, JobOK(c)
  PROVE  /\ c.writes /\ UploadsOK(c) /\ c.op \in {"create", "update"} /\ c.stage = "none"
         /\ t.file \in Files /\ t.key \in Keys /\ t.file \in Own(c)
         /\ IsMissionFile(t) => /\ t.key = Slot(c) /\ c.dto.name \in Names /\ c.dto.name \in c.names
                                /\ c.fresh = None
         /\ ~IsMissionFile(t) => t.key = [bucket |-> "mission-images", name |-> t.file]
         /\ t.key.name \in c.names \union Own(c)
         /\ c.gone = {} /\ c.record = None /\ c.emptied = None /\ ~c.syncs
<1>1. t.file \in Files /\ t.key \in Keys
  BY JobFields DEF Uploads
<1>2. c.writes
  BY DEF JobOK
<1>3. c.op \in {"create", "update"}
  BY IdleJob, JobFields DEF JobOK
<1>4. /\ UploadsOK(c) /\ c.stage = "none"
      /\ c.gone = {} /\ c.record = None /\ c.emptied = None /\ ~c.syncs
  BY <1>2, <1>3, JobFields DEF JobOK
<1>5. t.file \in Own(c)
  BY <1>2 DEF Own
<1>6. IsMissionFile(t) => /\ t.key = Slot(c) /\ c.dto.name \in Names /\ c.dto.name \in c.names
                          /\ c.fresh = None
  <2>1. IsMissionFile(t) => t.key = Slot(c) /\ c.dto.name # None /\ c.fresh = None
    BY <1>4 DEF UploadsOK
  <2>2. c.dto.name \in Names \union {None}
    BY JobFields DEF Bodies
  <2> QED BY <1>3, <2>1, <2>2 DEF JobOK
<1>7. ~IsMissionFile(t) => t.key = [bucket |-> "mission-images", name |-> t.file]
  BY <1>4 DEF UploadsOK
<1> QED BY <1>1, <1>2, <1>3, <1>4, <1>5, <1>6, <1>7 DEF Slot

\* An upload that has come: of the mission file, or of a screenshot.
CameIn(c, d, t) ==
  /\ Alike(c, d) /\ d.adds = c.adds \ {t} /\ d.writes = c.writes /\ d.syncs = c.syncs
  /\ d.record = c.record /\ d.gone = c.gone /\ d.emptied = c.emptied
  /\ d.stage = c.stage /\ d.source = c.source
  /\ IF IsMissionFile(t) THEN d.fresh = t.file /\ d.shots = c.shots
     ELSE d.fresh = c.fresh /\ d.shots = c.shots \union {t.file}

LEMMA CameInHand ==
  ASSUME VersionsInv, NEW r \in Requests, NEW c, c = req[r], NEW t \in c.adds, NEW d \in Jobs,
         CameIn(c, d, t), PutFile(t), UNCHANGED <<version, uploads, judged, clashed, cut, raced>>
  PROVE  /\ HandOK(d)' /\ Own(d) = Own(c) /\ Known(d) = Known(c)
<1>1. c \in Jobs /\ c.op # "idle"
  <2>1. c \in Jobs
    BY VersionParts
  <2> QED BY <2>1, VersionParts, IdleJob DEF HandOK, JobOK
<1>2. /\ c.of \in Versions /\ HandOK(c) /\ JobOK(c)
      /\ FilesSeen(c) /\ VersionSeen(c) /\ MoveSeen(c)
      /\ Own(c) \union Known(c) \subseteq 1..uploads /\ Own(c) \intersect Known(c) = {}
      /\ Known(c) \subseteq Files
  BY <1>1, HandAtWork
<1>3. /\ c.writes /\ UploadsOK(c) /\ c.op \in {"create", "update"} /\ c.stage = "none"
      /\ t.file \in Files /\ t.key \in Keys /\ t.file \in Own(c)
      /\ IsMissionFile(t) => /\ t.key = Slot(c) /\ c.dto.name \in Names /\ c.dto.name \in c.names
                             /\ c.fresh = None
      /\ ~IsMissionFile(t) => t.key = [bucket |-> "mission-images", name |-> t.file]
      /\ c.gone = {} /\ c.record = None /\ c.emptied = None /\ ~c.syncs
  BY <1>1, <1>2, AddedIs
<1>4. Own(d) = Own(c)
  <2>1. {u.file : u \in c.adds} = {u.file : u \in d.adds} \union {t.file}
    BY DEF CameIn
  <2>2. CASE IsMissionFile(t)
    BY <1>3, <2>1, <2>2, NumbersAndNames DEF CameIn, Own
  <2>3. CASE ~IsMissionFile(t)
    BY <1>3, <2>1, <2>3, NumbersAndNames DEF CameIn, Own
  <2> QED BY <2>2, <2>3
<1>5. Known(d) = Known(c)
  BY <1>3 DEF CameIn, Known, Alike
<1>6. JobOK(d)
  <2>1. UploadsOK(d)
    <3>1. Slot(d) = Slot(c)
      BY DEF Slot, CameIn, Alike
    <3>2. CASE IsMissionFile(t)
      <4>1. d.adds = c.adds \ {t} /\ d.fresh = t.file /\ d.shots = c.shots /\ d.dto = c.dto
        BY <3>2 DEF CameIn, Alike
      <4>2. c.dto.name # None
        BY <1>3, <3>2, NumbersAndNames
      <4> QED BY <1>3, <3>1, <3>2, <4>1, <4>2, NumbersAndNames DEF UploadsOK
    <3>3. CASE ~IsMissionFile(t)
      <4>1. d.adds = c.adds \ {t} /\ d.fresh = c.fresh /\ d.shots = c.shots \union {t.file}
            /\ d.dto = c.dto
        BY <3>3 DEF CameIn, Alike
      <4> QED BY <1>3, <3>1, <3>3, <4>1, NumbersAndNames DEF UploadsOK
    <3> QED BY <3>2, <3>3
  <2> QED BY <1>2, <1>3, <2>1 DEF JobOK, CameIn, Alike
<1>7. \A f \in Known(c) \union Own(c) : f # t.file => file'[f] = file[f]
  BY <1>2, <1>3, VersionParts, FileSets DEF PutFile
<1>8. file'[t.file] = t.key /\ stored'[t.key] = t.file
      /\ \A k \in Keys : k # t.key => stored'[k] = stored[k]
  BY <1>3, VersionParts DEF PutFile
<1>9. t.file \notin Known(c)
  BY <1>2, <1>3
<1>10. c.read.shots \subseteq Known(c) /\ c.read.file \in Known(c) \union {None}
       /\ c.shots \subseteq Own(c) /\ c.fresh \in Own(c) \union {None}
       /\ t.file \notin c.shots /\ t.file # c.fresh /\ t.file \notin c.read.shots
  <2>1. c.read.shots \subseteq Files /\ c.read.file \in Files \union {None}
    BY <1>1, JobFields, VersionFields
  <2> QED BY <1>3, <1>9, <2>1, NumbersAndNames DEF Known, Own, UploadsOK
<1>11. FilesSeen(d)'
  <2>1. \A f \in c.read.shots \union c.shots : Exists(f)' => IsShot(f)'
    BY <1>2, <1>7, <1>10 DEF FilesSeen, IsShot, Exists
  <2>2. c.read.file # None /\ Exists(c.read.file)' => file'[c.read.file].name \in c.names
    BY <1>2, <1>7, <1>9, <1>10 DEF FilesSeen, Exists
  <2>3. \A f \in c.shots : Exists(f)'
    BY <1>2, <1>3, <1>7, <1>10 DEF FilesSeen, Exists
  <2>4. Exists(t.file)'
    BY <1>3, <1>8, NumbersAndNames DEF Exists
  <2>5. Slot(d) = Slot(c)
    BY DEF Slot, CameIn, Alike
  <2>6. CASE IsMissionFile(t)
    <3>1. d.fresh = t.file /\ d.shots = c.shots /\ d.read = c.read /\ d.names = c.names /\ d.op = c.op
          /\ d.dto = c.dto
      BY <2>6 DEF CameIn, Alike
    <3> QED BY <1>3, <1>8, <2>1, <2>2, <2>3, <2>5, <2>6, <3>1 DEF FilesSeen, Slot
  <2>7. CASE ~IsMissionFile(t)
    <3>1. d.fresh = c.fresh /\ d.shots = c.shots \union {t.file} /\ d.read = c.read
          /\ d.names = c.names /\ d.op = c.op /\ d.dto = c.dto
      BY <2>7 DEF CameIn, Alike
    <3>2. IsShot(t.file)'
      BY <1>3, <1>8, <2>7 DEF IsShot
    <3>3. c.fresh # None => /\ file'[c.fresh] = Slot(c)
                            /\ c.dto.name \notin raced => stored'[Slot(c)] = c.fresh
      <4>1. c.fresh # None => /\ file[c.fresh] = Slot(c)
                              /\ c.dto.name \notin raced => stored[Slot(c)] = c.fresh
        BY <1>2, <1>3 DEF FilesSeen
      <4>2. c.fresh # None => c.fresh \in Files /\ file'[c.fresh] = file[c.fresh]
        BY <1>7, <1>10, <1>1, JobFields
      <4>3. c.fresh # None => Slot(c) \in Keys /\ Slot(c) # t.key
        <5>1. c.fresh # None => c.dto.name # None
          BY <1>3 DEF UploadsOK
        <5>2. c.dto.name \in Names \union {None}
          BY <1>1, JobFields DEF Bodies
        <5> QED BY <1>3, <2>7, <5>1, <5>2 DEF Slot, Keys, Buckets, IsMissionFile
      <4> QED BY <1>8, <4>1, <4>2, <4>3
    <3> QED BY <1>3, <2>1, <2>2, <2>3, <2>4, <2>5, <3>1, <3>2, <3>3 DEF FilesSeen, Slot
  <2> QED BY <2>6, <2>7
<1>12. VersionSeen(d)'
  <2>1. d.op = c.op /\ d.of = c.of /\ d.read = c.read /\ d.writes = c.writes /\ d.over = c.over
        /\ d.stage = c.stage /\ d.target = c.target /\ d.dto = c.dto
    BY DEF CameIn, Alike
  <2>2. Slot(d) = Slot(c)
    BY <2>1 DEF Slot
  <2>3. c.op = "update" => c.read.file \in Known(c)
    BY <1>2, <1>10, NumbersAndNames DEF JobOK, Readable
  <2>4. c.op = "update" => file'[c.read.file] = file[c.read.file]
    BY <1>7, <1>9, <2>3
  <2>5. /\ version' = version /\ clashed' = clashed
    OBVIOUS
  <2>6. (Exists(c.read.file)' => Exists(c.read.file)) \/ c.op # "update"
    BY <2>4 DEF Exists
  <2>7. d.op # "delete" /\ d.op # "rollback" /\ d.op # "status" /\ d.stage = "none"
    BY <1>3, <2>1
  <2>8. SameRow(d.of, d.read)' <=> SameRow(c.of, c.read)
    BY <2>1, <2>5 DEF SameRow
  <2>9. /\ c.op = "create" => version[c.of] = NoVersion
        /\ c.op = "update" => version[c.of].status # "none"
        /\ c.of \notin clashed =>
             /\ c.op = "update" => SameRow(c.of, c.read)
             /\ c.op = "update" /\ ~c.over /\ Exists(c.read.file) => file[c.read.file] # Slot(c)
    BY <1>1, <1>2, <1>3 DEF VersionSeen
  <2> QED BY <1>3, <2>1, <2>2, <2>4, <2>5, <2>6, <2>7, <2>8, <2>9 DEF VersionSeen, Slot
<1>13. MoveSeen(d)'
  BY <1>3 DEF MoveSeen, CameIn, Alike
<1> QED BY <1>2, <1>4, <1>5, <1>6, <1>11, <1>12, <1>13 DEF HandOK

LEMMA AddKeeps ==
  ASSUME VersionsInv, NEW r \in Requests, Add(r) PROVE VersionsInv'
<1>0. PICK c : c = req[r]
  OBVIOUS
<1>1. PICK t \in c.adds :
        /\ PutFile(t)
        /\ req' = [req EXCEPT ![r] = IF IsMissionFile(t)
                      THEN [c EXCEPT !.adds = @ \ {t}, !.fresh = t.file]
                      ELSE [c EXCEPT !.adds = @ \ {t}, !.shots = @ \union {t.file}]]
        /\ UNCHANGED <<mission, version, uploads, faults, judged, clashed, cut, raced>>
  BY <1>0 DEF Add
<1>2. PICK d : d = IF IsMissionFile(t)
                      THEN [c EXCEPT !.adds = @ \ {t}, !.fresh = t.file]
                      ELSE [c EXCEPT !.adds = @ \ {t}, !.shots = @ \union {t.file}]
  OBVIOUS
<1>3. c \in Jobs /\ JobOK(c) /\ t.file \in Files
  BY <1>0, VersionParts, JobFields DEF HandOK, Uploads
<1>4. d \in Jobs /\ CameIn(c, d, t)
  <2>1. CASE IsMissionFile(t)
    BY <1>2, <1>3, <2>1 DEF CameIn, Alike, Jobs
  <2>2. CASE ~IsMissionFile(t)
    BY <1>2, <1>3, <2>2 DEF CameIn, Alike, Jobs
  <2> QED BY <2>1, <2>2
<1>5. HandOK(d)' /\ Own(d) = Own(c) /\ Known(d) = Known(c)
  BY <1>0, <1>1, <1>4, CameInHand
<1>6. /\ c.writes /\ UploadsOK(c) /\ c.op \in {"create", "update"} /\ c.stage = "none"
      /\ t.file \in Files /\ t.key \in Keys /\ t.file \in Own(c)
      /\ IsMissionFile(t) => c.fresh = None
      /\ ~IsMissionFile(t) => t.key = [bucket |-> "mission-images", name |-> t.file]
      /\ t.key.name \in c.names \union Own(c)
  BY <1>3, AddedIs
<1>7. PICK v : v = c.of
  OBVIOUS
<1>8. /\ v \in Versions /\ Own(c) \subseteq Files /\ Own(c) \intersect Known(c) = {}
      /\ RowOK(v) /\ Own(c) \intersect OnShow(v) = {} /\ Known(c) \subseteq Files
      /\ OnShow(v) \subseteq Files
  <2>1. version[c.of] \in VersionRows
    BY <1>0, <1>6, HandAtWork
  <2> QED BY <1>0, <1>6, <1>7, <2>1, HandAtWork, VersionFields DEF OnShow
<1>9. VersionsTypes'
  BY <1>1, <1>2, <1>4, <1>6, VersionParts DEF VersionsTypes, StorageTypeOK, PutFile
<1>10. \A f \in Files : f # t.file => file'[f] = file[f]
  BY <1>1, VersionParts DEF PutFile
<1>11. \A k \in Keys : k # t.key => stored'[k] = stored[k]
  BY <1>1, VersionParts DEF PutFile
<1>12. Works(r, c, d)
  <2>1. \A f \in Known(c) : file'[f] = NoFile \/ (Exists(f) /\ file'[f].name = file[f].name)
    BY <1>6, <1>8, <1>10 DEF Exists
  <2>2. req' = [req EXCEPT ![r] = d] /\ c.op # "idle" /\ d.of = c.of /\ d.names = c.names
        /\ d.op = c.op
    BY <1>1, <1>2, <1>4, <1>6 DEF CameIn, Alike
  <2> QED BY <1>1, <1>5, <1>6, <1>10, <1>11, <2>1, <2>2 DEF Works
<1>13. ShowsNow(v, c, d)
  BY <1>1, <1>5, <1>6, <1>8, <1>10, ShownStill
<1>14. RowOK(v)'
  <2>1. \A f \in OnShow(v) : file'[f] = file[f]
    BY <1>6, <1>8, <1>10
  <2>2. d.of = v /\ d.writes /\ (IsMissionFile(t) => d.fresh # None) /\ req' = [req EXCEPT ![r] = d]
    BY <1>1, <1>2, <1>4, <1>6, <1>7, NumbersAndNames DEF CameIn, Alike
  <2>3. req \in [Requests -> Jobs] /\ req[r] = c
    BY <1>0, VersionParts
  <2>4. /\ Moving(v, "decide") => Moving(v, "decide")'
        /\ Moving(v, "rebucket") => Moving(v, "rebucket")'
        /\ IsMissionFile(t) => Replacing(v)'
    BY <1>6, <2>2, <2>3, AsksKept
  <2>5. ~IsMissionFile(t) /\ Replacing(v) => Replacing(v)'
    <3>1. ~IsMissionFile(t) => d.fresh = c.fresh
      BY <1>4 DEF CameIn
    <3>2. c.fresh # None => (~IsMissionFile(t) => Replacing(v)')
      BY <2>2, <2>3, <3>1, AsksKept
    <3>3. c.fresh = None => (Replacing(v) => Replacing(v)')
      BY <2>2, <2>3, AsksKept
    <3> QED BY <3>2, <3>3
  <2>6. ~IsMissionFile(t) /\ LiveVersion(v) /\ Served(version[v].file) => Served(version[v].file)'
    <3>1. ASSUME ~IsMissionFile(t), LiveVersion(v), Served(version[v].file)
          PROVE  Served(version[v].file)'
      <4>1. version[v].file \in OnShow(v) /\ Exists(version[v].file) /\ NameOf(v) \in Names
        BY <1>8, <3>1 DEF RowOK, OnShow
      <4>2. file[version[v].file] \in Keys /\ file[version[v].file].name \in Names
        BY <1>8, <4>1, VersionParts DEF Exists, NameOf
      <4>3. file[version[v].file] # t.key
        BY <1>6, <3>1, <4>2, NumbersAndNames
      <4>4. file'[version[v].file] = file[version[v].file] /\ version' = version
        BY <1>1, <2>1, <4>1
      <4> QED BY <1>11, <3>1, <4>2, <4>3, <4>4 DEF Served
    <3> QED BY <3>1
  <2>7. UNCHANGED <<clashed, raced, uploads>> /\ cut \subseteq cut'
        /\ version'[v] = version[v] /\ judged'[v] = judged[v]
    BY <1>1
  <2> QED BY <1>8, <2>1, <2>4, <2>5, <2>6, <2>7, RowStill
<1> QED BY <1>0, <1>5, <1>7, <1>8, <1>9, <1>12, <1>13, <1>14, WorkKeeps

LEMMA RollbackJob ==
  ASSUME NEW v \in Versions, NEW names \in SUBSET Names, NEW gone \in SUBSET Files
  PROVE  [NoJob EXCEPT !.op = "rollback", !.of = v, !.names = names, !.gone = gone] \in Jobs
<1>1. PICK n \in Jobs : n = NoJob
  BY IdleJob
<1>2. [n EXCEPT !.op = "rollback", !.of = v, !.names = names, !.gone = gone] \in Jobs
  BY DEF Jobs
<1> QED BY <1>1, <1>2

\* A handler that gives up, with screenshots to delete or with nothing.
LEMMA UndoneHand ==
  ASSUME VersionsInv, NEW r \in Requests, NEW c, c = req[r], c.op # "idle",
         NEW d, d = Undone(c),
         UNCHANGED <<file, version, uploads, clashed, raced>>
  PROVE  /\ d \in Jobs /\ HandOK(d)' /\ Own(d) = {} /\ Known(d) \subseteq Own(c) \union Known(c)
         /\ d.op # "create" /\ (d = NoJob \/ d.of = c.of) /\ d.names \subseteq c.names
<1>1. /\ c \in Jobs /\ c.of \in Versions /\ JobOK(c) /\ FilesSeen(c) /\ VersionSeen(c)
      /\ Own(c) \union Known(c) \subseteq 1..uploads
  BY HandAtWork
<1>2. CASE d = NoJob
  BY <1>2, IdleJob, IdleHand
<1>3. CASE d # NoJob
  <2> DEFINE x == [NoJob EXCEPT !.op = "rollback", !.of = c.of, !.names = c.names, !.gone = c.shots]
  <2>1. d = x /\ c.op = "update" /\ c.shots # {}
    BY <1>3 DEF Undone
  <2>2. x \in Jobs
    <3>1. c.of \in Versions /\ c.names \in SUBSET Names /\ c.shots \in SUBSET Files
      BY <1>1, JobFields
    <3> QED BY <3>1, RollbackJob
  <2>3. /\ x.op = "rollback" /\ x.of = c.of /\ x.names = c.names /\ x.gone = c.shots
        /\ x.read = NoVersion /\ x.record = None /\ x.emptied = None /\ x.shots = {} /\ x.fresh = None
        /\ x.adds = {} /\ ~x.writes /\ ~x.syncs /\ x.stage = "none" /\ x.dto = NoBody
    BY DEF NoJob
  <2> HIDE DEF x
  <2>4. Own(x) = {} /\ Known(x) = c.shots
    <3>1. None \notin c.shots
      BY <1>1, JobFields, NumbersAndNames
    <3> QED BY <2>3, <3>1, IdleJob DEF Own, Known
  <2>5. c.shots \subseteq Own(c) \union Known(c)
    <3>1. None \notin c.shots
      BY <1>1, JobFields, NumbersAndNames
    <3> QED BY <3>1 DEF Own, Known
  <2>6. JobOK(x)
    BY <1>1, <2>3 DEF JobOK
  <2>7. FilesSeen(x)'
    <3>1. \A f \in c.shots : Exists(f) => IsShot(f)
      BY <1>1 DEF FilesSeen
    <3>2. \A f \in c.shots : Exists(f)' => IsShot(f)'
      BY <3>1 DEF Exists, IsShot
    <3> QED BY <2>3, <3>2, IdleJob DEF FilesSeen
  <2>8. VersionSeen(x)'
    <3>1. version[c.of].status # "none"
      BY <1>1, <2>1 DEF VersionSeen
    <3> QED BY <2>3, <3>1 DEF VersionSeen
  <2>9. MoveSeen(x)'
    BY <2>3 DEF MoveSeen
  <2> QED BY <1>1, <2>1, <2>2, <2>3, <2>4, <2>5, <2>6, <2>7, <2>8, <2>9 DEF HandOK
<1> QED BY <1>2, <1>3

LEMMA GiveUpKeeps ==
  ASSUME VersionsInv, NEW r \in Requests, req[r].op # "idle", GiveUp(r, Undone(req[r])),
         faults' \in 0..MaxFaults,
         UNCHANGED stored \/ \E t \in req[r].adds : stored' = [stored EXCEPT ![t.key] = t.file],
         UNCHANGED <<mission, version, file, uploads, judged, clashed, raced>>
  PROVE  VersionsInv'
<1>0. PICK c : c = req[r]
  OBVIOUS
<1>1. PICK d : d = Undone(c)
  OBVIOUS
<1>2. PICK v : v = c.of
  OBVIOUS
<1>3. /\ c \in Jobs /\ v \in Versions /\ JobOK(c) /\ RowOK(v) /\ Own(c) \intersect OnShow(v) = {}
      /\ Own(c) \subseteq Files /\ Known(c) \subseteq Files
  BY <1>0, <1>2, HandAtWork
<1>4. req' = [req EXCEPT ![r] = d] /\ cut' = cut \union {v}
  BY <1>0, <1>1, <1>2 DEF GiveUp
<1>5. /\ d \in Jobs /\ HandOK(d)' /\ Own(d) = {} /\ Known(d) \subseteq Own(c) \union Known(c)
      /\ d.op # "create" /\ (d = NoJob \/ d.of = c.of) /\ d.names \subseteq c.names
  BY <1>0, <1>1, UndoneHand
<1>6. /\ stored' \in [Keys -> Files \union {None}]
      /\ \A k \in Keys : k.name \notin c.names \union Own(c) \union Known(c) => stored'[k] = stored[k]
  <2>1. CASE UNCHANGED stored
    BY <2>1, VersionParts
  <2>2. CASE \E t \in c.adds : stored' = [stored EXCEPT ![t.key] = t.file]
    <3>1. PICK t \in c.adds : stored' = [stored EXCEPT ![t.key] = t.file]
      BY <2>2
    <3>2. t.file \in Files /\ t.key \in Keys /\ t.key.name \in c.names \union Own(c)
      BY <1>3, AddedIs
    <3> QED BY <3>1, <3>2, VersionParts
  <2> QED BY <1>0, <2>1, <2>2
<1>7. VersionsTypes'
  BY <1>3, <1>4, <1>5, <1>6, VersionParts DEF VersionsTypes, StorageTypeOK
<1>8. Works(r, c, d)
  <2>1. \A f \in Known(c) : file'[f] = NoFile \/ (Exists(f) /\ file'[f].name = file[f].name)
    BY DEF Exists
  <2> QED BY <1>0, <1>4, <1>5, <1>6, <2>1 DEF Works
<1>9. ShowsNow(v, c, d)
  BY <1>3, <1>5, ShownStill
<1>10. RowOK(v)'
  BY <1>3, <1>4, RowStill
<1> QED BY <1>0, <1>2, <1>3, <1>5, <1>7, <1>8, <1>9, <1>10, WorkKeeps

\* Only the call of a handler at work throws.
LEMMA ThrowsAtWork ==
  ASSUME NEW c \in Jobs, JobOK(c), Throws(c) PROVE c.op # "idle"
<1>1. SUFFICES ASSUME c = NoJob PROVE FALSE
  BY DEF JobOK
<1> QED BY <1>1, IdleJob DEF Throws, MayStore, NoJob

LEMMA BreakOffKeeps ==
  ASSUME VersionsInv, NEW r \in Requests, BreakOff(r) PROVE VersionsInv'
<1>1. req[r].op # "idle"
  BY ThrowsAtWork, VersionParts DEF BreakOff, HandOK
<1> QED BY <1>1, GiveUpKeeps, VersionParts DEF BreakOff

LEMMA FailCallKeeps ==
  ASSUME VersionsInv, NEW r \in Requests, FailCall(r) PROVE VersionsInv'
<1>1. faults' \in 0..MaxFaults
  BY VersionParts, NumbersAndNames DEF FailCall
<1>2. UNCHANGED stored \/ \E t \in req[r].adds : stored' = [stored EXCEPT ![t.key] = t.file]
  BY DEF FailCall
<1> QED BY <1>1, <1>2, GiveUpKeeps DEF FailCall

LEMMA SyncPlansKeeps ==
  ASSUME VersionsInv, NEW r \in Requests, SyncPlans(r) PROVE VersionsInv'
<1>0. PICK c : c = req[r]
  OBVIOUS
<1>1. /\ c.syncs /\ req' = [req EXCEPT ![r] = NoJob]
      /\ UNCHANGED <<mission, version, file, stored, uploads, faults, judged, clashed, cut, raced>>
  BY <1>0 DEF SyncPlans
<1>2. PICK v : v = c.of
  OBVIOUS
<1>3. c \in Jobs /\ JobOK(c) /\ c.op # "idle"
  <2>1. c \in Jobs /\ JobOK(c)
    BY <1>0, VersionParts DEF HandOK
  <2> QED BY <1>1, <2>1 DEF JobOK, NoJob
<1>4. /\ v \in Versions /\ RowOK(v) /\ Own(c) \intersect OnShow(v) = {}
      /\ c.stage = "none" /\ ~c.writes
  <2>1. c.stage = "none" /\ ~c.writes
    BY <1>1, <1>3, JobFields DEF JobOK
  <2> QED BY <1>0, <1>2, <1>3, <2>1, HandAtWork
<1>5. VersionsTypes'
  BY <1>1, IdleJob, VersionParts DEF VersionsTypes, StorageTypeOK
<1>6. Works(r, c, NoJob)
  <2>1. \A f \in Known(c) : file'[f] = NoFile \/ (Exists(f) /\ file'[f].name = file[f].name)
    BY <1>1 DEF Exists
  <2> QED BY <1>1, <1>3, <2>1, IdleJob DEF Works
<1>7. ShowsNow(v, c, NoJob)
  BY <1>1, <1>4, IdleJob, ShownStill
<1>8. RowOK(v)'
  <2>1. /\ Moving(v, "decide") => Moving(v, "decide")'
        /\ Moving(v, "rebucket") => Moving(v, "rebucket")'
        /\ Replacing(v) => Replacing(v)'
    BY <1>0, <1>1, <1>4, VersionParts, AsksKept
  <2>2. Served(version[v].file) => Served(version[v].file)'
    BY <1>1 DEF Served
  <2> QED BY <1>1, <1>4, <2>1, <2>2, RowStill
<1> QED BY <1>0, <1>2, <1>4, <1>5, <1>6, <1>7, <1>8, IdleHand, WorkKeeps

\* A job with less left to erase, or with a file whose object is erased.
Lessens(c, x) ==
  /\ Alike(c, x) /\ x.adds = c.adds /\ x.fresh = c.fresh /\ x.shots = c.shots
  /\ x.writes = c.writes /\ x.syncs = c.syncs /\ x.stage = c.stage /\ x.source = c.source
  /\ x.record \in {c.record, None} /\ x.gone \subseteq c.gone
  /\ x.emptied \in c.gone \union {c.emptied, None}

LEMMA EraserIs ==
  ASSUME NEW c \in Jobs, JobOK(c), c.record # None \/ c.emptied # None \/ c.gone # {}
  PROVE  /\ c.op \in {"update", "delete", "rollback"} /\ ~c.writes /\ c.stage = "none"
         /\ Own(c) = {} /\ c.adds = {}
         /\ c.record # None => c.op = "update" /\ c.record = c.read.file
         /\ (c.gone \union {c.emptied, c.record}) \ {None} \subseteq Known(c)
<1>1. c.op \in {"update", "delete", "rollback"} /\ ~c.writes /\ c.stage = "none"
  BY JobFields DEF JobOK
<1>2. c.record # None => c.op = "update" /\ c.record = c.read.file
  BY <1>1 DEF JobOK
<1> QED BY <1>1, <1>2 DEF Own, Known, JobOK

LEMMA LessensHand ==
  ASSUME VersionsInv, NEW r \in Requests, NEW c, c = req[r], c.op # "idle",
         c.record # None \/ c.emptied # None \/ c.gone # {},
         NEW x \in Jobs, Lessens(c, x), UNCHANGED <<uploads, clashed, raced>>,
         \A f \in Known(c) : file'[f] = file[f] \/ file'[f] = NoFile,
         version'[c.of].status = version[c.of].status, version'[c.of].file = version[c.of].file,
         version[c.of].file # None => file'[version[c.of].file] = file[version[c.of].file]
  PROVE  JobOK(x) /\ HandOK(x)' /\ Own(x) = {} /\ Known(x) \subseteq Known(c)
<1>1. /\ c \in Jobs /\ c.of \in Versions /\ JobOK(c) /\ FilesSeen(c) /\ VersionSeen(c)
      /\ Known(c) \subseteq 1..uploads
  BY HandAtWork
<1>2. /\ c.op \in {"update", "delete", "rollback"} /\ ~c.writes /\ c.stage = "none"
      /\ Own(c) = {} /\ c.adds = {}
  BY <1>1, EraserIs
<1>3. /\ x.op = c.op /\ x.of = c.of /\ x.names = c.names /\ x.dto = c.dto /\ x.read = c.read
      /\ x.removed = c.removed /\ x.over = c.over /\ x.target = c.target
      /\ x.decision = c.decision /\ x.adds = {} /\ x.fresh = c.fresh /\ x.shots = c.shots
      /\ ~x.writes /\ x.syncs = c.syncs /\ x.stage = "none" /\ x.source = c.source
      /\ x.record \in {c.record, None} /\ x.gone \subseteq c.gone
      /\ x.emptied \in c.gone \union {c.emptied, None}
  BY <1>2 DEF Lessens, Alike
<1>4. Own(x) = {} /\ Known(x) \subseteq Known(c)
  BY <1>2, <1>3 DEF Own, Known
<1>5. JobOK(x)
  <2>1. c.op \in {"update", "delete"} => c.read.file # None
    BY <1>1, NumbersAndNames DEF JobOK, Readable
  <2>2. c.op \in {"update", "delete"} =>
          /\ c.record \in {None, c.read.file}
          /\ c.gone \union {c.emptied} \subseteq c.read.shots \union {c.read.file, None}
          /\ c.removed \subseteq c.read.shots
    BY <1>1 DEF JobOK
  <2>3. c.op = "update" /\ c.read.file \in c.gone \union {c.emptied} => c.fresh # None /\ ~c.over
    BY <1>1 DEF JobOK
  <2>4. x.op \in {"update", "delete"} =>
          /\ x.record \in {None, x.read.file}
          /\ x.gone \union {x.emptied} \subseteq x.read.shots \union {x.read.file, None}
          /\ x.removed \subseteq x.read.shots
    BY <1>3, <2>2
  <2>5. x.op = "update" /\ x.read.file \in x.gone \union {x.emptied} => x.fresh # None /\ ~x.over
    BY <1>3, <2>1, <2>3
  <2>6. /\ c.op \in {"create", "update"} =>
             (c.dto.name # None => c.dto.name \in c.names) /\ FriendlyAccepted(c.dto, c.read)
        /\ c.op \in {"update", "delete", "status"} => Readable(c.read)
        /\ c.op \in {"delete", "status", "rollback"} =>
             c.adds = {} /\ c.fresh = None /\ c.shots = {} /\ c.record = None /\ ~c.syncs
        /\ c.op = "rollback" => c.read = NoVersion
    BY <1>1 DEF JobOK
  <2> QED BY <1>1, <1>2, <1>3, <2>4, <2>5, <2>6 DEF JobOK
<1>6. \A f \in Known(c) : Exists(f)' => Exists(f) /\ file'[f] = file[f]
  BY DEF Exists
<1>7. /\ c.read.shots \union c.shots \union c.gone \subseteq Known(c) /\ c.read.file \in Known(c) \union {None}
      /\ c.emptied \in Known(c) \union {None}
  <2>1. c.read.shots \subseteq Files /\ c.shots \subseteq Files /\ c.gone \subseteq Files
        /\ c.read.file \in Files \union {None}
    BY <1>1, JobFields, VersionFields
  <2> QED BY <1>2, <2>1, NumbersAndNames DEF Known
<1>8. FilesSeen(x)'
  <2>1. \A f \in c.read.shots \union c.shots : Exists(f)' => IsShot(f)'
    BY <1>1, <1>6, <1>7 DEF FilesSeen, IsShot
  <2>2. c.op = "rollback" => \A f \in x.gone \union ({x.emptied} \ {None}) : Exists(f)' => IsShot(f)'
    <3>1. c.op = "rollback" => \A f \in c.gone \union ({c.emptied} \ {None}) : Exists(f)' => IsShot(f)'
      BY <1>1, <1>6, <1>7 DEF FilesSeen, IsShot
    <3> QED BY <1>3, <3>1
  <2>3. c.read.file # None /\ Exists(c.read.file)' => file'[c.read.file].name \in c.names
    BY <1>1, <1>6, <1>7 DEF FilesSeen
  <2> QED BY <1>3, <2>1, <2>2, <2>3 DEF FilesSeen
<1>9. VersionSeen(x)'
  <2>1. version[c.of].status # "none" /\ (c.op = "delete" => ~LiveVersion(c.of))
    BY <1>1, <1>2 DEF VersionSeen
  <2>2. version'[c.of].status # "none" /\ (c.op = "delete" => ~LiveVersion(c.of)')
    BY <2>1 DEF LiveVersion
  <2>3. c.of \notin clashed =>
          /\ c.op = "update" /\ c.fresh # None =>
               version[c.of].file = c.fresh /\ file[c.fresh] = Slot(c)
          /\ c.op = "update" /\ ~c.over /\ Exists(c.read.file) => file[c.read.file] # Slot(c)
    BY <1>1, <1>2 DEF VersionSeen
  <2>4. c.of \notin clashed =>
          /\ c.op = "update" /\ c.fresh # None =>
               version'[c.of].file = c.fresh /\ file'[c.fresh] = Slot(c)
          /\ c.op = "update" /\ ~c.over /\ Exists(c.read.file)' => file'[c.read.file] # Slot(c)
    <3>1. c.op = "update" => c.read.file \in Known(c)
      BY <1>1, <1>7, NumbersAndNames DEF JobOK, Readable
    <3> QED BY <1>6, <2>3, <3>1
  <2>5. Slot(x) = Slot(c)
    BY <1>3 DEF Slot
  <2>6. x.op # "create" /\ x.op # "status" /\ x.stage = "none" /\ ~x.writes
    BY <1>2, <1>3
  <2>7. x.of = c.of /\ x.op = c.op /\ x.fresh = c.fresh /\ x.over = c.over /\ x.read = c.read
    BY <1>3
  <2> QED BY <2>2, <2>4, <2>5, <2>6, <2>7 DEF VersionSeen, Slot
<1>10. MoveSeen(x)'
  BY <1>2, <1>3 DEF MoveSeen
<1>11. Own(x) \union Known(x) \subseteq 1..uploads'
  BY <1>1, <1>4
<1> QED BY <1>4, <1>5, <1>8, <1>9, <1>10, <1>11 DEF HandOK

LEMMA RemainingIs == ASSUME NEW x PROVE Remaining(x) \in {NoJob, x}
  BY DEF Remaining

\* What an eraser removes is not the object of the version that it is about.
LEMMA ErasedIsNotShown ==
  ASSUME VersionsInv, NEW r \in Requests, NEW c, c = req[r], NEW f \in c.gone, Exists(f),
         NEW v \in Versions, v = c.of, v \notin clashed, LiveVersion(v)
  PROVE  file[f] # file[version[v].file]
<1>1. c \in Jobs /\ JobOK(c) /\ c.op # "idle" /\ f \in Files
  <2>1. c \in Jobs /\ JobOK(c)
    BY VersionParts DEF HandOK
  <2> QED BY <2>1, JobFields DEF JobOK
<1>2. /\ c.op \in {"update", "rollback", "delete"} /\ ~c.writes
      /\ FilesSeen(c) /\ VersionSeen(c) /\ RowOK(v)
  BY <1>1, EraserIs, HandAtWork
<1>3. IsShot(f) => file[f] # file[version[v].file]
  <2>1. file[version[v].file].name \in Names
    BY <1>2 DEF RowOK, NameOf
  <2> QED BY <1>1, <2>1, NumbersAndNames DEF IsShot
<1>4. CASE c.op = "delete"
  BY <1>2, <1>4 DEF VersionSeen
<1>5. CASE c.op = "rollback"
  BY <1>2, <1>3, <1>5 DEF FilesSeen
<1>6. CASE c.op = "update" /\ f \in c.read.shots
  BY <1>2, <1>3, <1>6 DEF FilesSeen
<1>7. CASE c.op = "update" /\ f \notin c.read.shots
  <2>1. f = c.read.file
    BY <1>1, <1>7, NumbersAndNames DEF JobOK
  <2>2. c.fresh # None /\ ~c.over
    BY <1>1, <1>7, <2>1 DEF JobOK
  <2>3. version[v].file = c.fresh /\ file[c.fresh] = Slot(c) /\ file[c.read.file] # Slot(c)
    BY <1>1, <1>2, <1>7, <2>1, <2>2 DEF VersionSeen
  <2> QED BY <2>1, <2>3
<1> QED BY <1>2, <1>4, <1>5, <1>6, <1>7

LEMMA EraseObjectKeeps ==
  ASSUME VersionsInv, NEW r \in Requests, EraseObject(r) PROVE VersionsInv'
<1>0. PICK c : c = req[r]
  OBVIOUS
<1>1. PICK f \in c.gone :
        /\ MayErase(c, f)
        /\ IF Exists(f)
           THEN /\ RemoveFrom(file[f])
                /\ req' = [req EXCEPT ![r] = [c EXCEPT !.gone = @ \ {f}, !.emptied = f]]
           ELSE /\ req' = [req EXCEPT ![r] = Remaining([c EXCEPT !.gone = @ \ {f}])]
                /\ UNCHANGED stored
        /\ UNCHANGED <<mission, version, file, uploads, faults, judged, clashed, cut, raced>>
  BY <1>0 DEF EraseObject
<1>2. c \in Jobs /\ JobOK(c) /\ c.op # "idle" /\ f \in Files
  <2>1. c \in Jobs /\ JobOK(c)
    BY <1>0, VersionParts DEF HandOK
  <2> QED BY <2>1, JobFields DEF JobOK
<1>3. PICK x : x = IF Exists(f) THEN [c EXCEPT !.gone = @ \ {f}, !.emptied = f]
                   ELSE [c EXCEPT !.gone = @ \ {f}]
  OBVIOUS
<1>4. x \in Jobs /\ Lessens(c, x)
  <2>1. CASE Exists(f)
    BY <1>2, <1>3, <2>1 DEF Lessens, Alike, Jobs
  <2>2. CASE ~Exists(f)
    BY <1>2, <1>3, <2>2 DEF Lessens, Alike, Jobs
  <2> QED BY <2>1, <2>2
<1>5. PICK d \in {NoJob, x} : req' = [req EXCEPT ![r] = d]
  BY <1>1, <1>3, RemainingIs
<1>6. PICK v : v = c.of
  OBVIOUS
<1>7. /\ v \in Versions /\ RowOK(v) /\ FilesSeen(c) /\ Known(c) \subseteq Files
      /\ version[v] \in VersionRows
  BY <1>0, <1>2, <1>6, HandAtWork
<1>8. /\ c.op \in {"update", "delete", "rollback"} /\ ~c.writes /\ c.stage = "none"
      /\ Own(c) = {} /\ f \in Known(c)
  BY <1>2, EraserIs, NumbersAndNames
<1>9. HandOK(x)' /\ Own(x) = {} /\ Known(x) \subseteq Known(c)
  BY <1>0, <1>1, <1>2, <1>4, LessensHand
<1>10. /\ d \in Jobs /\ HandOK(d)' /\ Own(d) = {} /\ Known(d) \subseteq Known(c)
       /\ (d = NoJob \/ d.of = c.of) /\ d.names \subseteq c.names /\ d.op # "create"
  <2>1. x.of = c.of /\ x.names = c.names /\ x.op = c.op
    BY <1>4 DEF Lessens, Alike
  <2> QED BY <1>4, <1>8, <1>9, <2>1, IdleJob, IdleHand
<1>11. /\ stored' \in [Keys -> Files \union {None}]
       /\ \A k \in Keys : (Exists(f) /\ k = file[f]) \/ stored'[k] = stored[k]
  <2>1. Exists(f) => file[f] \in Keys
    BY <1>2, VersionParts DEF Exists
  <2> QED BY <1>1, <2>1, VersionParts DEF RemoveFrom
<1>12. VersionsTypes'
  BY <1>1, <1>5, <1>10, <1>11, VersionParts DEF VersionsTypes, StorageTypeOK
<1>13. Exists(f) => file[f].name \in c.names \union Known(c)
  <2>1. CASE c.op = "rollback"
    BY <1>7, <1>8, <2>1 DEF FilesSeen, IsShot
  <2>2. CASE c.op # "rollback"
    <3>1. f \in c.read.shots \union {c.read.file} /\ f # None
      BY <1>2, <1>8, <2>2, NumbersAndNames DEF JobOK
    <3> QED BY <1>7, <1>8, <3>1 DEF FilesSeen, IsShot
  <2> QED BY <2>1, <2>2
<1>14. Works(r, c, d)
  <2>1. \A g \in Known(c) : file'[g] = NoFile \/ (Exists(g) /\ file'[g].name = file[g].name)
    BY <1>1 DEF Exists
  <2> QED BY <1>1, <1>2, <1>5, <1>8, <1>10, <1>11, <1>13, <2>1 DEF Works
<1>15. ShowsNow(v, c, d)
  BY <1>1, <1>7, <1>8, <1>10, ShownStill
<1>16. RowOK(v)'
  <2>1. /\ Moving(v, "decide") => Moving(v, "decide")'
        /\ Moving(v, "rebucket") => Moving(v, "rebucket")'
        /\ Replacing(v) => Replacing(v)'
    BY <1>0, <1>5, <1>8, VersionParts, AsksKept
  <2>2. ASSUME v \notin clashed, LiveVersion(v), Served(version[v].file) PROVE Served(version[v].file)'
    <3>1. Exists(f) => file[f] # file[version[v].file]
      BY <1>0, <1>6, <1>7, <2>2, ErasedIsNotShown
    <3>2. version[v].file \in Files /\ Exists(version[v].file)
      BY <1>7, <2>2, VersionFields DEF RowOK, OnShow
    <3>3. file[version[v].file] \in Keys
      BY <3>2, VersionParts DEF Exists
    <3> QED BY <1>1, <1>11, <2>2, <3>1, <3>3 DEF Served
  <2> QED BY <1>1, <1>7, <2>1, <2>2, RowStill
<1> QED BY <1>0, <1>6, <1>7, <1>10, <1>12, <1>14, <1>15, <1>16, WorkKeeps

LEMMA SameShots ==
  ASSUME NEW row \in VersionRows, NEW f, f \notin row.shots
  PROVE  [row EXCEPT !.shots = @ \ {f}] = row
<1>1. row.shots \ {f} = row.shots
  OBVIOUS
<1> QED BY <1>1 DEF VersionRows

\* A row without a screenshot is as good as before.
LEMMA RowLess ==
  ASSUME NEW v \in Versions, RowOK(v), version[v] \in VersionRows, NEW f \in Files,
         UNCHANGED <<clashed, raced, uploads, cut>>, judged'[v] = judged[v],
         version'[v] = [version[v] EXCEPT !.shots = @ \ {f}], version[v].file # f,
         \A g \in OnShow(v) : g # f => file'[g] = file[g],
         Moving(v, "decide") => Moving(v, "decide")',
         Served(version[v].file) \/ Moving(v, "rebucket") \/ Replacing(v) =>
           Served(version[v].file)' \/ Moving(v, "rebucket")' \/ Replacing(v)'
  PROVE  RowOK(v)'
<1>1. /\ version'[v].file = version[v].file /\ version'[v].shots = version[v].shots \ {f}
      /\ version'[v].status = version[v].status /\ version'[v].attack = version[v].attack
      /\ version'[v].defense = version[v].defense /\ version'[v].friendly = version[v].friendly
      /\ version'[v].to = version[v].to
  BY DEF VersionRows
<1>2. OnShow(v)' \subseteq OnShow(v) \ {f} /\ (LiveVersion(v)' <=> LiveVersion(v))
  BY <1>1 DEF OnShow, LiveVersion
<1>3. ~LiveVersion(v) => version'[v] = version[v]
  <2>1. ~LiveVersion(v) => version[v].shots = {}
    BY DEF RowOK, NoVersion, GoneVersion
  <2> QED BY <2>1, SameShots
<1>4. LiveVersion(v) => version[v].file \in OnShow(v)
  BY DEF RowOK, OnShow
<1>5. LiveVersion(v) => NameOf(v)' = NameOf(v) /\ file'[version[v].file] = file[version[v].file]
  BY <1>1, <1>4 DEF NameOf
<1>6. OnShow(v)' \subseteq 1..uploads' /\ (~LiveVersion(v)' => version'[v] \in {NoVersion, GoneVersion})
  BY <1>2, <1>3 DEF RowOK
<1>7. ASSUME LiveVersion(v)
      PROVE  /\ version'[v].file # None /\ {version'[v].attack, version'[v].defense} \subseteq Sides
             /\ \A g \in OnShow(v)' : Exists(g)'
             /\ \A g \in version'[v].shots : IsShot(g)'
             /\ NameOf(v)' \in Names
             /\ v \notin clashed => ValidSides(version'[v])
  <2>1. /\ version[v].file # None /\ {version[v].attack, version[v].defense} \subseteq Sides
        /\ \A g \in OnShow(v) : Exists(g)
        /\ \A g \in version[v].shots : IsShot(g)
        /\ NameOf(v) \in Names
        /\ v \notin clashed => ValidSides(version[v])
    BY <1>7 DEF RowOK
  <2>2. \A g \in version'[v].shots : g \in OnShow(v) /\ g # f
    BY <1>1 DEF OnShow
  <2>3. ValidSides(version[v]) => ValidSides(version'[v])
    BY <1>1 DEF ValidSides
  <2> QED BY <1>1, <1>2, <1>5, <1>7, <2>1, <2>2, <2>3 DEF Exists, IsShot
<1>8. ASSUME LiveVersion(v), v \notin clashed \union cut
      PROVE  /\ version'[v].status = "APPROVED" =>
                  /\ version'[v].file = judged'[v]
                  /\ file'[version'[v].file].bucket # "testing-missions" \/ Moving(v, "decide")'
             /\ NameOf(v)' \notin raced =>
                  Served(version[v].file)' \/ Moving(v, "rebucket")' \/ Replacing(v)'
  <2>1. /\ version[v].status = "APPROVED" =>
             /\ version[v].file = judged[v]
             /\ file[version[v].file].bucket # "testing-missions" \/ Moving(v, "decide")
        /\ NameOf(v) \notin raced =>
             Served(version[v].file) \/ Moving(v, "rebucket") \/ Replacing(v)
    BY <1>8 DEF RowOK
  <2> QED BY <1>1, <1>5, <1>8, <2>1
<1> QED BY <1>2, <1>6, <1>7, <1>8 DEF RowOK

LEMMA DropKeeps ==
  ASSUME VersionsInv, NEW r \in Requests, NEW c, c = req[r],
         NEW f \in {c.emptied, c.record}, f # None,
         NEW x \in Jobs, Lessens(c, x), NEW d \in {NoJob, x}, req' = [req EXCEPT ![r] = d],
         (~Used(f) /\ Drop(f)) \/ UNCHANGED <<file, version>>,
         UNCHANGED <<mission, stored, uploads, faults, judged, clashed, cut, raced>>
  PROVE  VersionsInv'
<1>1. c \in Jobs /\ JobOK(c) /\ c.op # "idle" /\ f \in Files
  <2>1. c \in Jobs /\ JobOK(c)
    BY VersionParts DEF HandOK
  <2> QED BY <2>1, JobFields DEF JobOK
<1>2. PICK v : v = c.of
  OBVIOUS
<1>3. /\ v \in Versions /\ RowOK(v) /\ Known(c) \subseteq Files /\ version[v] \in VersionRows
  BY <1>1, <1>2, HandAtWork
<1>4. /\ c.op \in {"update", "delete", "rollback"} /\ ~c.writes /\ c.stage = "none"
      /\ Own(c) = {} /\ f \in Known(c)
  BY <1>1, EraserIs, NumbersAndNames
<1>5. \A g \in Files : g # f => file'[g] = file[g]
  BY VersionParts DEF Drop, DeleteRow
<1>6. file'[f] \in {file[f], NoFile} /\ file' \in [Files -> Keys \union {NoFile}]
  BY <1>1, VersionParts DEF Drop, DeleteRow
<1>7. /\ version' \in [Versions -> VersionRows]
      /\ \A w \in Versions : w # v => version'[w] = version[w]
  <2>1. CASE UNCHANGED version
    BY <2>1, VersionParts
  <2>2. CASE Drop(f)
    <3>1. ASSUME NEW w \in Versions PROVE [version[w] EXCEPT !.shots = @ \ {f}] \in VersionRows
      BY VersionParts DEF VersionRows
    <3>2. ASSUME NEW w \in Versions, w # v PROVE [version[w] EXCEPT !.shots = @ \ {f}] = version[w]
      <4>1. HandAndRow(c, w)
        BY VersionParts
      <4>2. f \notin version[w].shots
        BY <1>2, <1>4, <3>2, <4>1 DEF HandAndRow, OnShow
      <4> QED BY <4>2, VersionParts, SameShots
    <3> QED BY <2>2, <3>1, <3>2 DEF Drop
  <2> QED BY <2>1, <2>2
<1>8. \/ version'[v] = version[v] /\ UNCHANGED file
      \/ version'[v] = [version[v] EXCEPT !.shots = @ \ {f}] /\ version[v].file # f
  BY <1>3 DEF Drop, Used
<1>9. /\ version'[v].status = version[v].status /\ version'[v].file = version[v].file
      /\ version'[v].shots \subseteq version[v].shots
      /\ version[v].file # None => file'[version[v].file] = file[version[v].file]
  <2>1. version[v].file \in Files \union {None}
    BY <1>3, VersionFields
  <2> QED BY <1>3, <1>5, <1>8, <2>1 DEF VersionRows
<1>10. HandOK(x)' /\ Own(x) = {} /\ Known(x) \subseteq Known(c)
  <2>1. \A g \in Known(c) : file'[g] = file[g] \/ file'[g] = NoFile
    BY <1>3, <1>5, <1>6
  <2> QED BY <1>1, <1>2, <1>9, <2>1, LessensHand
<1>11. /\ d \in Jobs /\ HandOK(d)' /\ Own(d) = {} /\ Known(d) \subseteq Known(c)
       /\ (d = NoJob \/ d.of = c.of) /\ d.names \subseteq c.names /\ d.op # "create"
  <2>1. x.of = c.of /\ x.names = c.names /\ x.op = c.op
    BY DEF Lessens, Alike
  <2> QED BY <1>4, <1>10, <2>1, IdleJob, IdleHand
<1>12. VersionsTypes'
  BY <1>6, <1>7, <1>11, VersionParts DEF VersionsTypes, StorageTypeOK
<1>13. Works(r, c, d)
  <2>1. \A g \in Known(c) : file'[g] = NoFile \/ (Exists(g) /\ file'[g].name = file[g].name)
    BY <1>3, <1>5, <1>6 DEF Exists
  <2> QED BY <1>1, <1>2, <1>4, <1>5, <1>7, <1>11, <2>1 DEF Works
<1>14. ShowsNow(v, c, d)
  <2>1. /\ OnShow(v)' \subseteq OnShow(v)
        /\ LiveVersion(v)' <=> LiveVersion(v)
    BY <1>9 DEF OnShow, LiveVersion
  <2>2. LiveVersion(v) => NameOf(v)' = NameOf(v)
    BY <1>3, <1>9 DEF NameOf, RowOK
  <2> QED BY <1>4, <1>9, <1>11, <2>1, <2>2 DEF ShowsNow
<1>15. RowOK(v)'
  <2>1. /\ Moving(v, "decide") => Moving(v, "decide")'
        /\ Moving(v, "rebucket") => Moving(v, "rebucket")'
        /\ Replacing(v) => Replacing(v)'
    BY <1>4, VersionParts, AsksKept
  <2>2. LiveVersion(v) => (Served(version[v].file) => stored'[file'[version[v].file]] = version[v].file)
    BY <1>3, <1>9 DEF Served, RowOK
  <2>3. CASE version'[v] = version[v] /\ UNCHANGED file
    BY <1>3, <2>1, <2>2, <2>3, RowStill DEF Served
  <2>4. CASE version'[v] = [version[v] EXCEPT !.shots = @ \ {f}] /\ version[v].file # f
    <3>1. \A g \in OnShow(v) : g # f => file'[g] = file[g]
      BY <1>3, <1>5, VersionFields DEF OnShow
    <3>2. CASE LiveVersion(v)
      <4>1. Served(version[v].file) => Served(version[v].file)'
        BY <1>9, <2>2, <3>2 DEF Served
      <4> QED BY <1>1, <1>3, <2>1, <2>4, <3>1, <4>1, RowLess
    <3>3. CASE ~LiveVersion(v)
      <4>1. version[v].shots = {}
        BY <1>3, <3>3 DEF RowOK, NoVersion, GoneVersion
      <4>2. version'[v] = version[v]
        BY <1>3, <2>4, <4>1, SameShots
      <4>3. \A g \in OnShow(v) : file'[g] = file[g]
        BY <2>4, <3>1, <4>1 DEF OnShow
      <4> QED BY <1>3, <3>3, <4>2, <4>3, RowStill
    <3> QED BY <3>2, <3>3
  <2> QED BY <1>8, <2>3, <2>4
<1> QED BY <1>1, <1>2, <1>3, <1>11, <1>12, <1>13, <1>14, <1>15, WorkKeeps

LEMMA EraseRowKeeps ==
  ASSUME VersionsInv, NEW r \in Requests, EraseRow(r) PROVE VersionsInv'
<1>0. PICK c \in Jobs : c = req[r]
  BY VersionParts
<1>1. PICK f : f = c.emptied
  OBVIOUS
<1>2. PICK x : x = [c EXCEPT !.emptied = None]
  OBVIOUS
<1>3. x \in Jobs /\ Lessens(c, x)
  BY <1>2 DEF Lessens, Alike, Jobs
<1>4. f # None /\ ~Used(f) /\ Drop(f) /\ req' = [req EXCEPT ![r] = Remaining(x)]
      /\ UNCHANGED <<mission, stored, uploads, faults, judged, clashed, cut, raced>>
  BY <1>0, <1>1, <1>2 DEF EraseRow
<1>5. PICK d \in {NoJob, x} : req' = [req EXCEPT ![r] = d]
  BY <1>4, RemainingIs
<1> QED BY <1>0, <1>1, <1>3, <1>4, <1>5, DropKeeps

LEMMA EraseRecordKeeps ==
  ASSUME VersionsInv, NEW r \in Requests, EraseRecord(r) PROVE VersionsInv'
<1>0. PICK c \in Jobs : c = req[r]
  BY VersionParts
<1>1. PICK f : f = c.record
  OBVIOUS
<1>2. PICK x : x = [c EXCEPT !.record = None]
  OBVIOUS
<1>3. x \in Jobs /\ Lessens(c, x)
  BY <1>2 DEF Lessens, Alike, Jobs
<1>4. f # None /\ req' = [req EXCEPT ![r] = Remaining(x)]
      /\ ((~Used(f) /\ Drop(f)) \/ UNCHANGED <<file, version>>)
      /\ UNCHANGED <<mission, stored, uploads, faults, judged, clashed, cut, raced>>
  BY <1>0, <1>1, <1>2 DEF EraseRecord
<1>5. PICK d \in {NoJob, x} : req' = [req EXCEPT ![r] = d]
  BY <1>4, RemainingIs
<1> QED BY <1>0, <1>1, <1>3, <1>4, <1>5, DropKeeps

-----------------------------------------------------------------------------
(* VERSIONS.  The stages of a decision.                                    *)

LEMMA MoverIs ==
  ASSUME VersionsInv, NEW r \in Requests, NEW c, c = req[r], c.stage # "none"
  PROVE  /\ c \in Jobs /\ c.op = "status" /\ c.of \in Versions /\ Own(c) = {} /\ ~c.writes
         /\ c.read.file \in Files /\ c.read.file \in Known(c)
         /\ c.target \in {"testing-missions", "big-missions", "mini-missions"}
         /\ c.decision \in Statuses /\ (c.target = "testing-missions" => c.decision # "APPROVED")
         /\ Exists(c.read.file) =>
              /\ file[c.read.file] \in Keys /\ file[c.read.file].name \in c.names
              /\ file[c.read.file].name \in Names
              /\ CopyKey(c) \in Keys /\ CopyKey(c).name = file[c.read.file].name
         /\ c.of \notin clashed =>
              /\ LiveVersion(c.of) /\ version[c.of].file = c.read.file /\ Exists(c.read.file)
              /\ NameOf(c.of) = file[c.read.file].name
<1>1. c \in Jobs /\ JobOK(c)
  BY VersionParts DEF HandOK
<1>2. c.op = "status"
  BY <1>1 DEF JobOK
<1>3. /\ c.of \in Versions /\ FilesSeen(c) /\ VersionSeen(c) /\ RowOK(c.of)
      /\ version[c.of] \in VersionRows
  BY <1>1, <1>2, HandAtWork
<1>4. /\ Readable(c.read) /\ ~c.writes
      /\ c.target \in {"testing-missions", "big-missions", "mini-missions"}
      /\ c.decision \in Statuses /\ (c.target = "testing-missions" => c.decision # "APPROVED")
  BY <1>1, <1>2 DEF JobOK
<1>5. c.read.file \in Files /\ c.read.file \in Known(c) /\ Own(c) = {}
  BY <1>4, NumbersAndNames DEF Readable, Known, Own
<1>6. ASSUME Exists(c.read.file)
      PROVE  /\ file[c.read.file] \in Keys /\ file[c.read.file].name \in c.names
             /\ file[c.read.file].name \in Names
             /\ CopyKey(c) \in Keys /\ CopyKey(c).name = file[c.read.file].name
  <2>1. file[c.read.file] \in Keys
    BY <1>5, <1>6, VersionParts DEF Exists
  <2>2. file[c.read.file].name \in c.names /\ c.names \subseteq Names
    BY <1>1, <1>3, <1>5, <1>6, JobFields, NumbersAndNames DEF FilesSeen
  <2>3. CopyKey(c) \in Keys /\ CopyKey(c).name = file[c.read.file].name
    BY <1>4, <2>1 DEF CopyKey, Keys, Buckets
  <2> QED BY <2>1, <2>2, <2>3
<1>7. ASSUME c.of \notin clashed
      PROVE  /\ LiveVersion(c.of) /\ version[c.of].file = c.read.file /\ Exists(c.read.file)
             /\ NameOf(c.of) = file[c.read.file].name
  <2>1. SameRow(c.of, c.read)
    BY <1>2, <1>3, <1>7 DEF VersionSeen
  <2>2. version[c.of].file = c.read.file /\ version[c.of].status = c.read.status
    <3>1. c.read \in VersionRows
      BY <1>1, JobFields
    <3> QED BY <2>1, <3>1 DEF SameRow, VersionRows
  <2>3. LiveVersion(c.of)
    BY <1>4, <2>2 DEF LiveVersion, Readable
  <2>4. Exists(c.read.file)
    BY <1>3, <1>5, <2>2, <2>3, NumbersAndNames DEF RowOK, OnShow
  <2> QED BY <2>2, <2>3, <2>4 DEF NameOf
<1> QED BY <1>1, <1>2, <1>3, <1>4, <1>5, <1>6, <1>7

\* A job at another stage.
Moves(c, x) ==
  /\ Alike(c, x) /\ x.adds = c.adds /\ x.fresh = c.fresh /\ x.shots = c.shots
  /\ x.writes = c.writes /\ x.syncs = c.syncs
  /\ x.record = c.record /\ x.gone = c.gone /\ x.emptied = c.emptied
  /\ x.stage \in {"unlink", "rebucket", "decide"}
  /\ x.stage = "unlink" => x.source \in Keys /\ x.source.name \in c.names

LEMMA MovesHand ==
  ASSUME VersionsInv, NEW r \in Requests, NEW c, c = req[r], c.stage # "none",
         NEW x \in Jobs, Moves(c, x), UNCHANGED <<version, uploads, clashed, raced>>,
         \A f \in Files : f # c.read.file => file'[f] = file[f],
         file'[c.read.file] = file[c.read.file]
           \/ (Exists(c.read.file) /\ Exists(c.read.file)'
                 /\ file'[c.read.file].name = file[c.read.file].name),
         x.stage = "decide" /\ c.of \notin clashed =>
           Exists(c.read.file)' /\ file'[c.read.file].bucket = c.target,
         MoveSeen(x)'
  PROVE  HandOK(x)' /\ Own(x) = {} /\ Known(x) = Known(c)
<1>1. /\ c \in Jobs /\ c.op = "status" /\ c.of \in Versions /\ Own(c) = {} /\ ~c.writes
      /\ c.read.file \in Files
  BY MoverIs
<1>2. /\ JobOK(c) /\ FilesSeen(c) /\ VersionSeen(c) /\ Known(c) \subseteq 1..uploads
  BY <1>1, HandAtWork
<1>3. /\ x.op = "status" /\ x.of = c.of /\ x.names = c.names /\ x.dto = c.dto /\ x.read = c.read
      /\ x.removed = c.removed /\ x.over = c.over /\ x.target = c.target
      /\ x.decision = c.decision /\ x.adds = c.adds /\ x.fresh = c.fresh /\ x.shots = c.shots
      /\ ~x.writes /\ x.syncs = c.syncs /\ x.record = c.record /\ x.gone = c.gone
      /\ x.emptied = c.emptied /\ x.stage \in {"unlink", "rebucket", "decide"}
      /\ x.stage = "unlink" => x.source \in Keys /\ x.source.name \in c.names
  BY <1>1 DEF Moves, Alike
<1>4. Own(x) = {} /\ Known(x) = Known(c)
  BY <1>1, <1>3 DEF Own, Known
<1>5. JobOK(x)
  BY <1>1, <1>2, <1>3 DEF JobOK
<1>6. \A f \in Files : Exists(f)' => Exists(f) /\ file'[f].name = file[f].name
  BY <1>1 DEF Exists
<1>7. c.shots = {} /\ c.gone = {} /\ c.read.shots \subseteq Files
  BY <1>1, <1>2, JobFields, VersionFields DEF JobOK
<1>8. FilesSeen(x)'
  <2>1. \A f \in c.read.shots \union c.shots : Exists(f)' => IsShot(f)'
    BY <1>2, <1>6, <1>7 DEF FilesSeen, IsShot
  <2>2. Exists(c.read.file)' => file'[c.read.file].name \in c.names
    BY <1>1, <1>2, <1>6, NumbersAndNames DEF FilesSeen
  <2> QED BY <1>3, <2>1, <2>2 DEF FilesSeen
<1>9. VersionSeen(x)'
  <2>1. /\ version[c.of].status # "none"
        /\ c.of \notin clashed => SameRow(c.of, c.read)
    BY <1>1, <1>2 DEF VersionSeen
  <2>2. c.of \notin clashed => SameRow(x.of, x.read)'
    BY <1>3, <2>1 DEF SameRow
  <2> QED BY <1>1, <1>3, <2>1, <2>2 DEF VersionSeen
<1> QED BY <1>2, <1>4, <1>5, <1>8, <1>9 DEF HandOK

LEMMA StageKeeps ==
  ASSUME VersionsInv, NEW r \in Requests, NEW c, c = req[r], c.stage # "none",
         NEW x \in Jobs, Moves(c, x), req' = [req EXCEPT ![r] = x],
         UNCHANGED <<mission, version, uploads, faults, judged, clashed, cut, raced>>,
         file' \in [Files -> Keys \union {NoFile}], stored' \in [Keys -> Files \union {None}],
         \A f \in Files : f # c.read.file => file'[f] = file[f],
         file'[c.read.file] = file[c.read.file]
           \/ (Exists(c.read.file) /\ Exists(c.read.file)'
                 /\ file'[c.read.file].name = file[c.read.file].name),
         \A k \in Keys : k.name \notin c.names => stored'[k] = stored[k],
         x.stage = "decide" /\ c.of \notin clashed =>
           Exists(c.read.file)' /\ file'[c.read.file].bucket = c.target,
         MoveSeen(x)', NEW v \in Versions, v = c.of, RowOK(v)'
  PROVE  VersionsInv'
<1>1. /\ c \in Jobs /\ c.op = "status" /\ Own(c) = {}
      /\ c.read.file \in Files /\ c.read.file \in Known(c)
  BY MoverIs
<1>2. RowOK(v) /\ version[v] \in VersionRows /\ Known(c) \subseteq Files
  BY <1>1, HandAtWork
<1>3. HandOK(x)' /\ Own(x) = {} /\ Known(x) = Known(c)
  BY MovesHand
<1>4. VersionsTypes'
  BY VersionParts DEF VersionsTypes, StorageTypeOK
<1>5. Works(r, c, x)
  <2>1. \A f \in Known(c) : file'[f] = NoFile \/ (Exists(f) /\ file'[f].name = file[f].name)
    BY <1>2 DEF Exists
  <2> QED BY <1>1, <1>3, <2>1 DEF Works, Moves, Alike
<1>6. ShowsNow(v, c, x)
  <2>1. \A f \in OnShow(v) : file'[f].name = file[f].name
    BY <1>2, VersionFields DEF OnShow
  <2> QED BY <1>1, <1>2, <1>3, <2>1, ShownStill
<1> QED BY <1>3, <1>4, <1>5, <1>6, WorkKeeps

LEMMA CopyObjectKeeps ==
  ASSUME VersionsInv, NEW r \in Requests, CopyObject(r) PROVE VersionsInv'
<1>0. PICK c : c = req[r]
  OBVIOUS
<1>1. PICK from : from = file[c.read.file]
  OBVIOUS
<1>2. PICK to : to = [from EXCEPT !.bucket = c.target]
  OBVIOUS
<1>3. /\ c.stage = "copy" /\ Exists(c.read.file)
      /\ IF from = to
         THEN req' = [req EXCEPT ![r] = Moved(c, "decide")] /\ UNCHANGED stored
         ELSE IF stored[from] = None
         THEN req' = [req EXCEPT ![r] = Moved(c, "rebucket")] /\ UNCHANGED stored
         ELSE /\ stored' = [stored EXCEPT ![to] = stored[from]]
              /\ req' = [req EXCEPT ![r] = [Moved(c, "unlink") EXCEPT !.source = from]]
      /\ UNCHANGED <<mission, version, file, uploads, faults, judged, clashed, cut, raced>>
  BY <1>0, <1>1, <1>2 DEF CopyObject
<1>4. /\ c \in Jobs /\ c.op = "status" /\ c.of \in Versions /\ ~c.writes
      /\ c.read.file \in Files
      /\ from \in Keys /\ from.name \in c.names /\ from.name \in Names
      /\ CopyKey(c) \in Keys /\ CopyKey(c).name = from.name /\ to = CopyKey(c)
      /\ c.of \notin clashed =>
           /\ LiveVersion(c.of) /\ version[c.of].file = c.read.file
           /\ NameOf(c.of) = from.name
  BY <1>0, <1>1, <1>2, <1>3, MoverIs DEF CopyKey
<1>5. PICK v : v = c.of
  OBVIOUS
<1>6. v \in Versions /\ RowOK(v)
  BY <1>0, <1>4, <1>5, HandAtWork
<1>7. v \notin clashed \union cut /\ from.name \notin raced => stored[from] = c.read.file
  <2>1. SUFFICES ASSUME v \notin clashed \union cut, from.name \notin raced
                 PROVE  stored[from] = c.read.file
    OBVIOUS
  <2>2. Served(version[v].file) \/ Moving(v, "rebucket") \/ Replacing(v)
    BY <1>4, <1>5, <1>6, <2>1 DEF RowOK
  <2>3. ~Moving(v, "rebucket") /\ ~Replacing(v)
    BY <1>0, <1>3, <1>4, <1>5, <2>1, OnlyHand
  <2> QED BY <1>1, <1>4, <1>5, <2>1, <2>2, <2>3 DEF Served
<1>8. PICK x : x = IF from = to THEN Moved(c, "decide")
                   ELSE IF stored[from] = None THEN Moved(c, "rebucket")
                   ELSE [Moved(c, "unlink") EXCEPT !.source = from]
  OBVIOUS
<1>9. /\ x \in Jobs /\ Moves(c, x) /\ req' = [req EXCEPT ![r] = x]
      /\ x.stage = "decide" <=> from = to
      /\ x.stage = "rebucket" <=> from # to /\ stored[from] = None
      /\ x.stage = "unlink" <=> from # to /\ stored[from] # None
      /\ x.stage = "unlink" => x.source = from
  <2>1. CASE from = to
    BY <1>3, <1>4, <1>8, <2>1 DEF Moved, Moves, Alike, Jobs
  <2>2. CASE from # to /\ stored[from] = None
    BY <1>3, <1>4, <1>8, <2>2 DEF Moved, Moves, Alike, Jobs
  <2>3. CASE from # to /\ stored[from] # None
    BY <1>3, <1>4, <1>8, <2>3 DEF Moved, Moves, Alike, Jobs
  <2> QED BY <2>1, <2>2, <2>3
<1>10. /\ stored' \in [Keys -> Files \union {None}]
       /\ \A k \in Keys : k # to => stored'[k] = stored[k]
       /\ from # to /\ stored[from] # None => stored'[to] = stored[from]
  <2>1. stored[from] \in Files \union {None}
    BY <1>4, VersionParts
  <2> QED BY <1>3, <1>4, <2>1, VersionParts
<1>11. MoveSeen(x)'
  <2>1. x.of = v /\ x.read = c.read /\ x.target = c.target
    BY <1>5, <1>9 DEF Moves, Alike
  <2>2. CopyKey(x)' = to
    BY <1>1, <1>2, <1>3, <2>1 DEF CopyKey
  <2>3. file' = file /\ clashed' = clashed /\ cut' = cut /\ raced' = raced
    BY <1>3
  <2>4. SUFFICES ASSUME v \notin clashed \union cut, from.name \notin raced
                 PROVE  /\ x.stage = "unlink" =>
                             /\ x.source = from /\ x.source # to
                             /\ stored'[from] = c.read.file
                        /\ x.stage \in {"unlink", "rebucket"} => stored'[to] = c.read.file
    BY <1>1, <2>1, <2>2, <2>3 DEF MoveSeen, Served
  <2>5. stored[from] = c.read.file /\ c.read.file # None
    BY <1>4, <1>7, <2>4, NumbersAndNames
  <2> QED BY <1>4, <1>9, <1>10, <2>5
<1>12. RowOK(v)'
  <2>1. x.of = v /\ req \in [Requests -> Jobs]
    BY <1>5, <1>9, VersionParts DEF Moves, Alike
  <2>2. /\ Moving(v, "decide") => Moving(v, "decide")'
        /\ Moving(v, "rebucket") => Moving(v, "rebucket")'
        /\ Replacing(v) => Replacing(v)'
    BY <1>0, <1>3, <1>4, <1>9, <2>1, AsksKept
  <2>3. ASSUME v \notin clashed, Served(version[v].file) PROVE Served(version[v].file)'
    <3>1. version[v].file = c.read.file /\ version' = version /\ file' = file
      BY <1>3, <1>4, <1>5, <2>3
    <3>2. stored'[from] = stored[from]
      BY <1>3, <1>4, <1>10
    <3> QED BY <1>1, <2>3, <3>1, <3>2 DEF Served
  <2> QED BY <1>3, <1>6, <2>2, <2>3, RowStill
<1>13. x.stage = "decide" /\ c.of \notin clashed =>
         Exists(c.read.file)' /\ file'[c.read.file].bucket = c.target
  BY <1>1, <1>2, <1>3, <1>4, <1>9 DEF Exists, Keys
<1>14. \A k \in Keys : k.name \notin c.names => stored'[k] = stored[k]
  BY <1>4, <1>10
<1>15. file' \in [Files -> Keys \union {NoFile}] /\ c.stage # "none"
  BY <1>3, VersionParts
<1> QED BY <1>0, <1>3, <1>5, <1>6, <1>9, <1>10, <1>11, <1>12, <1>13, <1>14, <1>15, StageKeeps

LEMMA UnlinkObjectKeeps ==
  ASSUME VersionsInv, NEW r \in Requests, UnlinkObject(r) PROVE VersionsInv'
<1>0. PICK c : c = req[r]
  OBVIOUS
<1>1. /\ c.stage = "unlink" /\ stored' = [stored EXCEPT ![c.source] = None]
      /\ req' = [req EXCEPT ![r] = Moved(c, "rebucket")]
      /\ UNCHANGED <<mission, version, file, uploads, faults, judged, clashed, cut, raced>>
  BY <1>0 DEF UnlinkObject, RemoveFrom
<1>2. PICK x : x = Moved(c, "rebucket")
  OBVIOUS
<1>3. /\ c \in Jobs /\ c.op = "status" /\ c.of \in Versions /\ ~c.writes /\ c.read.file \in Files
      /\ Exists(c.read.file) => CopyKey(c) \in Keys
      /\ c.of \notin clashed => Exists(c.read.file)
  BY <1>0, <1>1, MoverIs
<1>4. PICK v : v = c.of
  OBVIOUS
<1>5. v \in Versions /\ RowOK(v) /\ JobOK(c) /\ MoveSeen(c)
  BY <1>0, <1>3, <1>4, HandAtWork
<1>6. c.source \in Keys /\ c.source.name \in c.names
  BY <1>1, <1>3, <1>5 DEF JobOK
<1>7. x \in Jobs /\ Moves(c, x) /\ x.stage = "rebucket"
  BY <1>2, <1>3 DEF Moved, Moves, Alike, Jobs
<1>8. /\ stored' \in [Keys -> Files \union {None}]
      /\ \A k \in Keys : k # c.source => stored'[k] = stored[k]
  BY <1>1, <1>6, VersionParts
<1>9. MoveSeen(x)'
  <2>1. x.of = v /\ x.read = c.read /\ x.target = c.target
    BY <1>4, <1>7 DEF Moves, Alike
  <2>2. CopyKey(x)' = CopyKey(c)
    BY <1>1, <2>1 DEF CopyKey
  <2>3. SUFFICES ASSUME v \notin clashed \union cut, file[c.read.file].name \notin raced
                 PROVE  stored'[CopyKey(c)] = c.read.file
    BY <1>1, <1>7, <2>1, <2>2 DEF MoveSeen
  <2>4. /\ c.source = file[c.read.file] /\ c.source # CopyKey(c)
        /\ stored[CopyKey(c)] = c.read.file
    BY <1>1, <1>3, <1>4, <1>5, <2>3 DEF MoveSeen
  <2> QED BY <1>3, <1>4, <1>8, <2>3, <2>4
<1>10. RowOK(v)'
  <2>1. /\ Moving(v, "decide") => Moving(v, "decide")'
        /\ Moving(v, "rebucket")'
    <3>1. x.of = v /\ req \in [Requests -> Jobs] /\ req' = [req EXCEPT ![r] = x]
      BY <1>1, <1>2, <1>4, <1>7, VersionParts DEF Moves, Alike
    <3> QED BY <1>0, <1>1, <1>7, <3>1, AsksKept
  <2> QED BY <1>1, <1>5, <2>1, RowStill
<1>11. file' \in [Files -> Keys \union {NoFile}] /\ c.stage # "none" /\ x.stage # "decide"
       /\ req' = [req EXCEPT ![r] = x]
  BY <1>1, <1>2, <1>7, VersionParts
<1> QED BY <1>0, <1>1, <1>4, <1>5, <1>6, <1>7, <1>8, <1>9, <1>10, <1>11, StageKeeps

LEMMA RebucketKeeps ==
  ASSUME VersionsInv, NEW r \in Requests, Rebucket(r) PROVE VersionsInv'
<1>0. PICK c : c = req[r]
  OBVIOUS
<1>1. /\ c.stage = "rebucket" /\ Exists(c.read.file)
      /\ file' = [file EXCEPT ![c.read.file].bucket = c.target]
      /\ req' = [req EXCEPT ![r] = Moved(c, "decide")]
      /\ UNCHANGED <<mission, version, stored, uploads, faults, judged, clashed, cut, raced>>
  BY <1>0 DEF Rebucket
<1>2. PICK x : x = Moved(c, "decide")
  OBVIOUS
<1>3. PICK g : g = c.read.file
  OBVIOUS
<1>4. /\ c \in Jobs /\ c.op = "status" /\ c.of \in Versions /\ ~c.writes /\ g \in Files
      /\ CopyKey(c) \in Keys /\ CopyKey(c).name = file[g].name /\ file[g] \in Keys
      /\ file[g].name \in Names
      /\ c.of \notin clashed => LiveVersion(c.of) /\ version[c.of].file = g
                                /\ NameOf(c.of) = file[g].name
  BY <1>0, <1>1, <1>3, MoverIs
<1>5. PICK v : v = c.of
  OBVIOUS
<1>6. v \in Versions /\ RowOK(v) /\ MoveSeen(c) /\ version[v] \in VersionRows
  BY <1>0, <1>4, <1>5, HandAtWork
<1>7. x \in Jobs /\ Moves(c, x) /\ x.stage = "decide" /\ req' = [req EXCEPT ![r] = x]
  BY <1>1, <1>2, <1>4 DEF Moved, Moves, Alike, Jobs
<1>8. /\ file'[g] = CopyKey(c) /\ CopyKey(c).bucket = c.target
      /\ file' \in [Files -> Keys \union {NoFile}]
      /\ \A f \in Files : f # g => file'[f] = file[f]
  <2>1. file' = [file EXCEPT ![g] = CopyKey(c)]
    BY <1>1, <1>3 DEF CopyKey
  <2>2. CopyKey(c).bucket = c.target
    BY <1>3, <1>4 DEF CopyKey, Keys
  <2> QED BY <1>4, <2>1, <2>2, VersionParts
<1>9. Exists(g)'
  BY <1>4, <1>8, NumbersAndNames DEF Exists
<1>10. \A f \in Files : (Exists(f) => Exists(f)') /\ file'[f].name = file[f].name
  BY <1>4, <1>8, <1>9 DEF Exists
<1>11. MoveSeen(x)'
  BY <1>7 DEF MoveSeen
<1>12. RowOK(v)'
  <2>1. OnShow(v) \subseteq Files
    BY <1>6, VersionFields DEF OnShow
  <2>2. version' = version /\ OnShow(v)' = OnShow(v) /\ (LiveVersion(v)' <=> LiveVersion(v))
    BY <1>1 DEF OnShow, LiveVersion
  <2>3. LiveVersion(v) => version[v].file \in OnShow(v)
    BY <1>6 DEF RowOK, OnShow
  <2>4. LiveVersion(v) => NameOf(v)' = NameOf(v)
    BY <1>1, <1>10, <2>1, <2>3 DEF NameOf
  <2>5. Moving(v, "decide")'
    <3>1. x.of = v
      BY <1>5, <1>7 DEF Moves, Alike
    <3> QED BY <1>0, <1>7, <3>1, VersionParts, AsksKept
  <2>6. OnShow(v)' \subseteq 1..uploads' /\ (~LiveVersion(v)' => version'[v] \in {NoVersion, GoneVersion})
    BY <1>1, <1>6, <2>2 DEF RowOK
  <2>7. ASSUME LiveVersion(v)
        PROVE  /\ version[v].file # None /\ {version[v].attack, version[v].defense} \subseteq Sides
               /\ \A f \in OnShow(v) : Exists(f)'
               /\ \A f \in version[v].shots : IsShot(f)'
               /\ NameOf(v)' \in Names
               /\ v \notin clashed => ValidSides(version[v])
    <3>1. \A f \in version[v].shots : f \in OnShow(v)
      BY DEF OnShow
    <3> QED BY <1>6, <1>10, <2>1, <2>4, <2>7, <3>1 DEF RowOK, IsShot
  <2>8. ASSUME LiveVersion(v), v \notin clashed \union cut
        PROVE  /\ version[v].status = "APPROVED" => version[v].file = judged[v]
               /\ NameOf(v) \notin raced => Served(version[v].file)'
    <3>1. version[v].status = "APPROVED" => version[v].file = judged[v]
      BY <1>6, <2>8 DEF RowOK
    <3>2. NameOf(v) \notin raced => stored[CopyKey(c)] = g
      BY <1>1, <1>3, <1>4, <1>5, <1>6, <2>8 DEF MoveSeen
    <3> QED BY <1>1, <1>4, <1>5, <1>8, <2>2, <2>8, <3>1, <3>2 DEF Served
  <2> QED BY <1>1, <2>2, <2>4, <2>5, <2>6, <2>7, <2>8 DEF RowOK
<1>13. file'[c.read.file].bucket = c.target
  BY <1>3, <1>8
<1>14. stored' \in [Keys -> Files \union {None}] /\ c.stage # "none"
  BY <1>1, VersionParts
<1>15. file'[c.read.file].name = file[c.read.file].name
  BY <1>3, <1>4, <1>10
<1> QED BY <1>0, <1>1, <1>3, <1>5, <1>6, <1>7, <1>8, <1>9, <1>11, <1>12, <1>13, <1>14, <1>15, StageKeeps

LEMMA DecideKeeps ==
  ASSUME VersionsInv, NEW r \in Requests, Decide(r) PROVE VersionsInv'
<1>0. PICK c : c = req[r]
  OBVIOUS
<1>1. PICK v : v = c.of
  OBVIOUS
<1>2. /\ c.stage = "decide" /\ LiveVersion(v)
      /\ version' = [version EXCEPT ![v].status = c.decision,
                                    ![v].reviewed = c.decision # "PENDING_APPROVAL"]
      /\ judged' = [judged EXCEPT ![v] = c.read.file]
      /\ req' = [req EXCEPT ![r] = NoJob]
      /\ UNCHANGED <<mission, file, stored, uploads, faults, clashed, cut, raced>>
  BY <1>0, <1>1 DEF Decide
<1>3. /\ c \in Jobs /\ c.op = "status" /\ v \in Versions /\ ~c.writes /\ c.read.file \in Files
      /\ c.decision \in Statuses /\ (c.target = "testing-missions" => c.decision # "APPROVED")
      /\ v \notin clashed => version[v].file = c.read.file
  BY <1>0, <1>1, <1>2, MoverIs
<1>4. RowOK(v) /\ VersionSeen(c) /\ Own(c) \intersect OnShow(v) = {} /\ version[v] \in VersionRows
  BY <1>0, <1>1, <1>3, HandAtWork
<1>5. /\ version'[v].status = c.decision
      /\ version'[v].file = version[v].file /\ version'[v].shots = version[v].shots
      /\ version'[v].attack = version[v].attack /\ version'[v].defense = version[v].defense
      /\ version'[v].friendly = version[v].friendly /\ version'[v].to = version[v].to
      /\ version' \in [Versions -> VersionRows]
      /\ \A w \in Versions : w # v => version'[w] = version[w]
  <2>1. [version[v] EXCEPT !.status = c.decision, !.reviewed = c.decision # "PENDING_APPROVAL"]
          \in VersionRows
    BY <1>3, <1>4 DEF VersionRows
  <2>2. version' = [version EXCEPT ![v] = [version[v] EXCEPT !.status = c.decision,
                                       !.reviewed = c.decision # "PENDING_APPROVAL"]]
    BY <1>2, <1>3, <1>4, VersionParts DEF VersionRows
  <2> QED BY <1>3, <1>4, <2>1, <2>2, VersionParts DEF VersionRows
<1>6. /\ judged'[v] = c.read.file /\ judged' \in [Versions -> Files \union {None}]
      /\ \A w \in Versions : w # v => judged'[w] = judged[w]
  BY <1>2, <1>3, VersionParts
<1>7. VersionsTypes'
  BY <1>2, <1>5, <1>6, IdleJob, VersionParts DEF VersionsTypes, StorageTypeOK
<1>8. Works(r, c, NoJob)
  <2>1. \A f \in Known(c) : file'[f] = NoFile \/ (Exists(f) /\ file'[f].name = file[f].name)
    BY <1>2 DEF Exists
  <2> QED BY <1>1, <1>2, <1>3, <1>5, <1>6, <2>1, IdleJob DEF Works
<1>9. OnShow(v)' = OnShow(v) /\ LiveVersion(v)' /\ NameOf(v)' = NameOf(v)
  BY <1>2, <1>3, <1>5 DEF OnShow, LiveVersion, NameOf
<1>10. ShowsNow(v, c, NoJob)
  <2>1. version'[v].status # "none"
    BY <1>3, <1>5 DEF Statuses
  <2> QED BY <1>2, <1>9, <2>1, IdleJob DEF ShowsNow
<1>11. RowOK(v)'
  <2>1. /\ version[v].file # None /\ {version[v].attack, version[v].defense} \subseteq Sides
        /\ \A f \in OnShow(v) : Exists(f)
        /\ \A f \in version[v].shots : IsShot(f)
        /\ NameOf(v) \in Names /\ OnShow(v) \subseteq 1..uploads
        /\ v \notin clashed => ValidSides(version[v])
    BY <1>2, <1>4 DEF RowOK
  <2>2. ValidSides(version[v]) => ValidSides(version'[v])
    BY <1>5 DEF ValidSides
  <2>3. ASSUME v \notin clashed \union cut
        PROVE  /\ c.decision = "APPROVED" => file[version[v].file].bucket # "testing-missions"
               /\ NameOf(v) \notin raced => Served(version[v].file)'
                                            \/ Moving(v, "rebucket")' \/ Replacing(v)'
    <3>1. file[version[v].file].bucket = c.target
      BY <1>1, <1>2, <1>3, <1>4, <2>3 DEF VersionSeen
    <3>2. NameOf(v) \notin raced => Served(version[v].file)
      <4>1. ~Moving(v, "rebucket") /\ ~Replacing(v)
        BY <1>0, <1>1, <1>2, <1>3, <2>3, OnlyHand
      <4> QED BY <1>2, <1>4, <2>3, <4>1 DEF RowOK
    <3>3. Served(version[v].file) => Served(version[v].file)'
      BY <1>2, <1>5 DEF Served
    <3> QED BY <1>3, <3>1, <3>2, <3>3
  <2>4. Exists(version[v].file) => file' = file
    BY <1>2
  <2> QED BY <1>2, <1>3, <1>5, <1>6, <1>9, <2>1, <2>2, <2>3 DEF RowOK, Exists, IsShot
<1> QED BY <1>0, <1>1, <1>3, <1>7, <1>8, <1>10, <1>11, IdleHand, WorkKeeps

-----------------------------------------------------------------------------
(* VERSIONS.  The writes of a row.                                         *)

LEMMA RewrittenIs ==
  ASSUME NEW row \in VersionRows, NEW c \in Jobs, NEW y, y = Rewritten(row, c)
  PROVE  /\ y \in VersionRows /\ y.file = Or(c.fresh, row.file)
         /\ y.shots = (row.shots \ c.removed) \union c.shots
         /\ y.attack = Or(c.dto.attack, row.attack) /\ y.defense = Or(c.dto.defense, row.defense)
         /\ y.friendly = FriendlySide(c, row).friendly /\ y.to = FriendlySide(c, row).to
         /\ y.status = IF Resubmits(c) THEN "PENDING_APPROVAL" ELSE row.status
<1>1. /\ c.dto \in Bodies /\ c.fresh \in Files \union {None} /\ c.shots \subseteq Files
      /\ c.read \in VersionRows
  BY JobFields
<1>2. /\ c.dto.attack \in MaybeSide /\ c.dto.defense \in MaybeSide
      /\ c.dto.type \in MaybeSide /\ c.dto.to \in MaybeSide
  BY <1>1 DEF Bodies
<1>3. PICK side \in VersionRows : side = FriendlySide(c, row)
  <2>1. /\ Or(c.dto.type, c.read.friendly) \in MaybeSide
        /\ Or(c.dto.to, c.read.to) \in MaybeSide
    BY <1>1, <1>2, VersionFields DEF Or
  <2>2. [NoVersion EXCEPT !.friendly = Or(c.dto.type, c.read.friendly),
                          !.to = Or(c.dto.to, c.read.to)] \in VersionRows
    <3>1. PICK n \in VersionRows : n = NoVersion
      BY IdleJob
    <3>2. \A f \in MaybeSide, t \in MaybeSide : [n EXCEPT !.friendly = f, !.to = t] \in VersionRows
      BY DEF VersionRows
    <3> QED BY <2>1, <3>1, <3>2
  <2> QED BY <2>2, IdleJob DEF FriendlySide
<1>4. /\ Or(c.fresh, row.file) \in Files \union {None}
      /\ Or(c.dto.attack, row.attack) \in MaybeSide /\ Or(c.dto.defense, row.defense) \in MaybeSide
      /\ (row.shots \ c.removed) \union c.shots \subseteq Files
      /\ side.friendly \in MaybeSide /\ side.to \in MaybeSide
  BY <1>1, <1>2, VersionFields DEF Or
<1>5. (IF Resubmits(c) THEN "PENDING_APPROVAL" ELSE row.status) \in Statuses \union {"none", "gone"}
  BY VersionFields DEF Statuses
<1> QED BY <1>3, <1>4, <1>5 DEF Rewritten, VersionRows

\* An update that was accepted against the row that it writes keeps its sides valid.
LEMMA WrittenSidesAreValid ==
  ASSUME NEW row \in VersionRows, NEW c \in Jobs, FriendlyAccepted(c.dto, c.read),
         row.attack = c.read.attack, row.defense = c.read.defense,
         row.friendly = c.read.friendly, row.to = c.read.to,
         NEW y \in VersionRows,
         y.attack = Or(c.dto.attack, row.attack), y.defense = Or(c.dto.defense, row.defense),
         y.friendly = FriendlySide(c, row).friendly, y.to = FriendlySide(c, row).to
  PROVE  ValidSides(y)
<1>1. NoVersion.friendly = None /\ NoVersion.to = None
  BY DEF NoVersion
<1>2. PICK friendly : friendly = Or(c.dto.type, c.read.friendly)
  OBVIOUS
<1>3. PICK to : to = Or(c.dto.to, c.read.to)
  OBVIOUS
<1>4. CASE c.dto.clear
  BY <1>1, <1>4 DEF FriendlySide, ValidSides
<1>5. CASE ~c.dto.clear
  <2>1. y.friendly = friendly /\ y.to = to
    <3>1. CASE {c.dto.type, c.dto.to} = {None}
      <4>1. FriendlySide(c, row) = row /\ c.dto.type = None /\ c.dto.to = None
        BY <1>5, <3>1 DEF FriendlySide
      <4> QED BY <1>2, <1>3, <4>1 DEF Or
    <3>2. CASE {c.dto.type, c.dto.to} # {None}
      <4>1. FriendlySide(c, row) = [NoVersion EXCEPT !.friendly = friendly, !.to = to]
        BY <1>2, <1>3, <1>5, <3>2 DEF FriendlySide
      <4>2. FriendlySide(c, row).friendly = friendly /\ FriendlySide(c, row).to = to
        BY <4>1 DEF NoVersion
      <4> QED BY <4>2
    <3> QED BY <3>1, <3>2
  <2>2. \/ {c.dto.type, c.dto.to, c.read.friendly, c.read.to} = {None}
        \/ /\ to \in {y.attack, y.defense} \ {None}
           /\ friendly \notin {y.attack, y.defense, None}
    BY <1>2, <1>3, <1>5 DEF FriendlyAccepted
  <2>3. y.friendly \in MaybeSide
    BY VersionFields
  <2>4. CASE {c.dto.type, c.dto.to, c.read.friendly, c.read.to} = {None}
    <3>1. c.dto.type = None /\ c.dto.to = None /\ c.read.friendly = None /\ c.read.to = None
      BY <2>4
    <3> QED BY <1>2, <1>3, <2>1, <3>1 DEF Or, ValidSides
  <2>5. CASE to \in {y.attack, y.defense} \ {None} /\ friendly \notin {y.attack, y.defense, None}
    BY <2>1, <2>3, <2>5 DEF ValidSides, MaybeSide
  <2> QED BY <2>2, <2>4, <2>5
<1> QED BY <1>4, <1>5

LEMMA InsertVersionKeeps ==
  ASSUME VersionsInv, NEW r \in Requests, InsertVersion(r) PROVE VersionsInv'
<1>0. PICK c : c = req[r]
  OBVIOUS
<1>1. PICK v : v = c.of
  OBVIOUS
<1>2. PICK z : z = Rewritten(version[v], c)
  OBVIOUS
<1>3. PICK y : y = [z EXCEPT !.status = "PENDING_APPROVAL"]
  OBVIOUS
<1>4. /\ c.writes /\ c.adds = {} /\ c.op = "create"
      /\ version' = [version EXCEPT ![v] = [Rewritten(@, c) EXCEPT !.status = "PENDING_APPROVAL"]]
      /\ req' = [req EXCEPT ![r] = NoJob]
      /\ UNCHANGED <<mission, file, stored, uploads, faults, judged, clashed, cut, raced>>
  BY <1>0, <1>1 DEF InsertVersion, MayStore
<1>5. /\ c \in Jobs /\ v \in Versions /\ JobOK(c) /\ FilesSeen(c) /\ VersionSeen(c)
      /\ version[v] \in VersionRows /\ Own(c) \subseteq 1..uploads /\ Own(c) \subseteq Files
  BY <1>0, <1>1, <1>4, HandAtWork
<1>6. version[v] = NoVersion /\ c.read = NoVersion
  BY <1>1, <1>4, <1>5 DEF VersionSeen, JobOK
<1>7. /\ UploadsOK(c) /\ c.dto.name \in c.names /\ c.dto.name # None
      /\ {c.dto.attack, c.dto.defense} \subseteq Sides /\ FriendlyAccepted(c.dto, c.read)
      /\ c.names \subseteq Names
  BY <1>4, <1>5, JobFields DEF JobOK
<1>8. c.fresh # None
  BY <1>4, <1>7 DEF UploadsOK
<1>9. /\ z \in VersionRows /\ z.file = c.fresh /\ z.shots = c.shots
      /\ z.attack = Or(c.dto.attack, version[v].attack)
      /\ z.defense = Or(c.dto.defense, version[v].defense)
      /\ z.friendly = FriendlySide(c, version[v]).friendly /\ z.to = FriendlySide(c, version[v]).to
  <2>1. Or(c.fresh, version[v].file) = c.fresh
    BY <1>8 DEF Or
  <2>2. version[v].shots = {}
    BY <1>6, IdleJob
  <2>3. /\ z \in VersionRows /\ z.file = Or(c.fresh, version[v].file)
        /\ z.shots = (version[v].shots \ c.removed) \union c.shots
        /\ z.attack = Or(c.dto.attack, version[v].attack)
        /\ z.defense = Or(c.dto.defense, version[v].defense)
        /\ z.friendly = FriendlySide(c, version[v]).friendly /\ z.to = FriendlySide(c, version[v]).to
    BY <1>2, <1>5, RewrittenIs
  <2> QED BY <2>1, <2>2, <2>3
<1>10. /\ y \in VersionRows /\ y.status = "PENDING_APPROVAL" /\ y.file = c.fresh /\ y.shots = c.shots
       /\ y.attack = z.attack /\ y.defense = z.defense /\ y.friendly = z.friendly /\ y.to = z.to
  BY <1>3, <1>9 DEF VersionRows, Statuses
<1>11. /\ version'[v] = y /\ version' \in [Versions -> VersionRows]
       /\ \A w \in Versions : w # v => version'[w] = version[w]
  BY <1>2, <1>3, <1>4, <1>5, <1>10, VersionParts
<1>12. y.attack \in Sides /\ y.defense \in Sides
  BY <1>7, <1>9, <1>10, NumbersAndNames DEF Or
<1>13. ValidSides(y)
  BY <1>5, <1>6, <1>7, <1>9, <1>10, WrittenSidesAreValid
<1>14. OnShow(v)' = {c.fresh} \union c.shots /\ LiveVersion(v)' /\ OnShow(v)' \subseteq Own(c)
       /\ c.fresh \in Files
  <2>1. c.fresh \in Files
    BY <1>5, <1>8, JobFields
  <2>2. {c.fresh} \union c.shots \subseteq Own(c)
    BY <1>4, <1>8 DEF Own
  <2>3. OnShow(v)' = {c.fresh} \union c.shots
    BY <1>8, <1>10, <1>11 DEF OnShow
  <2> QED BY <1>10, <1>11, <2>1, <2>2, <2>3 DEF LiveVersion, Statuses
<1>15. /\ file[c.fresh] = Slot(c) /\ Slot(c).name = c.dto.name
       /\ c.dto.name \notin raced => stored[Slot(c)] = c.fresh
  BY <1>4, <1>5, <1>8 DEF FilesSeen, Slot
<1>16. NameOf(v)' = c.dto.name
  BY <1>4, <1>10, <1>11, <1>15 DEF NameOf
<1>17. VersionsTypes'
  BY <1>4, <1>11, IdleJob, VersionParts DEF VersionsTypes, StorageTypeOK
<1>18. Works(r, c, NoJob)
  <2>1. \A f \in Known(c) : file'[f] = NoFile \/ (Exists(f) /\ file'[f].name = file[f].name)
    BY <1>4 DEF Exists
  <2> QED BY <1>1, <1>4, <1>11, <2>1, IdleJob DEF Works
<1>19. ShowsNow(v, c, NoJob)
  BY <1>4, <1>7, <1>10, <1>11, <1>14, <1>16, IdleJob DEF ShowsNow
<1>20. RowOK(v)'
  <2>1. c.dto.name \in Names
    BY <1>7
  <2>2. \A f \in OnShow(v)' : Exists(f)'
    <3>1. Exists(c.fresh)
      BY <1>15, <2>1, NumbersAndNames DEF Exists
    <3> QED BY <1>4, <1>5, <1>14, <3>1 DEF FilesSeen, Exists
  <2>3. \A f \in c.shots : IsShot(f)'
    BY <1>4, <1>5 DEF FilesSeen, IsShot
  <2>4. c.dto.name \notin raced => Served(version[v].file)'
    BY <1>4, <1>10, <1>11, <1>15 DEF Served
  <2> QED BY <1>4, <1>5, <1>8, <1>10, <1>11, <1>12, <1>13, <1>14, <1>16, <2>1, <2>2, <2>3, <2>4 DEF RowOK
<1> QED BY <1>0, <1>1, <1>5, <1>17, <1>18, <1>19, <1>20, IdleHand, WorkKeeps

LEMMA RemoveVersionKeeps ==
  ASSUME VersionsInv, NEW r \in Requests, RemoveVersion(r) PROVE VersionsInv'
<1>0. PICK c : c = req[r]
  OBVIOUS
<1>1. PICK v : v = c.of
  OBVIOUS
<1>2. PICK x : x = [c EXCEPT !.writes = FALSE, !.gone = {c.read.file} \union c.read.shots]
  OBVIOUS
<1>3. /\ c.writes /\ c.adds = {} /\ c.op = "delete" /\ LiveVersion(v)
      /\ version' = [version EXCEPT ![v] = GoneVersion]
      /\ req' = [req EXCEPT ![r] = x]
      /\ UNCHANGED <<mission, file, stored, uploads, faults, judged, clashed, cut, raced>>
  BY <1>0, <1>1, <1>2 DEF RemoveVersion, MayStore
<1>4. /\ c \in Jobs /\ v \in Versions /\ JobOK(c) /\ FilesSeen(c) /\ VersionSeen(c)
      /\ Own(c) \union Known(c) \subseteq 1..uploads
  BY <1>0, <1>1, <1>3, HandAtWork
<1>5. /\ Readable(c.read) /\ c.fresh = None /\ c.shots = {} /\ c.record = None /\ ~c.syncs
      /\ c.stage = "none" /\ c.gone = {} /\ c.emptied = None /\ c.removed \subseteq c.read.shots
  BY <1>3, <1>4 DEF JobOK
<1>6. c.read.file \in Files /\ c.read.shots \subseteq Files
  BY <1>4, <1>5, JobFields, VersionFields DEF Readable
<1>7. x \in Jobs
  BY <1>2, <1>4, <1>6 DEF Jobs
<1>8. /\ Alike(c, x) /\ x.adds = {} /\ x.fresh = None /\ x.shots = {} /\ ~x.writes /\ ~x.syncs
      /\ x.record = None /\ x.emptied = None /\ x.gone = {c.read.file} \union c.read.shots
      /\ x.stage = "none"
  BY <1>2, <1>3, <1>4, <1>5 DEF Alike, Jobs
<1>9. Own(x) = {} /\ Known(x) \subseteq Known(c)
  BY <1>8 DEF Own, Known, Alike
<1>10. GoneVersion \in VersionRows /\ GoneVersion.status = "gone" /\ GoneVersion.file = None
       /\ GoneVersion.shots = {}
  BY IdleJob DEF GoneVersion, NoVersion, VersionRows
<1>11. /\ version'[v] = GoneVersion /\ version' \in [Versions -> VersionRows]
       /\ \A w \in Versions : w # v => version'[w] = version[w]
  BY <1>3, <1>4, <1>10, VersionParts
<1>12. ~LiveVersion(v)' /\ OnShow(v)' = {}
  BY <1>10, <1>11 DEF LiveVersion, OnShow, Statuses
<1>13. HandOK(x)'
  <2>1. JobOK(x)
    BY <1>3, <1>4, <1>5, <1>8 DEF JobOK, Alike
  <2>2. FilesSeen(x)'
    BY <1>3, <1>4, <1>5, <1>8 DEF FilesSeen, Alike, Exists, IsShot
  <2>3. VersionSeen(x)'
    BY <1>1, <1>3, <1>8, <1>10, <1>11, <1>12 DEF VersionSeen, Alike
  <2>4. MoveSeen(x)'
    BY <1>3, <1>8 DEF MoveSeen, Alike
  <2> QED BY <1>3, <1>4, <1>9, <2>1, <2>2, <2>3, <2>4 DEF HandOK
<1>14. VersionsTypes'
  BY <1>3, <1>7, <1>11, VersionParts DEF VersionsTypes, StorageTypeOK
<1>15. Works(r, c, x)
  <2>1. \A f \in Known(c) : file'[f] = NoFile \/ (Exists(f) /\ file'[f].name = file[f].name)
    BY <1>3 DEF Exists
  <2> QED BY <1>1, <1>3, <1>8, <1>9, <1>11, <2>1 DEF Works, Alike
<1>16. ShowsNow(v, c, x)
  BY <1>9, <1>10, <1>11, <1>12 DEF ShowsNow
<1>17. RowOK(v)'
  BY <1>11, <1>12 DEF RowOK
<1> QED BY <1>0, <1>1, <1>4, <1>13, <1>14, <1>15, <1>16, <1>17, WorkKeeps

LEMMA SaverIs ==
  ASSUME VersionsInv, NEW r \in Requests, NEW c, c = req[r], c.writes, c.adds = {}, c.op = "update",
         NEW v, v = c.of, LiveVersion(v)
  PROVE  /\ Readable(c.read) /\ c.read.file \in Files /\ c.read.shots \subseteq Files
         /\ c.removed \subseteq c.read.shots /\ c.stage = "none" /\ UploadsOK(c)
         /\ FriendlyAccepted(c.dto, c.read)
         /\ c.record = None /\ c.gone = {} /\ c.emptied = None
         /\ c.fresh # None <=> c.dto.name # None
         /\ c.fresh # None => /\ c.dto.name \in c.names /\ c.dto.name \in Names
                              /\ file[c.fresh] = Slot(c) /\ Slot(c) \in Keys
                              /\ Slot(c).name = c.dto.name /\ c.fresh \in Own(c)
                              /\ c.dto.name \notin raced => stored[Slot(c)] = c.fresh
         /\ c.shots \subseteq Own(c) /\ \A f \in c.shots : Exists(f) /\ IsShot(f)
         /\ v \notin clashed => SameRow(v, c.read)
<1>1. /\ c \in Jobs /\ JobOK(c) /\ FilesSeen(c) /\ VersionSeen(c)
  BY HandAtWork
<1>2. /\ Readable(c.read) /\ c.stage = "none" /\ UploadsOK(c)
      /\ c.record = None /\ c.gone = {} /\ c.emptied = None /\ c.removed \subseteq c.read.shots
      /\ FriendlyAccepted(c.dto, c.read) /\ (c.dto.name # None => c.dto.name \in c.names)
  BY <1>1, JobFields DEF JobOK
<1>3. c.read.file \in Files /\ c.read.shots \subseteq Files
  BY <1>1, <1>2, JobFields, VersionFields DEF Readable
<1>4. c.fresh # None <=> c.dto.name # None
  BY <1>2 DEF UploadsOK
<1>5. c.names \subseteq Names
  BY <1>1, JobFields
<1>6. c.fresh # None => /\ c.dto.name \in c.names /\ c.dto.name \in Names
                        /\ file[c.fresh] = Slot(c) /\ Slot(c) \in Keys
                        /\ Slot(c).name = c.dto.name /\ c.fresh \in Own(c)
                        /\ c.dto.name \notin raced => stored[Slot(c)] = c.fresh
  BY <1>1, <1>2, <1>4, <1>5 DEF FilesSeen, Slot, Keys, Buckets, Own
<1>7. c.shots \subseteq Own(c) /\ \A f \in c.shots : Exists(f) /\ IsShot(f)
  BY <1>1 DEF Own, FilesSeen
<1>8. v \notin clashed => SameRow(v, c.read)
  BY <1>1 DEF VersionSeen
<1> QED BY <1>2, <1>3, <1>4, <1>6, <1>7, <1>8

LEMMA SaveVersionKeeps ==
  ASSUME VersionsInv, NEW r \in Requests, SaveVersion(r) PROVE VersionsInv'
<1>0. PICK c : c = req[r]
  OBVIOUS
<1>1. PICK v : v = c.of
  OBVIOUS
<1>2. PICK y : y = Rewritten(version[v], c)
  OBVIOUS
<1>3. PICK syncs \in BOOLEAN : syncs = \/ c.fresh # None
                                       \/ <<y.friendly, y.to>> # <<c.read.friendly, c.read.to>>
  OBVIOUS
<1>4. PICK previous : previous = {c.read.file : f \in {c.fresh} \ {None}}
  OBVIOUS
<1>5. PICK x : x = [c EXCEPT !.writes = FALSE, !.record = IF c.over THEN c.read.file ELSE None,
                             !.gone = c.removed \union (IF c.over THEN {} ELSE previous),
                             !.syncs = syncs]
  OBVIOUS
<1>6. PICK d \in {NoJob, x} : d = Remaining(x)
  BY RemainingIs
<1>7. /\ c.writes /\ c.adds = {} /\ c.op = "update" /\ LiveVersion(v)
      /\ version' = [version EXCEPT ![v] = y] /\ req' = [req EXCEPT ![r] = d]
      /\ UNCHANGED <<mission, file, stored, uploads, faults, judged, clashed, cut, raced>>
  BY <1>0, <1>1, <1>2, <1>3, <1>4, <1>5, <1>6 DEF SaveVersion, MayStore
<1>8. /\ c \in Jobs /\ v \in Versions /\ JobOK(c) /\ FilesSeen(c) /\ VersionSeen(c) /\ RowOK(v)
      /\ Own(c) \union Known(c) \subseteq 1..uploads /\ version[v] \in VersionRows
      /\ Own(c) \subseteq Files
  BY <1>0, <1>1, <1>7, HandAtWork
<1>9. /\ Readable(c.read) /\ c.read.file \in Files /\ c.read.shots \subseteq Files
      /\ c.removed \subseteq c.read.shots /\ c.stage = "none" /\ UploadsOK(c)
      /\ FriendlyAccepted(c.dto, c.read)
      /\ c.record = None /\ c.gone = {} /\ c.emptied = None
      /\ c.fresh # None <=> c.dto.name # None
      /\ c.fresh # None => /\ c.dto.name \in c.names /\ c.dto.name \in Names
                           /\ file[c.fresh] = Slot(c) /\ Slot(c) \in Keys
                           /\ Slot(c).name = c.dto.name /\ c.fresh \in Own(c)
                           /\ c.dto.name \notin raced => stored[Slot(c)] = c.fresh
      /\ c.shots \subseteq Own(c) /\ \A f \in c.shots : Exists(f) /\ IsShot(f)
      /\ v \notin clashed => SameRow(v, c.read)
  BY <1>0, <1>1, <1>7, SaverIs
<1>10. /\ y \in VersionRows /\ y.file = Or(c.fresh, version[v].file)
       /\ y.shots = (version[v].shots \ c.removed) \union c.shots
       /\ y.attack = Or(c.dto.attack, version[v].attack)
       /\ y.defense = Or(c.dto.defense, version[v].defense)
       /\ y.friendly = FriendlySide(c, version[v]).friendly /\ y.to = FriendlySide(c, version[v]).to
       /\ y.status = IF Resubmits(c) THEN "PENDING_APPROVAL" ELSE version[v].status
  BY <1>2, <1>8, RewrittenIs
<1>11. /\ version'[v] = y /\ version' \in [Versions -> VersionRows]
       /\ \A w \in Versions : w # v => version'[w] = version[w]
  BY <1>7, <1>8, <1>10, VersionParts
<1>12. y.file = IF c.fresh # None THEN c.fresh ELSE version[v].file
  BY <1>10 DEF Or
<1>13. y.status \in Statuses /\ LiveVersion(v)' /\ y.status # "none"
  BY <1>7, <1>10, <1>11 DEF LiveVersion, Statuses
<1>14. /\ Alike(c, x) /\ x.adds = {} /\ x.fresh = c.fresh /\ x.shots = c.shots /\ ~x.writes
       /\ x.stage = "none" /\ x.emptied = None /\ x.record \in {None, c.read.file}
       /\ x.gone \subseteq c.read.shots \union {c.read.file}
       /\ c.read.file \in x.gone => c.fresh # None /\ ~c.over
       /\ x \in Jobs
  <2>1. PICK rec : rec = IF c.over THEN c.read.file ELSE None
    OBVIOUS
  <2>2. PICK gone : gone = c.removed \union (IF c.over THEN {} ELSE previous)
    OBVIOUS
  <2>3. /\ rec \in {None, c.read.file} /\ gone \subseteq c.read.shots \union {c.read.file}
        /\ c.read.file \in gone => c.fresh # None /\ ~c.over
    BY <1>4, <1>9, <2>1, <2>2 DEF Readable
  <2>4. x = [c EXCEPT !.writes = FALSE, !.record = rec, !.gone = gone, !.syncs = syncs]
    BY <1>5, <2>1, <2>2
  <2>5. rec \in Files \union {None} /\ gone \subseteq Files
    BY <1>9, <2>3
  <2>6. x \in Jobs /\ x.record = rec /\ x.gone = gone
    <3>1. \A f \in Files \union {None}, g \in SUBSET Files, s \in BOOLEAN :
            [c EXCEPT !.writes = FALSE, !.record = f, !.gone = g, !.syncs = s] \in Jobs
      BY <1>8 DEF Jobs
    <3>2. x \in Jobs
      BY <1>3, <2>4, <2>5, <3>1
    <3>3. x.record = rec /\ x.gone = gone
      BY <1>8, <2>4 DEF Jobs
    <3> QED BY <3>2, <3>3
  <2>7. /\ Alike(c, x) /\ x.adds = {} /\ x.fresh = c.fresh /\ x.shots = c.shots /\ ~x.writes
        /\ x.stage = "none" /\ x.emptied = None
    BY <1>7, <1>8, <1>9, <2>4 DEF Alike, Jobs
  <2> QED BY <2>3, <2>6, <2>7
<1>15. Own(x) = {} /\ Known(x) \subseteq Known(c) \union Own(c)
  <2>1. c.read.file \in Known(c) \union {None} /\ c.read.shots \subseteq Known(c) \union {None}
        /\ x.gone \subseteq Known(c) \union {None}
    BY <1>14 DEF Known
  <2>2. c.fresh \in Own(c) \union {None}
    BY <1>9
  <2> QED BY <1>9, <1>14, <2>1, <2>2 DEF Own, Known, Alike
<1>16. HandOK(x)'
  <2>1. JobOK(x)
    <3>1. /\ c.dto.name # None => c.dto.name \in c.names
          /\ FriendlyAccepted(c.dto, c.read) /\ Readable(c.read)
      BY <1>9
    <3> QED BY <1>7, <1>8, <1>9, <1>14, <3>1 DEF JobOK, Alike
  <2>2. FilesSeen(x)'
    <3>1. /\ \A f \in c.read.shots \union c.shots : Exists(f) => IsShot(f)
          /\ c.read.file # None /\ Exists(c.read.file) => file[c.read.file].name \in c.names
      BY <1>8 DEF FilesSeen
    <3> QED BY <1>7, <1>14, <3>1 DEF FilesSeen, Alike, Exists, IsShot
  <2>3. VersionSeen(x)'
    <3>1. /\ x.op = "update" /\ ~x.writes /\ x.of = v /\ x.fresh = c.fresh /\ x.over = c.over
          /\ x.read = c.read /\ x.stage = "none" /\ Slot(x) = Slot(c)
      BY <1>1, <1>7, <1>14 DEF Alike, Slot
    <3>2. c.fresh # None => version'[v].file = c.fresh /\ file'[c.fresh] = Slot(c)
      BY <1>7, <1>9, <1>11, <1>12
    <3>3. v \notin clashed /\ ~c.over /\ Exists(c.read.file)' => file'[c.read.file] # Slot(c)
      BY <1>1, <1>7, <1>8 DEF VersionSeen, Exists
    <3> QED BY <1>7, <1>11, <1>13, <3>1, <3>2, <3>3 DEF VersionSeen, Slot
  <2>4. MoveSeen(x)'
    BY <1>7, <1>14 DEF MoveSeen, Alike
  <2> QED BY <1>7, <1>8, <1>15, <2>1, <2>2, <2>3, <2>4 DEF HandOK
<1>17. VersionsTypes'
  BY <1>6, <1>7, <1>11, <1>14, IdleJob, VersionParts DEF VersionsTypes, StorageTypeOK
<1>18. /\ d = NoJob \/ d.of = c.of
       /\ d.names \subseteq c.names /\ d.op # "create"
       /\ Own(d) = {} /\ Known(d) \subseteq Known(c) \union Own(c) /\ d.stage = "none"
       /\ HandOK(d)'
  <2>1. CASE d = NoJob
    BY <2>1, IdleJob, IdleHand
  <2>2. CASE d = x
    BY <2>2, <1>7, <1>14, <1>15, <1>16 DEF Alike
  <2> QED BY <1>6, <2>1, <2>2
<1>19. Works(r, c, d)
  <2>1. \A f \in Known(c) : file'[f] = NoFile \/ (Exists(f) /\ file'[f].name = file[f].name)
    BY <1>7 DEF Exists
  <2> QED BY <1>1, <1>7, <1>11, <1>18, <2>1 DEF Works
<1>20. version[v].file # None /\ {version[v].attack, version[v].defense} \subseteq Sides
  BY <1>7, <1>8 DEF RowOK
<1>21. OnShow(v)' = {y.file} \union y.shots /\ OnShow(v)' \subseteq OnShow(v) \union Own(c)
  <2>1. y.file # None
    BY <1>12, <1>20
  <2> QED BY <1>9, <1>10, <1>11, <1>12, <1>20, <2>1 DEF OnShow
<1>22. NameOf(v)' = IF c.fresh # None THEN c.dto.name ELSE NameOf(v)
  BY <1>7, <1>9, <1>11, <1>12 DEF NameOf
<1>23. ShowsNow(v, c, d)
  BY <1>7, <1>9, <1>11, <1>13, <1>18, <1>21, <1>22 DEF ShowsNow
<1>24. RowOK(v)'
  <2>1. /\ \A f \in OnShow(v) : Exists(f)
        /\ \A f \in version[v].shots : IsShot(f)
        /\ NameOf(v) \in Names /\ OnShow(v) \subseteq 1..uploads
    BY <1>7, <1>8 DEF RowOK
  <2>2. y.file # None /\ {y.attack, y.defense} \subseteq Sides
    BY <1>10, <1>12, <1>20, JobFields, <1>8 DEF Or, Bodies, MaybeSide
  <2>3. c.fresh # None => Exists(c.fresh)
    BY <1>9, NumbersAndNames DEF Exists
  <2>4. \A f \in OnShow(v)' : Exists(f)'
    <3>1. \A f \in OnShow(v)' : f \in OnShow(v) \/ f \in c.shots \/ (c.fresh # None /\ f = c.fresh)
      BY <1>10, <1>12, <1>20, <1>21 DEF OnShow
    <3>2. \A f : Exists(f)' <=> Exists(f)
      BY <1>7 DEF Exists
    <3> QED BY <1>9, <2>1, <2>3, <3>1, <3>2
  <2>5. \A f \in y.shots : IsShot(f)'
    BY <1>7, <1>9, <1>10, <2>1 DEF IsShot
  <2>6. NameOf(v)' \in Names
    BY <1>9, <1>22, <2>1
  <2>7. v \notin clashed => ValidSides(y)
    <3>1. SUFFICES ASSUME v \notin clashed PROVE ValidSides(y)
      OBVIOUS
    <3>2. SameRow(v, c.read) /\ c.read \in VersionRows
      BY <1>8, <1>9, <3>1, JobFields
    <3>3. /\ version[v].attack = c.read.attack /\ version[v].defense = c.read.defense
          /\ version[v].friendly = c.read.friendly /\ version[v].to = c.read.to
      BY <3>2 DEF SameRow, VersionRows
    <3> QED BY <1>8, <1>9, <1>10, <3>3, WrittenSidesAreValid
  <2>8. ASSUME v \notin clashed \union cut, y.status = "APPROVED"
        PROVE  /\ y.file = judged[v]
               /\ file[y.file].bucket # "testing-missions" \/ Moving(v, "decide")'
    <3>1. ~Resubmits(c)
      BY <1>10, <2>8
    <3>2. c.fresh = None /\ version[v].status = "APPROVED"
      BY <1>9, <1>10, <2>8, <3>1 DEF Resubmits
    <3>3. /\ version[v].file = judged[v]
          /\ file[version[v].file].bucket # "testing-missions" \/ Moving(v, "decide")
      BY <1>7, <1>8, <2>8, <3>2 DEF RowOK
    <3>4. Moving(v, "decide") => Moving(v, "decide")'
      BY <1>0, <1>7, <1>9, VersionParts, AsksKept
    <3> QED BY <1>12, <3>2, <3>3, <3>4
  <2>9. ASSUME v \notin clashed \union cut, NameOf(v)' \notin raced
        PROVE  Served(version[v].file)' \/ Moving(v, "rebucket")' \/ Replacing(v)'
    <3>1. CASE c.fresh # None
      BY <1>7, <1>9, <1>11, <1>12, <1>22, <2>9, <3>1 DEF Served
    <3>2. CASE c.fresh = None
      <4>1. Served(version[v].file) \/ Moving(v, "rebucket") \/ Replacing(v)
        BY <1>7, <1>8, <1>22, <2>9, <3>2 DEF RowOK
      <4>2. /\ Moving(v, "rebucket") => Moving(v, "rebucket")'
            /\ Replacing(v) => Replacing(v)'
        BY <1>0, <1>7, <1>9, <3>2, VersionParts, AsksKept
      <4>3. Served(version[v].file) => Served(version[v].file)'
        BY <1>7, <1>11, <1>12, <3>2 DEF Served
      <4> QED BY <4>1, <4>2, <4>3
    <3> QED BY <3>1, <3>2
  <2>10. OnShow(v)' \subseteq 1..uploads
    BY <1>8, <1>21, <2>1
  <2> QED BY <1>7, <1>11, <1>13, <2>2, <2>4, <2>5, <2>6, <2>7, <2>8, <2>9, <2>10 DEF RowOK
<1> QED BY <1>0, <1>1, <1>8, <1>17, <1>18, <1>19, <1>23, <1>24, WorkKeeps

-----------------------------------------------------------------------------
(* VERSIONS.  A handler reads, checks and is given its numbers.            *)

LEMMA UploadsAre ==
  ASSUME NEW dto \in Bodies, NEW n, n = Given(dto) + dto.shots, uploads \in Nat,
         uploads + n <= MaxFiles, NEW adds, adds = MissionFile(dto) \union Screenshots(dto)
  PROVE  /\ n \in Nat /\ adds \subseteq Uploads
         /\ \A t \in adds :
              /\ t.file \in (uploads + 1)..(uploads + n)
              /\ t.key = IF IsMissionFile(t)
                         THEN [bucket |-> "testing-missions", name |-> dto.name]
                         ELSE [bucket |-> "mission-images", name |-> t.file]
         /\ \A s, t \in adds : s.file = t.file \/ (IsMissionFile(s) /\ IsMissionFile(t)) => s = t
         /\ dto.name # None <=> \E t \in adds : IsMissionFile(t)
<1>1. dto.shots \in Nat /\ dto.name \in Names \union {None}
  BY DEF Bodies
<1>2. Given(dto) \in {0, 1} /\ (dto.name # None <=> Given(dto) = 1) /\ MaxFiles \in Nat
  BY NumbersAndNames DEF Given
<1>3. n \in Nat
  BY <1>1, <1>2
<1>4. ASSUME NEW i \in 1..n
      PROVE  uploads + i \in Files /\ uploads + i \in (uploads + 1)..(uploads + n)
  BY <1>2, <1>3 DEF Files
<1>5. ASSUME NEW t \in MissionFile(dto)
      PROVE  /\ t = [file |-> uploads + 1,
                     key |-> [bucket |-> "testing-missions", name |-> dto.name]]
             /\ Given(dto) = 1 /\ dto.name \in Names
  <2>1. PICK i \in 1..Given(dto) : t = Numbered(i, "testing-missions", dto.name)
    BY DEF MissionFile
  <2>2. i = 1 /\ Given(dto) = 1 /\ dto.name # None
    BY <1>2, <2>1
  <2> QED BY <1>1, <2>1, <2>2 DEF Numbered
<1>6. ASSUME NEW t \in Screenshots(dto)
      PROVE  \E i \in (Given(dto) + 1)..n :
               t = [file |-> uploads + i,
                    key |-> [bucket |-> "mission-images", name |-> uploads + i]]
  BY <1>6 DEF Screenshots, Numbered
<1>7. ASSUME NEW t \in adds
      PROVE  \/ t \in MissionFile(dto) /\ IsMissionFile(t)
             \/ t \in Screenshots(dto) /\ ~IsMissionFile(t)
  BY <1>5, <1>6, <1>7 DEF IsMissionFile
<1>8. ASSUME NEW t \in adds
      PROVE  /\ t \in Uploads /\ t.file \in (uploads + 1)..(uploads + n)
             /\ t.key = IF IsMissionFile(t)
                        THEN [bucket |-> "testing-missions", name |-> dto.name]
                        ELSE [bucket |-> "mission-images", name |-> t.file]
  <2>1. CASE t \in MissionFile(dto) /\ IsMissionFile(t)
    <3>1. uploads + 1 \in Files /\ uploads + 1 \in (uploads + 1)..(uploads + n)
      BY <1>1, <1>3, <1>4, <1>5, <2>1
    <3> QED BY <1>5, <2>1, <3>1 DEF Uploads, Keys, Buckets
  <2>2. CASE t \in Screenshots(dto) /\ ~IsMissionFile(t)
    <3>1. PICK i \in (Given(dto) + 1)..n :
            t = [file |-> uploads + i,
                 key |-> [bucket |-> "mission-images", name |-> uploads + i]]
      BY <1>6, <2>2
    <3>2. i \in 1..n
      BY <1>2, <1>3
    <3> QED BY <1>4, <2>2, <3>1, <3>2 DEF Uploads, Keys, Buckets
  <2> QED BY <1>7, <2>1, <2>2
<1>9. ASSUME NEW s \in adds, NEW t \in adds, s.file = t.file \/ (IsMissionFile(s) /\ IsMissionFile(t))
      PROVE  s = t
  <2>1. CASE IsMissionFile(s) /\ IsMissionFile(t)
    <3>1. s \in MissionFile(dto) /\ t \in MissionFile(dto)
      BY <1>7, <2>1
    <3> QED BY <1>5, <3>1
  <2>2. CASE ~IsMissionFile(s) /\ ~IsMissionFile(t)
    <3>1. s \in Screenshots(dto) /\ t \in Screenshots(dto) /\ s.file = t.file
      BY <1>7, <1>9, <2>2
    <3> QED BY <1>6, <3>1
  <2>3. ASSUME NEW a \in MissionFile(dto), NEW b \in Screenshots(dto) PROVE a.file # b.file
    <3>1. a.file = uploads + 1 /\ Given(dto) = 1
      BY <1>5
    <3>2. PICK i \in 2..n : b.file = uploads + i
      BY <1>6, <3>1
    <3> QED BY <1>3, <3>1, <3>2
  <2> QED BY <1>7, <1>9, <2>1, <2>2, <2>3
<1>10. dto.name # None <=> \E t \in adds : IsMissionFile(t)
  <2>1. ASSUME dto.name # None PROVE \E t \in adds : IsMissionFile(t)
    <3>1. Numbered(1, "testing-missions", dto.name) \in MissionFile(dto)
      BY <1>2, <2>1 DEF MissionFile
    <3>2. IsMissionFile(Numbered(1, "testing-missions", dto.name))
      BY DEF IsMissionFile, Numbered
    <3> QED BY <3>1, <3>2
  <2>2. ASSUME NEW t \in adds, IsMissionFile(t) PROVE dto.name # None
    BY <1>2, <1>5, <1>7, <2>2
  <2> QED BY <2>1, <2>2
<1> QED BY <1>3, <1>8, <1>9, <1>10

\* What is known of a version that a handler reads.
LEMMA LiveRead ==
  ASSUME VersionsInv, NEW v \in Versions, LiveVersion(v)
  PROVE  /\ version[v] \in VersionRows /\ Readable(version[v]) /\ SameRow(v, version[v])
         /\ NameOf(v) \in Names /\ version[v].status # "none"
         /\ Exists(version[v].file) /\ version[v].file # None
         /\ \A f \in version[v].shots : IsShot(f)
<1>1. RowOK(v) /\ version[v] \in VersionRows
  BY VersionParts
<1>2. /\ version[v].file # None /\ {version[v].attack, version[v].defense} \subseteq Sides
      /\ \A f \in OnShow(v) : Exists(f)
      /\ \A f \in version[v].shots : IsShot(f)
      /\ NameOf(v) \in Names
  BY <1>1 DEF RowOK
<1>3. version[v].file \in Files /\ version[v].shots \subseteq Files
  BY <1>1, <1>2, VersionFields
<1>4. version[v].file \notin version[v].shots
  BY <1>2, <1>3, NumbersAndNames DEF IsShot, NameOf
<1>5. version[v] = [version[v] EXCEPT !.shots = version[v].shots]
  BY <1>1 DEF VersionRows
<1>6. version[v].file \in OnShow(v)
  BY <1>2 DEF OnShow
<1> QED BY <1>1, <1>2, <1>3, <1>4, <1>5, <1>6 DEF LiveVersion, Readable, SameRow, Statuses

\* The histories grow.
Grows ==
  /\ UNCHANGED <<version, file, stored, judged, cut>>
  /\ clashed \subseteq clashed' /\ raced \subseteq raced' /\ 1..uploads \subseteq 1..uploads'

LEMMA HandStill == ASSUME Grows, NEW e, HandOK(e) PROVE HandOK(e)'
<1>1. JobOK(e)'
  BY DEF HandOK, JobOK, UploadsOK
<1>2. FilesSeen(e)'
  BY DEF Grows, HandOK, FilesSeen, Exists, IsShot, Slot
<1>3. VersionSeen(e)'
  BY DEF Grows, HandOK, VersionSeen, LiveVersion, SameRow, Exists, Slot
<1>4. MoveSeen(e)'
  BY DEF Grows, HandOK, MoveSeen, CopyKey, Served
<1> QED BY <1>1, <1>2, <1>3, <1>4 DEF Grows, HandOK

LEMMA HandsStill ==
  ASSUME Grows, NEW e, NEW g PROVE HandsApart(e, g) => HandsApart(e, g)'
BY DEF Grows, HandsApart

LEMMA HandAndRowStill ==
  ASSUME Grows, NEW e, NEW v PROVE HandAndRow(e, v) => HandAndRow(e, v)'
BY DEF Grows, HandAndRow, OnShow, LiveVersion, NameOf

LEMMA RowsStill ==
  ASSUME Grows, NEW v, NEW w PROVE RowsApart(v, w) => RowsApart(v, w)'
BY DEF Grows, RowsApart, OnShow, LiveVersion, NameOf

LEMMA RowGrows ==
  ASSUME Grows, NEW v \in Versions, RowOK(v),
         Moving(v, "decide") => Moving(v, "decide")',
         Moving(v, "rebucket") => Moving(v, "rebucket")', Replacing(v) => Replacing(v)'
  PROVE  RowOK(v)'
<1>1. /\ OnShow(v)' = OnShow(v) /\ (LiveVersion(v)' <=> LiveVersion(v)) /\ NameOf(v)' = NameOf(v)
      /\ \A f : (Exists(f)' <=> Exists(f)) /\ (IsShot(f)' <=> IsShot(f))
      /\ Served(version[v].file)' <=> Served(version[v].file)
  BY DEF Grows, OnShow, LiveVersion, NameOf, Exists, IsShot, Served
<1>2. OnShow(v)' \subseteq 1..uploads' /\ (~LiveVersion(v)' => version'[v] \in {NoVersion, GoneVersion})
  BY <1>1 DEF Grows, RowOK
<1>3. ASSUME LiveVersion(v)
      PROVE  /\ version[v].file # None /\ {version[v].attack, version[v].defense} \subseteq Sides
             /\ \A f \in OnShow(v) : Exists(f)
             /\ \A f \in version[v].shots : IsShot(f)
             /\ NameOf(v) \in Names
             /\ v \notin clashed' => ValidSides(version[v])
             /\ v \notin clashed' \union cut =>
                  /\ version[v].status = "APPROVED" =>
                       /\ version[v].file = judged[v]
                       /\ file[version[v].file].bucket # "testing-missions" \/ Moving(v, "decide")
                  /\ NameOf(v) \notin raced' =>
                       Served(version[v].file) \/ Moving(v, "rebucket") \/ Replacing(v)
  BY <1>3 DEF Grows, RowOK
<1> QED BY <1>1, <1>2, <1>3 DEF Grows, RowOK

\* Old: the handlers that are at work already.
LEMMA TakeKeeps ==
  ASSUME VersionsInv, NEW r \in Requests, NEW j \in Jobs, Take(r, j),
         j.op # "idle", JobOK(j), FilesSeen(j), VersionSeen(j), j.stage \in {"none", "copy"},
         NEW n \in Nat, n = Given(j.dto) + j.dto.shots,
         Own(j) \subseteq (uploads + 1)..(uploads + n), Known(j) \subseteq OnShow(j.of),
         IF j.op = "create" THEN \A q \in Requests : req[q].of # j.of ELSE LiveVersion(j.of),
         \A w \in Versions : w # j.of /\ LiveVersion(w) /\ NameOf(w) \in j.names => NameOf(w) \in raced
  PROVE  VersionsInv'
<1>1. PICK v \in Versions : v = j.of
  BY DEF JobOK
<1>2. /\ req[r].op = "idle" /\ uploads + n <= MaxFiles /\ uploads' = uploads + n
      /\ req' = [req EXCEPT ![r] = j]
      /\ clashed' = clashed \union {o \in {v} : \E q \in Requests : req[q].of = o}
      /\ raced' = raced \union UNION {j.names \intersect req[q].names : q \in Requests}
      /\ UNCHANGED <<mission, version, file, stored, faults, judged, cut>>
  BY <1>1 DEF Take, Begin
<1>3. req[r] = NoJob
  BY <1>2, VersionParts DEF HandOK, JobOK
<1>4. uploads \in Nat /\ MaxFiles \in Nat /\ uploads' \in 0..MaxFiles
  BY <1>2, VersionParts, NumbersAndNames
<1>5. Grows
  BY <1>2, <1>4 DEF Grows
<1>6. req'[r] = j /\ \A q \in Requests : q # r => req'[q] = req[q]
  BY <1>2, VersionParts
<1>7. j.names \subseteq Names
  BY JobFields
<1>8. VersionsTypes'
  <2>1. req' \in [Requests -> Jobs]
    BY <1>2, VersionParts
  <2>2. clashed' \subseteq Versions /\ raced' \subseteq Names
    BY <1>1, <1>2, <1>7, VersionParts
  <2> QED BY <1>2, <1>4, <2>1, <2>2, VersionParts DEF VersionsTypes, StorageTypeOK
<1>9. OnShow(v) \subseteq 1..uploads /\ \A w \in Versions : OnShow(w) \subseteq 1..uploads
  BY VersionParts DEF RowOK
<1>10. HandOK(j)'
  <2>1. MoveSeen(j)
    BY DEF MoveSeen
  <2>2. Own(j) \union Known(j) \subseteq 1..uploads' /\ Own(j) \intersect Known(j) = {}
    BY <1>1, <1>2, <1>4, <1>9
  <2>3. JobOK(j)'
    BY DEF JobOK, UploadsOK
  <2>4. FilesSeen(j)'
    BY <1>5 DEF Grows, FilesSeen, Exists, IsShot, Slot
  <2>5. VersionSeen(j)'
    BY <1>5 DEF Grows, VersionSeen, LiveVersion, SameRow, Exists, Slot
  <2>6. MoveSeen(j)'
    BY DEF MoveSeen
  <2> QED BY <2>2, <2>3, <2>4, <2>5, <2>6 DEF HandOK
<1>11. ASSUME NEW q \in Requests PROVE HandOK(req[q])'
  <2>1. CASE q = r
    BY <1>6, <1>10, <2>1
  <2>2. CASE q # r
    <3>1. PICK e : e = req[q]
      OBVIOUS
    <3>2. HandOK(e)'
      BY <1>5, <3>1, HandStill, VersionParts
    <3> QED BY <1>6, <2>2, <3>1, <3>2
  <2> QED BY <2>1, <2>2
<1>12. ASSUME NEW q \in Requests, q # r, NEW e, e = req[q]
       PROVE  HandsApart(j, e)' /\ HandsApart(e, j)'
  <2>1. HandOK(e) /\ HandAndRow(e, v)
    BY <1>12, VersionParts
  <2>2. Own(e) \union Known(e) \subseteq 1..uploads
    BY <2>1 DEF HandOK
  <2>3. Own(j) \intersect (1..uploads) = {}
    BY <1>4
  <2>4. Own(e) \intersect Known(j) = {} /\ (e.of # v => Known(j) \intersect Known(e) = {})
    BY <1>1, <2>1 DEF HandAndRow
  <2>5. j.of = e.of => j.of \in clashed' /\ j.op # "create" /\ e.op # "create"
    <3>1. j.of = e.of => j.of \in clashed' /\ j.op # "create" /\ LiveVersion(v)
      BY <1>1, <1>2, <1>12
    <3>2. e.op = "create" => version[e.of] = NoVersion
      BY <2>1 DEF HandOK, VersionSeen
    <3>3. ~(NoVersion.status \in Statuses)
      BY IdleJob DEF Statuses
    <3> QED BY <1>1, <3>1, <3>2, <3>3 DEF LiveVersion
  <2>6. j.names \intersect e.names \subseteq raced'
    BY <1>2, <1>12
  <2>7. Own(j) \intersect (Own(e) \union Known(e)) = {}
    BY <2>2, <2>3
  <2> QED BY <1>1, <2>4, <2>5, <2>6, <2>7 DEF HandsApart
<1>13. ASSUME NEW p \in Requests, NEW q \in Requests, p # q PROVE HandsApart(req[p], req[q])'
  <2>1. PICK e : e = req[p]
    OBVIOUS
  <2>2. PICK g : g = req[q]
    OBVIOUS
  <2>3. CASE p = r
    <3>1. HandsApart(j, g)'
      BY <1>12, <1>13, <2>2, <2>3
    <3> QED BY <1>6, <1>13, <2>2, <2>3, <3>1
  <2>4. CASE q = r
    <3>1. HandsApart(e, j)'
      BY <1>12, <1>13, <2>1, <2>4
    <3> QED BY <1>6, <1>13, <2>1, <2>4, <3>1
  <2>5. CASE p # r /\ q # r
    <3>1. HandsApart(e, g)'
      BY <1>5, <1>13, <2>1, <2>2, HandsStill, VersionParts
    <3> QED BY <1>6, <2>1, <2>2, <2>5, <3>1
  <2> QED BY <2>3, <2>4, <2>5
<1>14. ASSUME NEW w \in Versions PROVE HandAndRow(j, w)'
  <2>1. Own(j) \intersect OnShow(w) = {}
    BY <1>4, <1>9
  <2>2. v # w => Known(j) \intersect OnShow(w) = {}
    <3>1. v # w => RowsApart(v, w)
      BY VersionParts
    <3> QED BY <1>1, <3>1 DEF RowsApart
  <2>3. HandAndRow(j, w)
    BY <1>1, <2>1, <2>2 DEF HandAndRow
  <2> QED BY <1>5, <2>3, HandAndRowStill
<1>15. ASSUME NEW q \in Requests, NEW w \in Versions PROVE HandAndRow(req[q], w)'
  <2>1. CASE q = r
    BY <1>6, <1>14, <2>1
  <2>2. CASE q # r
    <3>1. PICK e : e = req[q]
      OBVIOUS
    <3>2. HandAndRow(e, w)'
      BY <1>5, <3>1, HandAndRowStill, VersionParts
    <3> QED BY <1>6, <2>2, <3>1, <3>2
  <2> QED BY <2>1, <2>2
<1>16. ASSUME NEW w \in Versions PROVE RowOK(w)'
  <2>1. /\ Moving(w, "decide") => Moving(w, "decide")'
        /\ Moving(w, "rebucket") => Moving(w, "rebucket")'
        /\ Replacing(w) => Replacing(w)'
    <3>1. \A q \in Requests : req[q].of = w => req'[q] = req[q]
      BY <1>3, <1>6, IdleJob, NumbersAndNames
    <3> QED BY <3>1 DEF Moving, Replacing
  <2>2. RowOK(w)
    BY VersionParts
  <2> QED BY <1>5, <2>1, <2>2, RowGrows
<1>17. ASSUME NEW w \in Versions, NEW u \in Versions, w # u PROVE RowsApart(w, u)'
  BY <1>5, <1>17, RowsStill, VersionParts
<1> QED BY <1>8, <1>11, <1>13, <1>15, <1>16, <1>17 DEF VersionsInv

\* No other version that is live has the name that a version has.
LEMMA OwnNameOnly ==
  ASSUME VersionsInv, NEW v \in Versions, LiveVersion(v),
         NEW w \in Versions, w # v, LiveVersion(w), NameOf(w) = NameOf(v)
  PROVE  NameOf(w) \in raced
BY VersionParts DEF RowsApart

LEMMA CreateKeeps ==
  ASSUME VersionsInv, NEW r \in Requests, NEW v \in Versions, NEW dto \in Asks,
         CreateMissionVersion(r, v, dto)
  PROVE  VersionsInv'
<1>1. dto \in Bodies
  BY MissionVersionsAssumption
<1>2. PICK adds : adds = MissionFile(dto) \union Screenshots(dto)
  OBVIOUS
<1>3. PICK j : j = [Writes(dto) EXCEPT !.op = "create", !.of = v, !.names = {dto.name}]
  OBVIOUS
<1>4. /\ version[v] = NoVersion /\ \A q \in Requests : req[q].of # v
      /\ None \notin {dto.name, dto.attack, dto.defense} /\ ~dto.clear
      /\ UniqueName(dto.name, None) /\ FriendlyAccepted(dto, NoVersion) /\ Take(r, j)
  BY <1>3 DEF CreateMissionVersion
<1>5. /\ j.op = "create" /\ j.of = v /\ j.names = {dto.name} /\ j.dto = dto /\ j.writes
      /\ j.adds = adds /\ j.read = NoVersion /\ j.fresh = None /\ j.shots = {} /\ j.removed = {}
      /\ ~j.over /\ j.record = None /\ j.gone = {} /\ j.emptied = None /\ ~j.syncs
      /\ j.stage = "none"
  BY <1>2, <1>3 DEF Writes, NoJob
<1>6. PICK n : n = Given(dto) + dto.shots
  OBVIOUS
<1>7. uploads \in Nat /\ uploads + n <= MaxFiles
  BY <1>4, <1>5, <1>6, VersionParts DEF Take, Begin
<1>8. /\ n \in Nat /\ adds \subseteq Uploads
      /\ \A t \in adds :
           /\ t.file \in (uploads + 1)..(uploads + n)
           /\ t.key = IF IsMissionFile(t)
                      THEN [bucket |-> "testing-missions", name |-> dto.name]
                      ELSE [bucket |-> "mission-images", name |-> t.file]
      /\ \A s, t \in adds : s.file = t.file \/ (IsMissionFile(s) /\ IsMissionFile(t)) => s = t
      /\ dto.name # None <=> \E t \in adds : IsMissionFile(t)
  BY <1>1, <1>2, <1>6, <1>7, UploadsAre
<1>9. dto.name \in Names /\ dto.attack \in Sides /\ dto.defense \in Sides
  BY <1>1, <1>4 DEF Bodies, MaybeSide
<1>10. j \in Jobs
  <2>1. PICK m \in Jobs : m = NoJob
    BY IdleJob
  <2>2. \A b \in Bodies, a \in SUBSET Uploads, names \in SUBSET Names :
          [[m EXCEPT !.dto = b, !.writes = TRUE, !.adds = a]
             EXCEPT !.op = "create", !.of = v, !.names = names] \in Jobs
    BY DEF Jobs
  <2>3. {dto.name} \in SUBSET Names /\ adds \in SUBSET Uploads
    BY <1>8, <1>9
  <2>4. j = [[m EXCEPT !.dto = dto, !.writes = TRUE, !.adds = adds]
                EXCEPT !.op = "create", !.of = v, !.names = {dto.name}]
    BY <1>2, <1>3, <2>1 DEF Writes
  <2> QED BY <1>1, <2>2, <2>3, <2>4
<1>11. UploadsOK(j)
  <2>1. \A t \in adds : t.file # None
    BY <1>8, NumbersAndNames DEF Uploads
  <2> QED BY <1>4, <1>5, <1>8, <2>1 DEF UploadsOK, Slot
<1>12. JobOK(j)
  BY <1>4, <1>5, <1>9, <1>11 DEF JobOK
<1>13. FilesSeen(j)
  BY <1>5, IdleJob DEF FilesSeen
<1>14. VersionSeen(j)
  BY <1>4, <1>5 DEF VersionSeen
<1>15. Own(j) \subseteq (uploads + 1)..(uploads + n)
  <2>1. Own(j) = {t.file : t \in adds}
    BY <1>5 DEF Own
  <2> QED BY <1>8, <2>1
<1>16. Known(j) \subseteq OnShow(j.of)
  BY <1>5, IdleJob DEF Known
<1>17. \A w \in Versions : w # v /\ LiveVersion(w) => NameOf(w) \notin j.names
  BY <1>4, <1>5, <1>9, NumbersAndNames DEF UniqueName
<1>18. j.op # "idle" /\ n = Given(j.dto) + j.dto.shots
  BY <1>5, <1>6
<1> QED BY <1>4, <1>5, <1>8, <1>10, <1>12, <1>13, <1>14, <1>15, <1>16, <1>17, <1>18, TakeKeeps

LEMMA UpdateKeeps ==
  ASSUME VersionsInv, NEW r \in Requests, NEW v \in Versions, NEW dto \in Asks,
         NEW removed \in SUBSET version[v].shots, UpdateMissionVersion(r, v, dto, removed)
  PROVE  VersionsInv'
<1>1. dto \in Bodies
  BY MissionVersionsAssumption
<1>2. PICK adds : adds = MissionFile(dto) \union Screenshots(dto)
  OBVIOUS
<1>3. PICK row : row = version[v]
  OBVIOUS
<1>4. PICK names : names = {dto.name, NameOf(v)} \ {None}
  OBVIOUS
<1>5. PICK over \in BOOLEAN :
        over = (file[row.file] = [bucket |-> "testing-missions", name |-> dto.name])
  OBVIOUS
<1>6. PICK j : j = [Writes(dto) EXCEPT
        !.op = "update", !.of = v, !.names = names, !.read = row, !.removed = removed,
        !.over = over]
  OBVIOUS
<1>7. /\ LiveVersion(v) /\ (dto.name # None => UniqueName(dto.name, NameOf(v)))
      /\ FriendlyAccepted(dto, row) /\ removed \subseteq row.shots /\ Take(r, j)
  BY <1>3, <1>4, <1>5, <1>6 DEF UpdateMissionVersion
<1>8. /\ j.op = "update" /\ j.of = v /\ j.names = names /\ j.dto = dto /\ j.writes
      /\ j.adds = adds /\ j.read = row /\ j.fresh = None /\ j.shots = {} /\ j.removed = removed
      /\ j.over = over /\ j.record = None /\ j.gone = {} /\ j.emptied = None /\ ~j.syncs
      /\ j.stage = "none"
  BY <1>2, <1>6 DEF Writes, NoJob
<1>9. PICK n : n = Given(dto) + dto.shots
  OBVIOUS
<1>10. uploads \in Nat /\ uploads + n <= MaxFiles
  BY <1>7, <1>8, <1>9, VersionParts DEF Take, Begin
<1>11. /\ n \in Nat /\ adds \subseteq Uploads
       /\ \A t \in adds :
            /\ t.file \in (uploads + 1)..(uploads + n)
            /\ t.key = IF IsMissionFile(t)
                       THEN [bucket |-> "testing-missions", name |-> dto.name]
                       ELSE [bucket |-> "mission-images", name |-> t.file]
       /\ \A s, t \in adds : s.file = t.file \/ (IsMissionFile(s) /\ IsMissionFile(t)) => s = t
       /\ dto.name # None <=> \E t \in adds : IsMissionFile(t)
  BY <1>1, <1>2, <1>9, <1>10, UploadsAre
<1>12. /\ row \in VersionRows /\ Readable(row) /\ SameRow(v, row) /\ NameOf(v) \in Names
       /\ row.status # "none" /\ Exists(row.file) /\ row.file # None
       /\ \A f \in row.shots : IsShot(f)
  BY <1>3, <1>7, LiveRead
<1>13. names \subseteq Names /\ NameOf(v) \in names /\ (dto.name # None => dto.name \in names)
  BY <1>1, <1>4, <1>12, NumbersAndNames DEF Bodies
<1>14. j \in Jobs
  <2>1. PICK m : m = Writes(dto)
    OBVIOUS
  <2>2. m \in Jobs
    <3>1. PICK z \in Jobs : z = NoJob
      BY IdleJob
    <3>2. \A a \in SUBSET Uploads : [z EXCEPT !.dto = dto, !.writes = TRUE, !.adds = a] \in Jobs
      BY <1>1 DEF Jobs
    <3> QED BY <1>2, <1>11, <2>1, <3>1, <3>2 DEF Writes
  <2>3. removed \in SUBSET Files /\ names \in SUBSET Names
    BY <1>7, <1>12, <1>13, VersionFields
  <2>4. PICK k \in Jobs : k = [m EXCEPT !.op = "update", !.of = v, !.over = over]
    <3>1. \A o \in BOOLEAN : [m EXCEPT !.op = "update", !.of = v, !.over = o] \in Jobs
      BY <2>2 DEF Jobs
    <3> QED BY <3>1
  <2>5. \A ns \in SUBSET Names, x \in VersionRows, g \in SUBSET Files :
          [k EXCEPT !.names = ns, !.read = x, !.removed = g] \in Jobs
    BY DEF Jobs
  <2>6. [k EXCEPT !.names = names, !.read = row, !.removed = removed] \in Jobs
    BY <1>12, <2>3, <2>5
  <2>7. j = [k EXCEPT !.names = names, !.read = row, !.removed = removed]
    BY <1>6, <2>1, <2>2, <2>4 DEF Jobs
  <2> QED BY <2>6, <2>7
<1>15. UploadsOK(j)
  <2>1. \A t \in adds : t.file # None
    BY <1>11, NumbersAndNames DEF Uploads
  <2> QED BY <1>8, <1>11, <2>1 DEF UploadsOK, Slot
<1>16. JobOK(j)
  BY <1>7, <1>8, <1>12, <1>13, <1>15 DEF JobOK
<1>17. FilesSeen(j)
  <2>1. file[row.file].name \in names
    BY <1>3, <1>13 DEF NameOf
  <2> QED BY <1>8, <1>12, <2>1 DEF FilesSeen
<1>18. VersionSeen(j)
  BY <1>3, <1>5, <1>8, <1>12 DEF VersionSeen, Slot
<1>19. Own(j) \subseteq (uploads + 1)..(uploads + n)
  <2>1. Own(j) = {t.file : t \in adds}
    BY <1>8 DEF Own
  <2> QED BY <1>11, <2>1
<1>20. Known(j) \subseteq OnShow(j.of)
  BY <1>3, <1>8 DEF Known, OnShow
<1>21. ASSUME NEW w \in Versions, w # v, LiveVersion(w), NameOf(w) \in j.names
       PROVE  NameOf(w) \in raced
  <2>1. NameOf(w) = NameOf(v)
    BY <1>4, <1>7, <1>8, <1>21 DEF UniqueName
  <2> QED BY <1>7, <1>21, <2>1, OwnNameOnly
<1>22. j.op # "idle" /\ n = Given(j.dto) + j.dto.shots
  BY <1>8, <1>9
<1> QED BY <1>7, <1>8, <1>11, <1>14, <1>16, <1>17, <1>18, <1>19, <1>20, <1>21, <1>22, TakeKeeps

\* A call that uploads nothing.
LEMMA AskKeeps ==
  ASSUME VersionsInv, NEW r \in Requests, NEW v \in Versions, LiveVersion(v),
         NEW j \in Jobs, Take(r, j), JobOK(j),
         j.op \in {"delete", "status"}, j.of = v, j.names = {NameOf(v)}, j.read = version[v],
         j.dto = NoBody, j.adds = {}, j.fresh = None, j.shots = {}, j.record = None, j.gone = {},
         j.emptied = None, j.stage \in {"none", "copy"}, j.op = "delete" => j.writes
  PROVE  VersionsInv'
<1>1. /\ SameRow(v, version[v]) /\ version[v].status # "none" /\ Exists(version[v].file)
      /\ \A f \in version[v].shots : IsShot(f)
      /\ version[v].file # None
  BY LiveRead
<1>2. FilesSeen(j)
  BY <1>1 DEF FilesSeen, NameOf
<1>3. VersionSeen(j)
  BY <1>1 DEF VersionSeen
<1>4. Own(j) = {} /\ Known(j) \subseteq OnShow(v)
  BY DEF Own, Known, OnShow
<1>5. 0 = Given(j.dto) + j.dto.shots /\ 0 \in Nat
  BY DEF Given, NoBody
<1>6. \A w \in Versions : w # v /\ LiveVersion(w) /\ NameOf(w) \in j.names => NameOf(w) \in raced
  BY OwnNameOnly
<1>7. Own(j) \subseteq (uploads + 1)..(uploads + 0)
  BY <1>4
<1>8. j.op # "idle" /\ j.op # "create"
  OBVIOUS
<1> QED BY <1>2, <1>3, <1>4, <1>5, <1>6, <1>7, <1>8, TakeKeeps

LEMMA DeleteKeeps ==
  ASSUME VersionsInv, NEW r \in Requests, NEW v \in Versions, DeleteMissionVersion(r, v)
  PROVE  VersionsInv'
<1>1. PICK row : row = version[v]
  OBVIOUS
<1>2. PICK j : j = [NoJob EXCEPT !.op = "delete", !.of = v, !.names = {NameOf(v)},
                                 !.read = row, !.writes = TRUE]
  OBVIOUS
<1>3. LiveVersion(v) /\ Take(r, j)
  BY <1>1, <1>2 DEF DeleteMissionVersion
<1>4. row \in VersionRows /\ Readable(row) /\ NameOf(v) \in Names
  BY <1>1, <1>3, LiveRead
<1>5. j \in Jobs
  <2>1. PICK m \in Jobs : m = NoJob
    BY IdleJob
  <2>2. \A ns \in SUBSET Names, x \in VersionRows :
          [m EXCEPT !.op = "delete", !.of = v, !.names = ns, !.read = x, !.writes = TRUE] \in Jobs
    BY DEF Jobs
  <2> QED BY <1>2, <1>4, <2>1, <2>2
<1>6. /\ j.op = "delete" /\ j.of = v /\ j.names = {NameOf(v)} /\ j.read = row /\ j.writes
      /\ j.dto = NoBody /\ j.adds = {} /\ j.fresh = None /\ j.shots = {} /\ j.removed = {}
      /\ j.record = None /\ j.gone = {} /\ j.emptied = None /\ ~j.syncs /\ j.stage = "none"
  BY <1>2 DEF NoJob
<1>7. JobOK(j)
  BY <1>4, <1>6 DEF JobOK
<1> QED BY <1>1, <1>3, <1>5, <1>6, <1>7, AskKeeps

LEMMA StatusKeeps ==
  ASSUME VersionsInv, NEW r \in Requests, NEW v \in Versions, NEW status \in Decisions,
         ChangeMissionVersionStatus(r, v, status)
  PROVE  VersionsInv'
<1>1. PICK row : row = version[v]
  OBVIOUS
<1>2. PICK target : target = BucketOf(status, mission.type)
  OBVIOUS
<1>3. PICK j : j = [NoJob EXCEPT !.op = "status", !.of = v, !.names = {NameOf(v)},
                                 !.read = row, !.stage = "copy", !.decision = status,
                                 !.target = target]
  OBVIOUS
<1>4. LiveVersion(v) /\ Take(r, j)
  BY <1>1, <1>2, <1>3 DEF ChangeMissionVersionStatus
<1>5. row \in VersionRows /\ Readable(row) /\ NameOf(v) \in Names
  BY <1>1, <1>4, LiveRead
<1>6. status \in Statuses
  BY MissionVersionsAssumption
<1>7. /\ target \in {"testing-missions", "big-missions", "mini-missions"}
      /\ target = "testing-missions" => status # "APPROVED"
  BY <1>2 DEF BucketOf
<1>8. j \in Jobs
  <2>1. PICK m \in Jobs : m = NoJob
    BY IdleJob
  <2>2. \A ns \in SUBSET Names, x \in VersionRows, s \in Statuses, b \in Buckets :
          [m EXCEPT !.op = "status", !.of = v, !.names = ns, !.read = x, !.stage = "copy",
                    !.decision = s, !.target = b] \in Jobs
    BY DEF Jobs
  <2>3. target \in Buckets
    BY <1>7 DEF Buckets
  <2> QED BY <1>3, <1>5, <1>6, <2>1, <2>2, <2>3
<1>9. /\ j.op = "status" /\ j.of = v /\ j.names = {NameOf(v)} /\ j.read = row /\ ~j.writes
      /\ j.dto = NoBody /\ j.adds = {} /\ j.fresh = None /\ j.shots = {} /\ j.removed = {}
      /\ j.record = None /\ j.gone = {} /\ j.emptied = None /\ ~j.syncs /\ j.stage = "copy"
      /\ j.decision = status /\ j.target = target
  BY <1>3 DEF NoJob
<1>10. JobOK(j)
  BY <1>5, <1>6, <1>7, <1>9 DEF JobOK
<1> QED BY <1>1, <1>4, <1>8, <1>9, <1>10, AskKeeps

-----------------------------------------------------------------------------
(* VERSIONS.  The invariant, and what follows from it.                     *)

LEMMA VersionsInvInit ==
  ASSUME VersionsInit PROVE VersionsInv
<1>1. /\ mission \in [archived : BOOLEAN, type : Types]
      /\ version = [v \in Versions |-> NoVersion] /\ req = [r \in Requests |-> NoJob]
      /\ judged = [v \in Versions |-> None] /\ raced = {} /\ clashed = {} /\ cut = {}
      /\ file = [f \in Files |-> NoFile] /\ stored = [k \in Keys |-> None]
      /\ uploads = 0 /\ faults = 0
  BY DEF VersionsInit, StorageInit
<1>2. VersionsTypes
  BY <1>1, IdleJob, NumbersAndNames DEF VersionsTypes, StorageTypeOK
<1>3. \A r \in Requests : req[r] = NoJob
  BY <1>1
<1>4. \A v \in Versions : version[v] = NoVersion /\ OnShow(v) = {} /\ ~LiveVersion(v)
  BY <1>1, IdleJob DEF OnShow, LiveVersion, Statuses
<1>5. HandsApart(NoJob, NoJob)
  BY IdleJob DEF HandsApart
<1>6. \A v \in Versions : HandAndRow(NoJob, v)
  BY <1>4, IdleJob DEF HandAndRow
<1>7. \A v \in Versions : RowOK(v)
  BY <1>4 DEF RowOK
<1>8. \A v, w \in Versions : RowsApart(v, w)
  BY <1>4 DEF RowsApart
<1> QED BY <1>2, <1>3, <1>5, <1>6, <1>7, <1>8, IdleHand DEF VersionsInv

LEMMA MissionKeeps ==
  ASSUME VersionsInv,
         UNCHANGED <<version, file, stored, req, uploads, faults, judged, clashed, cut, raced>>,
         mission' \in [archived : BOOLEAN, type : Types]
  PROVE  VersionsInv'
<1>1. Grows /\ req' = req
  BY DEF Grows
<1>2. VersionsTypes'
  BY VersionParts DEF VersionsTypes, StorageTypeOK
<1>3. ASSUME NEW q \in Requests PROVE HandOK(req[q])'
  <2>1. PICK e : e = req[q]
    OBVIOUS
  <2>2. HandOK(e)'
    BY <1>1, <2>1, HandStill, VersionParts
  <2> QED BY <1>1, <2>1, <2>2
<1>4. ASSUME NEW p \in Requests, NEW q \in Requests, p # q PROVE HandsApart(req[p], req[q])'
  <2>1. PICK e : e = req[p]
    OBVIOUS
  <2>2. PICK g : g = req[q]
    OBVIOUS
  <2>3. HandsApart(e, g)'
    BY <1>1, <1>4, <2>1, <2>2, HandsStill, VersionParts
  <2> QED BY <1>1, <2>1, <2>2, <2>3
<1>5. ASSUME NEW q \in Requests, NEW w \in Versions PROVE HandAndRow(req[q], w)'
  <2>1. PICK e : e = req[q]
    OBVIOUS
  <2>2. HandAndRow(e, w)'
    BY <1>1, <2>1, HandAndRowStill, VersionParts
  <2> QED BY <1>1, <2>1, <2>2
<1>6. ASSUME NEW w \in Versions PROVE RowOK(w)'
  <2>1. /\ Moving(w, "decide") => Moving(w, "decide")'
        /\ Moving(w, "rebucket") => Moving(w, "rebucket")'
        /\ Replacing(w) => Replacing(w)'
    BY <1>1 DEF Moving, Replacing
  <2> QED BY <1>1, <2>1, RowGrows, VersionParts
<1>7. ASSUME NEW w \in Versions, NEW u \in Versions, w # u PROVE RowsApart(w, u)'
  BY <1>1, <1>7, RowsStill, VersionParts
<1> QED BY <1>2, <1>3, <1>4, <1>5, <1>6, <1>7 DEF VersionsInv

LEMMA VersionsInvStep ==
  ASSUME VersionsInv, [VersionsNext]_versionVars PROVE VersionsInv'
<1>1. CASE UNCHANGED versionVars
  BY <1>1, MissionKeeps, VersionParts DEF versionVars
<1>2. ASSUME NEW r \in Requests, Reading(r) PROVE VersionsInv'
  <2>1. PICK v \in Versions :
          \/ \E dto \in Asks : CreateMissionVersion(r, v, dto)
          \/ \E dto \in Asks : \E removed \in SUBSET version[v].shots :
               UpdateMissionVersion(r, v, dto, removed)
          \/ DeleteMissionVersion(r, v)
          \/ \E status \in Decisions : ChangeMissionVersionStatus(r, v, status)
    BY <1>2 DEF Reading
  <2> QED BY <2>1, CreateKeeps, UpdateKeeps, DeleteKeeps, StatusKeeps
<1>3. ASSUME NEW r \in Requests, Working(r) PROVE VersionsInv'
  BY <1>3, AddKeeps, InsertVersionKeeps, SaveVersionKeeps, RemoveVersionKeeps, EraseObjectKeeps,
     EraseRowKeeps, EraseRecordKeeps, SyncPlansKeeps, CopyObjectKeeps, UnlinkObjectKeeps,
     RebucketKeeps, DecideKeeps, BreakOffKeeps, FailCallKeeps DEF Working
<1>4. ASSUME NEW archived \in BOOLEAN, ChangeMissionState(archived) PROVE VersionsInv'
  <2>1. mission' \in [archived : BOOLEAN, type : Types]
    BY <1>4, VersionParts DEF ChangeMissionState
  <2> QED BY <1>4, <2>1, MissionKeeps DEF ChangeMissionState
<1>5. ASSUME NEW type \in Types, ChangeMissionType(type) PROVE VersionsInv'
  <2>1. mission' \in [archived : BOOLEAN, type : Types]
    BY <1>5, VersionParts DEF ChangeMissionType
  <2> QED BY <1>5, <2>1, MissionKeeps DEF ChangeMissionType
<1> QED BY <1>1, <1>2, <1>3, <1>4, <1>5 DEF VersionsNext

LEMMA VersionsInvImplies ==
  ASSUME VersionsInv PROVE VersionsTypeOK /\ ApprovedAsReviewed /\ FileIsItsOwn
<1>1. VersionsTypes /\ \A v \in Versions : RowOK(v)
  BY DEF VersionsInv
<1>2. FriendlySideIsValid
  BY <1>1 DEF RowOK, FriendlySideIsValid
<1>3. \A v \in Versions :
        IF LiveVersion(v)
        THEN /\ version[v].file # None /\ {version[v].attack, version[v].defense} \subseteq Sides
             /\ \A f \in {version[v].file} \union version[v].shots : Exists(f)
        ELSE version[v] \in {NoVersion, GoneVersion}
  BY <1>1 DEF RowOK, OnShow
<1>4. ApprovedAsReviewed
  BY <1>1 DEF RowOK, ApprovedAsReviewed, LiveVersion, Statuses
<1>5. FileIsItsOwn
  BY <1>1 DEF RowOK, FileIsItsOwn
<1> QED BY <1>1, <1>2, <1>3, <1>4, <1>5 DEF VersionsTypeOK, VersionsTypes

LEMMA VersionsInvAlways == VersionsSpec => []VersionsInv
BY VersionsInvInit, VersionsInvStep, PTL DEF VersionsSpec

\* The rows of versions and files keep their types, and with them what the foreign keys
\* of the schema and the checks of resolveFriendlySideInput promise.
THEOREM VersionsAreWellFormed == VersionsSpec => []VersionsTypeOK
BY VersionsInvAlways, VersionsInvImplies, PTL

\* What changeMissionVersionStatus approves is the file that it had read, out of the
\* bucket for tests.
THEOREM ApprovedVersionsAreReviewed == VersionsSpec => []ApprovedAsReviewed
BY VersionsInvAlways, VersionsInvImplies, PTL

\* The object under the key of a version is the version's own upload, through
\* uploadFile, deleteFile, deleteFileRecord and moveFileToBucket.
THEOREM VersionFilesAreTheirOwn == VersionsSpec => []FileIsItsOwn
BY VersionsInvAlways, VersionsInvImplies, PTL
=============================================================================
