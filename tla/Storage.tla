------------------------------- MODULE Storage -------------------------------
(***************************************************************************)
(* The File rows and the objects in MinIO (minio.service.ts), and the      *)
(* handlers at work on them.  Modules Files and MissionVersions extend     *)
(* this one: they say what a handler is, what it calls, and when.          *)
(*                                                                         *)
(* An upload has a number, given out when its handler begins: the id of    *)
(* its File row, and the content of its object.                            *)
(***************************************************************************)
EXTENDS Integers, FiniteSets

CONSTANTS
  Names,      \* file names that several uploads may have
  Requests,
  MaxFiles,   \* bound of the uploads
  MaxFaults,  \* bound of failed calls
  None

VARIABLES
  file,     \* the File rows
  stored,   \* what MinIO has under a key: the upload whose content it is
  req,      \* handlers and what they still have to do
  uploads,  \* how many numbers of uploads are given out
  faults,
  clashed,  \* history: what two handlers were about at a time
  cut       \* history: what a handler that failed was about, or a deletion passed over

Files == 1..MaxFiles
Buckets == {"message-attachments", "news-images", "achievement-icons", "mission-images",
            "user-avatars", "testing-missions", "big-missions", "mini-missions"}

Keys == [bucket : Buckets, name : Names \union Files]
NoFile == [bucket |-> None, name |-> None]
Uploads == [file : Files, key : Keys]

ASSUME StorageAssumption ==
  /\ {MaxFiles, MaxFaults} \subseteq Nat
  /\ Names \intersect Int = {}
  /\ None \notin Names \union Int

StorageTypeOK ==
  /\ file \in [Files -> Keys \union {NoFile}]
  /\ stored \in [Keys -> Files \union {None}]
  /\ uploads \in 0..MaxFiles
  /\ faults \in 0..MaxFaults

StorageInit ==
  /\ file = [f \in Files |-> NoFile]
  /\ stored = [k \in Keys |-> None]
  /\ uploads = 0
  /\ faults = 0
  /\ clashed = {}
  /\ cut = {}

Exists(f) == file[f] # NoFile
Served(f) == stored[file[f]] = f

-----------------------------------------------------------------------------
\* A handler of s begins and is given the numbers of n uploads.
Begin(r, s, call, n) ==
  /\ req[r].op = "idle" /\ uploads + n <= MaxFiles
  /\ uploads' = uploads + n
  /\ req' = [req EXCEPT ![r] = call]
  /\ clashed' = clashed \union {o \in {s} : \E q \in Requests : req[q].of = o}

\* The i-th of these uploads.  A png or jpeg has its id for a name (no name is given),
\* any other file keeps its own (resolveUploadNaming, buildObjectName).
Numbered(i, bucket, name) ==
  [file |-> uploads + i,
   key |-> [bucket |-> bucket, name |-> IF name = None THEN uploads + i ELSE name]]

\* uploadFile: the object replaces the one of the same name, and has its row.
PutFile(t) ==
  /\ stored' = [stored EXCEPT ![t.key] = t.file]
  /\ file' = [file EXCEPT ![t.file] = t.key]

\* removeObject, of deleteFile and of moveFileToBucket
RemoveFrom(key) == stored' = [stored EXCEPT ![key] = None]

\* prisma.file.delete
DeleteRow(f) == file' = [file EXCEPT ![f] = NoFile]

\* A handler ends by an error: it undoes nothing, or does what is left to do.
GiveUp(r, left) ==
  /\ req' = [req EXCEPT ![r] = left]
  /\ cut' = cut \union {req[r].of}
=============================================================================
