--------------------------- MODULE MissionVersions ---------------------------
(***************************************************************************)
(* The versions of a mission (missions.service.ts): their review, their    *)
(* friendly side, their screenshots, and the file that moves between the   *)
(* buckets of MinIO as the status changes (moveFileToBucket).              *)
(*                                                                         *)
(* A handler reads and checks in one step; then it has calls left to do,   *)
(* one after the other.  Whether a user may edit, review or delete is no   *)
(* state of this module: a call that is refused is no step.  The plans of  *)
(* the games that play a version are the subject of module Headquarters,   *)
(* the image and the comments of a mission that of Files.                  *)
(***************************************************************************)
EXTENDS Storage

CONSTANTS
  Versions,
  Decisions,  \* the statuses that a reviewer may give
  Asks        \* what the bodies of requests may hold, None for a field not given

Sides == {"BLUE", "RED", "GREEN"}
Statuses == {"APPROVED", "PENDING_APPROVAL", "CHANGES_REQUESTED", "IN_REVIEW",
             "PENDING_GAME_APPROVAL"}
Types == {"SG", "mini"}

MaybeSide == Sides \union {None}

\* The new file and screenshots, the sides, and of the friendly side: nothing, that
\* there is none, or its fields (name and slots are left out).
Bodies == [name : Names \union {None}, shots : Nat, attack : MaybeSide, defense : MaybeSide,
           clear : BOOLEAN, type : MaybeSide, to : MaybeSide]
NoBody == [name |-> None, shots |-> 0, attack |-> None, defense |-> None,
           clear |-> FALSE, type |-> None, to |-> None]

ASSUME MissionVersionsAssumption ==
  /\ Decisions \subseteq Statuses
  /\ Asks \subseteq Bodies
  /\ None \notin Versions \union Sides

VARIABLES
  mission,  \* state and type of the mission
  version,  \* the MissionVersion rows with their screenshots
  judged,   \* history: the file that the newest decision on a version had read
  raced     \* history: names in the hands of two handlers at a time

versionVars ==
  <<mission, version, file, stored, req, uploads, faults, judged, clashed, cut, raced>>

-----------------------------------------------------------------------------
VersionRows == [status : Statuses \union {"none", "gone"}, reviewed : BOOLEAN,
                file : Files \union {None}, shots : SUBSET Files,
                attack : MaybeSide, defense : MaybeSide, friendly : MaybeSide, to : MaybeSide]
NoVersion == [status |-> "none", reviewed |-> FALSE, file |-> None, shots |-> {},
              attack |-> None, defense |-> None, friendly |-> None, to |-> None]
GoneVersion == [NoVersion EXCEPT !.status = "gone"]

\* What a handler has left to do: uploads, the write, the file it replaces, files to
\* delete, the sync; a decision instead has the stages of a move.
Jobs == [op : {"idle", "create", "update", "delete", "status", "rollback"},
         of : Versions \union {None},
         names : SUBSET Names,
         dto : Bodies,
         read : VersionRows,               \* the version as it was read
         removed : SUBSET Files,           \* screenshots to remove
         adds : SUBSET Uploads,
         fresh : Files \union {None},      \* the mission file that is uploaded
         shots : SUBSET Files,             \* the screenshots that are
         writes : BOOLEAN,
         over : BOOLEAN,                   \* the upload takes the place of the old object
         record : Files \union {None},     \* a row to delete without its object
         gone : SUBSET Files,              \* files to delete
         emptied : Files \union {None},    \* a file after its object, before its row
         syncs : BOOLEAN,
         stage : {"none", "copy", "unlink", "rebucket", "decide"},
         source : Keys \union {NoFile},
         target : Buckets \union {None},
         decision : Statuses \union {None}]
NoJob == [op |-> "idle", of |-> None, names |-> {}, dto |-> NoBody, read |-> NoVersion,
          removed |-> {}, adds |-> {}, fresh |-> None, shots |-> {}, writes |-> FALSE,
          over |-> FALSE, record |-> None, gone |-> {}, emptied |-> None, syncs |-> FALSE,
          stage |-> "none", source |-> NoFile, target |-> None, decision |-> None]

LiveVersion(v) == version[v].status \in Statuses
Used(f) == \E v \in Versions : version[v].file = f

\* A version has no friendly side, or one of its own that is friendly to a side of
\* the mission.
ValidSides(row) ==
  \/ row.friendly = None /\ row.to = None
  \/ /\ row.to \in {row.attack, row.defense}
     /\ row.friendly \in Sides \ {row.attack, row.defense}

\* Also after a later update changes those sides, unless two updates each checked
\* what they had read.
FriendlySideIsValid == \A v \in Versions :
  LiveVersion(v) /\ v \notin clashed => ValidSides(version[v])

\* Types; foreign keys, which forbid to delete the file of a version.
VersionsTypeOK ==
  /\ StorageTypeOK
  /\ mission \in [archived : BOOLEAN, type : Types]
  /\ version \in [Versions -> VersionRows]
  /\ req \in [Requests -> Jobs]
  /\ judged \in [Versions -> Files \union {None}]
  /\ clashed \subseteq Versions /\ cut \subseteq Versions /\ raced \subseteq Names
  /\ \A v \in Versions :
       IF LiveVersion(v)
       THEN /\ version[v].file # None /\ {version[v].attack, version[v].defense} \subseteq Sides
            /\ \A f \in {version[v].file} \union version[v].shots : Exists(f)
       ELSE version[v] \in {NoVersion, GoneVersion}
  /\ FriendlySideIsValid

VersionsInit ==
  /\ StorageInit
  /\ mission \in [archived : {FALSE}, type : Types]
  /\ version = [v \in Versions |-> NoVersion]
  /\ req = [r \in Requests |-> NoJob]
  /\ judged = [v \in Versions |-> None]
  /\ raced = {}

-----------------------------------------------------------------------------
\* resolveMissionVersionBucket
BucketOf(status, type) ==
  IF status # "APPROVED" THEN "testing-missions"
  ELSE IF type = "mini" THEN "mini-missions" ELSE "big-missions"

Or(new, old) == IF new # None THEN new ELSE old

\* resolveFriendlySideInput does not throw.
FriendlyAccepted(dto, old) ==
  LET sides == {Or(dto.attack, old.attack), Or(dto.defense, old.defense)}
  IN \/ dto.clear
     \/ {dto.type, dto.to, old.friendly, old.to} = {None}
     \/ /\ Or(dto.to, old.to) \in sides \ {None}
        /\ Or(dto.type, old.friendly) \notin sides \union {None}

\* The friendly side that it has written: a row keeps its own unless asked.
FriendlySide(c, row) ==
  IF c.dto.clear THEN NoVersion
  ELSE IF {c.dto.type, c.dto.to} = {None} THEN row
  ELSE [NoVersion EXCEPT !.friendly = Or(c.dto.type, c.read.friendly),
                         !.to = Or(c.dto.to, c.read.to)]

\* Mutant of Resubmits: a new file leaves the status alone.
ResubmitsShots(c) == c.dto.shots > 0 \/ c.removed # {}

\* A new file goes back to review; screenshots too, with the reviewer left in place.
Resubmits(c) == c.dto.name # None \/ c.dto.shots > 0 \/ c.removed # {}

\* What an update makes of a row; the friendly side of new screenshots is left out.
Rewritten(row, c) ==
  [row EXCEPT !.file = Or(c.fresh, @), !.shots = (@ \ c.removed) \union c.shots,
              !.attack = Or(c.dto.attack, @), !.defense = Or(c.dto.defense, @),
              !.friendly = FriendlySide(c, row).friendly, !.to = FriendlySide(c, row).to,
              !.status = IF Resubmits(c) THEN "PENDING_APPROVAL" ELSE @,
              !.reviewed = @ /\ c.dto.name = None]

NameOf(v) == file[version[v].file].name

\* assertUniqueMissionFileName: the current name is always allowed.
UniqueName(name, current) ==
  name = current \/ \A v \in Versions : LiveVersion(v) => NameOf(v) # name

-----------------------------------------------------------------------------
\* The file goes to the bucket for versions under review.
Given(dto) == IF dto.name = None THEN 0 ELSE 1
MissionFile(dto) == {Numbered(i, "testing-missions", dto.name) : i \in 1..Given(dto)}
Screenshots(dto) ==
  {Numbered(i, "mission-images", None) : i \in (Given(dto) + 1)..(Given(dto) + dto.shots)}
IsMissionFile(t) == t.key.bucket = "testing-missions"

Take(r, job) ==
  /\ Begin(r, job.of, job, Given(job.dto) + job.dto.shots)
  /\ raced' = raced \union UNION {job.names \intersect req[q].names : q \in Requests}
  /\ UNCHANGED <<mission, version, file, stored, faults, judged, cut>>

Writes(dto) == [NoJob EXCEPT !.dto = dto, !.writes = TRUE,
                             !.adds = MissionFile(dto) \union Screenshots(dto)]

\* createMissionVersion, up to its uploads.
CreateMissionVersion(r, v, dto) ==
  /\ ~mission.archived
  /\ version[v] = NoVersion /\ \A q \in Requests : req[q].of # v
  /\ None \notin {dto.name, dto.attack, dto.defense} /\ ~dto.clear
  /\ UniqueName(dto.name, None)
  /\ FriendlyAccepted(dto, NoVersion)
  /\ Take(r, [Writes(dto) EXCEPT !.op = "create", !.of = v, !.names = {dto.name}])

\* updateMissionVersion, up to its uploads: what it is going to write is computed
\* from this read.  A screenshot to remove that is not the version's is refused only
\* after the upload of the file: a failed call there.
UpdateMissionVersion(r, v, dto, removed) ==
  /\ LiveVersion(v) /\ ~mission.archived
  /\ dto.name # None => UniqueName(dto.name, NameOf(v))
  /\ FriendlyAccepted(dto, version[v])
  /\ removed \subseteq version[v].shots
  /\ Take(r, [Writes(dto) EXCEPT
       !.op = "update", !.of = v, !.names = {dto.name, NameOf(v)} \ {None},
       !.read = version[v], !.removed = removed,
       !.over = file[version[v].file] = [bucket |-> "testing-missions", name |-> dto.name]])

\* deleteMissionVersion
DeleteMissionVersion(r, v) ==
  /\ LiveVersion(v)
  /\ Take(r, [NoJob EXCEPT !.op = "delete", !.of = v, !.names = {NameOf(v)},
                           !.read = version[v], !.writes = TRUE])

\* changeMissionVersionStatus, up to the move of the file.
ChangeMissionVersionStatus(r, v, status) ==
  /\ LiveVersion(v)
  /\ Take(r, [NoJob EXCEPT !.op = "status", !.of = v, !.names = {NameOf(v)},
                           !.read = version[v], !.stage = "copy", !.decision = status,
                           !.target = BucketOf(status, mission.type)])

\* changeMissionState; and updateMission, which may change the type: the files stay
\* where they are.
ChangeMissionState(archived) ==
  /\ mission.archived # archived
  /\ mission' = [mission EXCEPT !.archived = archived]
  /\ UNCHANGED <<version, file, stored, req, uploads, faults, judged, clashed, cut, raced>>

ChangeMissionType(type) ==
  /\ mission.type # type
  /\ mission' = [mission EXCEPT !.type = type]
  /\ UNCHANGED <<version, file, stored, req, uploads, faults, judged, clashed, cut, raced>>

-----------------------------------------------------------------------------
\* What a handler does next.
MayAdd(c, t) == t \in c.adds /\ (IsMissionFile(t) \/ \A s \in c.adds : ~IsMissionFile(s))
MayStore(c) == c.writes /\ c.adds = {}

\* The mission file goes first.
MayErase(c, f) ==
  /\ f \in c.gone /\ c.record = None /\ c.emptied = None
  /\ f = c.read.file \/ c.read.file \notin c.gone

Remaining(c) ==
  IF c.record = None /\ c.gone = {} /\ c.emptied = None /\ ~c.syncs THEN NoJob ELSE c

\* uploadFile
Add(r) ==
  LET c == req[r]
  IN \E t \in c.adds :
     /\ MayAdd(c, t) /\ PutFile(t)
     /\ req' = [req EXCEPT ![r] = IF IsMissionFile(t)
                   THEN [c EXCEPT !.adds = @ \ {t}, !.fresh = t.file]
                   ELSE [c EXCEPT !.adds = @ \ {t}, !.shots = @ \union {t.file}]]
     /\ UNCHANGED <<mission, version, uploads, faults, judged, clashed, cut, raced>>

\* missionVersion.create
InsertVersion(r) ==
  LET c == req[r]
  IN /\ MayStore(c) /\ c.op = "create"
     /\ version' = [version EXCEPT ![c.of] =
                      [Rewritten(@, c) EXCEPT !.status = "PENDING_APPROVAL"]]
     /\ req' = [req EXCEPT ![r] = NoJob]
     /\ UNCHANGED <<mission, file, stored, uploads, faults, judged, clashed, cut, raced>>

\* missionVersion.update.  Of the file it replaces only the row is deleted if the
\* upload has overwritten the object (shouldDeletePreviousFileObject).
SaveVersion(r) ==
  LET c == req[r]
      row == Rewritten(version[c.of], c)
      previous == {c.read.file : f \in {c.fresh} \ {None}}
  IN /\ MayStore(c) /\ c.op = "update" /\ LiveVersion(c.of)
     /\ version' = [version EXCEPT ![c.of] = row]
     /\ req' = [req EXCEPT ![r] = Remaining([c EXCEPT
          !.writes = FALSE, !.record = IF c.over THEN c.read.file ELSE None,
          !.gone = c.removed \union (IF c.over THEN {} ELSE previous),
          !.syncs = \/ c.fresh # None
                    \/ <<row.friendly, row.to>> # <<c.read.friendly, c.read.to>>])]
     /\ UNCHANGED <<mission, file, stored, uploads, faults, judged, clashed, cut, raced>>

\* The transaction of deleteMissionVersion; the games are in Headquarters.
RemoveVersion(r) ==
  LET c == req[r]
  IN /\ MayStore(c) /\ c.op = "delete" /\ LiveVersion(c.of)
     /\ version' = [version EXCEPT ![c.of] = GoneVersion]
     /\ req' = [req EXCEPT ![r] = [c EXCEPT !.writes = FALSE,
                                            !.gone = {c.read.file} \union c.read.shots]]
     /\ UNCHANGED <<mission, file, stored, uploads, faults, judged, clashed, cut, raced>>

\* deleteFile: statObject, removeObject; nothing to do for a row that is gone.
EraseObject(r) ==
  LET c == req[r]
  IN \E f \in c.gone :
     /\ MayErase(c, f)
     /\ IF Exists(f)
        THEN /\ RemoveFrom(file[f])
             /\ req' = [req EXCEPT ![r] = [c EXCEPT !.gone = @ \ {f}, !.emptied = f]]
        ELSE /\ req' = [req EXCEPT ![r] = Remaining([c EXCEPT !.gone = @ \ {f}])]
             /\ UNCHANGED stored
     /\ UNCHANGED <<mission, version, file, uploads, faults, judged, clashed, cut, raced>>

\* Mutant of EraseRow: the screenshot stays.
EraseRowOnly(r) ==
  LET c == req[r]
  IN /\ c.emptied # None /\ Exists(c.emptied) /\ ~Used(c.emptied)
     /\ DeleteRow(c.emptied)
     /\ req' = [req EXCEPT ![r] = Remaining([c EXCEPT !.emptied = None])]
     /\ UNCHANGED <<mission, version, stored, uploads, faults, judged, clashed, cut, raced>>

\* The row of a file goes, and of a screenshot with it.
Drop(f) ==
  /\ DeleteRow(f)
  /\ version' = [v \in Versions |-> [version[v] EXCEPT !.shots = @ \ {f}]]

\* prisma.file.delete
EraseRow(r) ==
  LET c == req[r]
  IN /\ c.emptied # None /\ Exists(c.emptied) /\ ~Used(c.emptied)
     /\ Drop(c.emptied)
     /\ req' = [req EXCEPT ![r] = Remaining([c EXCEPT !.emptied = None])]
     /\ UNCHANGED <<mission, stored, uploads, faults, judged, clashed, cut, raced>>

\* deleteFileRecord, which does not throw.
EraseRecord(r) ==
  LET c == req[r]
  IN /\ c.record # None
     /\ IF Used(c.record) THEN UNCHANGED <<file, version>> ELSE Drop(c.record)
     /\ req' = [req EXCEPT ![r] = Remaining([c EXCEPT !.record = None])]
     /\ UNCHANGED <<mission, stored, uploads, faults, judged, clashed, cut, raced>>

\* syncGamePlanSlotsForMissionVersion
SyncPlans(r) ==
  LET c == req[r]
  IN /\ c.syncs /\ c.record = None /\ c.gone = {} /\ c.emptied = None
     /\ req' = [req EXCEPT ![r] = NoJob]
     /\ UNCHANGED <<mission, version, file, stored, uploads, faults, judged, clashed, cut, raced>>

Moved(c, to) == [c EXCEPT !.stage = to]

\* moveFileToBucket reads the row, and copies what there is.
CopyObject(r) ==
  LET c == req[r]
      from == file[c.read.file]
      to == [from EXCEPT !.bucket = c.target]
  IN /\ c.stage = "copy" /\ Exists(c.read.file)
     /\ IF from = to
        THEN req' = [req EXCEPT ![r] = Moved(c, "decide")] /\ UNCHANGED stored
        ELSE IF stored[from] = None
        THEN req' = [req EXCEPT ![r] = Moved(c, "rebucket")] /\ UNCHANGED stored
        ELSE /\ stored' = [stored EXCEPT ![to] = stored[from]]
             /\ req' = [req EXCEPT ![r] = [Moved(c, "unlink") EXCEPT !.source = from]]
     /\ UNCHANGED <<mission, version, file, uploads, faults, judged, clashed, cut, raced>>

\* Mutant of UnlinkObject: it removes the copy.
UnlinkCopy(r) ==
  LET c == req[r]
  IN /\ c.stage = "unlink" /\ RemoveFrom([c.source EXCEPT !.bucket = c.target])
     /\ req' = [req EXCEPT ![r] = Moved(c, "rebucket")]
     /\ UNCHANGED <<mission, version, file, uploads, faults, judged, clashed, cut, raced>>

UnlinkObject(r) ==
  LET c == req[r]
  IN /\ c.stage = "unlink" /\ RemoveFrom(c.source)
     /\ req' = [req EXCEPT ![r] = Moved(c, "rebucket")]
     /\ UNCHANGED <<mission, version, file, uploads, faults, judged, clashed, cut, raced>>

Rebucket(r) ==
  LET c == req[r]
  IN /\ c.stage = "rebucket" /\ Exists(c.read.file)
     /\ file' = [file EXCEPT ![c.read.file].bucket = c.target]
     /\ req' = [req EXCEPT ![r] = Moved(c, "decide")]
     /\ UNCHANGED <<mission, version, stored, uploads, faults, judged, clashed, cut, raced>>

\* The status is written, whatever file the version has by now.
Decide(r) ==
  LET c == req[r]
  IN /\ c.stage = "decide" /\ LiveVersion(c.of)
     /\ version' = [version EXCEPT ![c.of].status = c.decision,
                                   ![c.of].reviewed = c.decision # "PENDING_APPROVAL"]
     /\ judged' = [judged EXCEPT ![c.of] = c.read.file]
     /\ req' = [req EXCEPT ![r] = NoJob]
     /\ UNCHANGED <<mission, file, stored, uploads, faults, clashed, cut, raced>>

\* The row of the next call is gone, or still in use: the call throws.
Throws(c) ==
  \/ MayStore(c) /\ c.op \in {"update", "delete"} /\ ~LiveVersion(c.of)
  \/ c.stage = "decide" /\ ~LiveVersion(c.of)
  \/ c.emptied # None /\ (~Exists(c.emptied) \/ Used(c.emptied))
  \/ c.stage \in {"copy", "rebucket"} /\ ~Exists(c.read.file)

\* An update that fails at its write or after it deletes the screenshots that it
\* has uploaded, those that the version shows by then too.
Undone(c) ==
  IF c.op = "update" /\ c.adds = {} /\ c.shots # {}
  THEN [NoJob EXCEPT !.op = "rollback", !.of = c.of, !.names = c.names, !.gone = c.shots]
  ELSE NoJob

BreakOff(r) ==
  /\ Throws(req[r]) /\ GiveUp(r, Undone(req[r]))
  /\ UNCHANGED <<mission, version, file, stored, uploads, faults, judged, clashed, raced>>

\* MinIO, the database or the sync fails a call; an upload may have left its object.
FailCall(r) ==
  /\ req[r].op # "idle" /\ faults < MaxFaults
  /\ faults' = faults + 1
  /\ GiveUp(r, Undone(req[r]))
  /\ \/ UNCHANGED stored
     \/ \E t \in req[r].adds :
          MayAdd(req[r], t) /\ stored' = [stored EXCEPT ![t.key] = t.file]
  /\ UNCHANGED <<mission, version, file, uploads, judged, clashed, raced>>

-----------------------------------------------------------------------------
Reading(r) == \E v \in Versions :
  \/ \E dto \in Asks :
       \/ CreateMissionVersion(r, v, dto)
       \/ \E removed \in SUBSET version[v].shots : UpdateMissionVersion(r, v, dto, removed)
  \/ DeleteMissionVersion(r, v)
  \/ \E status \in Decisions : ChangeMissionVersionStatus(r, v, status)

Working(r) ==
  \/ Add(r)
  \/ InsertVersion(r)
  \/ SaveVersion(r)
  \/ RemoveVersion(r)
  \/ EraseObject(r)
  \/ EraseRow(r)
  \/ EraseRecord(r)
  \/ SyncPlans(r)
  \/ CopyObject(r)
  \/ UnlinkObject(r)
  \/ Rebucket(r)
  \/ Decide(r)
  \/ BreakOff(r)
  \/ FailCall(r)

VersionsNext ==
  \/ \E r \in Requests : Reading(r) \/ Working(r)
  \/ \E archived \in BOOLEAN : ChangeMissionState(archived)
  \/ \E type \in Types : ChangeMissionType(type)

VersionsSpec == VersionsInit /\ [][VersionsNext]_versionVars

-----------------------------------------------------------------------------
(* What the games that play a version rely on.                             *)

\* A request moves the file of a version, or has uploaded the one to replace it.
Moving(v, stage) == \E r \in Requests : req[r].of = v /\ req[r].stage = stage
Replacing(v) == \E r \in Requests : req[r].of = v /\ req[r].writes /\ req[r].fresh # None

\* A version is approved with the file that the reviewer's request had read, and
\* that file is out of the testing bucket; unless another request on the version
\* or a failed move came between, or a request is about to change the status.
ApprovedAsReviewed == \A v \in Versions :
  version[v].status = "APPROVED" /\ v \notin clashed \union cut =>
    /\ version[v].file = judged[v]
    /\ file[version[v].file].bucket # "testing-missions" \/ Moving(v, "decide")

\* The file of a version can be downloaded and is its own, not one of the same
\* name; excepted are names in two handlers at a time, overlapping and failed
\* requests on the version, and a request that is moving or replacing the file.
FileIsItsOwn == \A v \in Versions :
  LiveVersion(v) /\ v \notin clashed \union cut /\ NameOf(v) \notin raced =>
    Served(version[v].file) \/ Moving(v, "rebucket") \/ Replacing(v)
=============================================================================
