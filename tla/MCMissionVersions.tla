-------------------------- MODULE MCMissionVersions --------------------------
EXTENDS MissionVersions, TLC

CONSTANTS v1, v2, a, b

Alike == Permutations(Requests)

\* Versions begin BLUE against RED, v1 with and without a friendly GREEN.  An update
\* is about the file, about screenshots or about sides: it may take GREEN for the
\* attack, be friendly to RED, or drop the friendly side.
NewVersion == [NoBody EXCEPT !.attack = "BLUE", !.defense = "RED"]
MCAsks ==
  {[NewVersion EXCEPT !.name = a], [NewVersion EXCEPT !.name = b],
   [NewVersion EXCEPT !.name = a, !.type = "GREEN", !.to = "BLUE"],
   NoBody, [NoBody EXCEPT !.name = a], [NoBody EXCEPT !.name = b],
   [NoBody EXCEPT !.shots = 1],
   [NoBody EXCEPT !.shots = 1, !.type = "GREEN", !.to = "BLUE"],
   [NoBody EXCEPT !.attack = "GREEN"], [NoBody EXCEPT !.to = "RED"],
   [NoBody EXCEPT !.type = "GREEN", !.to = "BLUE"], [NoBody EXCEPT !.clear = TRUE]}

\* A body with both sides creates versions; v2 is only created, renamed and deleted,
\* beside a v1 that nobody gives other sides.  The mission changes between requests,
\* while it has one version.  After an overlap or a failure, which the properties
\* except, nothing more is asked of a version.
AboutSides(dto) == dto.clear \/ {dto.attack, dto.defense, dto.type, dto.to} # {None}
Plain(v) == LiveVersion(v) /\ version[v].attack = "BLUE" /\ version[v].friendly = None
Focus ==
  /\ \A r \in Requests : LET c == req'[r] IN req[r] = NoJob /\ c # NoJob =>
       /\ c.of \notin clashed \union cut
       /\ c.op = "update" =>
            /\ None \in {c.dto.attack, c.dto.defense}
            /\ AboutSides(c.dto) => uploads = 1 /\ version[v2] = NoVersion
       /\ c.of = v2 =>
            /\ Plain(v1) /\ c.op # "status"
            /\ c.op = "create" => c.dto.type = None
            /\ c.op = "update" => c.names = {a, b}
  /\ mission' # mission =>
       /\ \A r \in Requests : req[r] = NoJob
       /\ uploads = 1 /\ Plain(v1) /\ mission'.type = "mini"

MCInit == VersionsInit /\ mission.type = "SG"
MCNext == VersionsNext /\ Focus
MCSpec == MCInit /\ [][MCNext]_versionVars
=============================================================================
