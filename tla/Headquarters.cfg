\* One plan; an organiser's request, up to two of players, two versions of one
\* mission with and without a friendly side, one of another mission, two squads.
\* Focus says which of these one state combines; syncs meet slots with squads.
SPECIFICATION HeadquartersSpec
CONSTANTS
  blue = blue
  red = red
  q1 = q1
  q2 = q2
  q3 = q3
  v1 = v1
  v2 = v2
  v3 = v3
  BLUE = BLUE
  RED = RED
  GREEN = GREEN
  a = a
  b = b
  u1 = u1
  k1 = k1
  m1 = m1
  m2 = m2
  Sides = {blue, red}
  PlanSides = {blue}
  Squads = {q1, q2}
  SideOf <- MCSideOf
  Players = {u1, u2}
  Versions = {v1, v2, v3}
  MissionOf <- MCMissionOf
  Contents <- MCContents
  Types = {BLUE, RED, GREEN}
  DefaultCallsigns = {a}
  Counts = {2}
  Games <- MCGames
  Edits <- MCEdits
  Jobs = {j1}
  Asks = {k1, k2}
  None = None
  Keep = Keep
INVARIANTS
  HeadquartersTypeOK
  SlotsMatchVersion
  CommanderIsFromHq
  CommanderIsOfThisGame
PROPERTY SyncKeepsAssignments
CONSTRAINT Focus
