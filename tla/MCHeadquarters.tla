---------------------------- MODULE MCHeadquarters ----------------------------
EXTENDS Headquarters

CONSTANTS blue, red, q1, q2, q3, v1, v2, v3, BLUE, RED, GREEN, a, b, m1, m2, u1, k1

\* Two versions of one mission and one of another; two squads of the side whose
\* plan is followed, one of the other side.
MCSideOf == [q \in Squads |-> IF q = q3 THEN red ELSE blue]
MCMissionOf == [v \in Versions |-> IF v = v3 THEN m2 ELSE m1]

Says(attackType, defenseType, friendlyType, friendlyTo, attackSlots, defenseSlots, friendlySlots) ==
  [attackType |-> attackType, defenseType |-> defenseType, friendlyType |-> friendlyType,
   friendlyTo |-> friendlyTo, attackSlots |-> attackSlots, defenseSlots |-> defenseSlots,
   friendlySlots |-> friendlySlots]

\* Two callsigns or one with another count; with and without a friendly side, which
\* plays itself in the last.
MCContents ==
  { Says(BLUE, RED, None, None, {<<a, 1>>, <<b, 1>>}, {}, {}),
    Says(BLUE, RED, GREEN, BLUE, {<<a, 2>>}, {<<b, 1>>}, {<<a, 1>>}),
    Says(GREEN, RED, None, None, {<<a, 1>>}, {}, {}) }

MCGames ==
  { [version |-> v1, attack |-> blue, defense |-> red, attackHq |-> q1, defenseHq |-> None] }

Change == [version |-> Keep, attack |-> Keep, defense |-> Keep, attackHq |-> Keep, defenseHq |-> Keep]
MCEdits ==
  { [Change EXCEPT !.version = v2], [Change EXCEPT !.version = v1, !.attackHq = q2],
    [Change EXCEPT !.version = v3],
    [Change EXCEPT !.attack = red, !.defense = blue, !.attackHq = None, !.defenseHq = q1] }

\* Only one of the versions is edited, one squad deleted, one squad assigned to
\* one slot; u1 is never with q2.
Few ==
  /\ version[v2].friendlyType = GREEN /\ version[v2].attackSlots = {<<a, 2>>}
  /\ Cardinality({s \in slots : s.squads \union s.wanted # {}}) <= 1
  /\ \A k \in Asks : ask[k].slot # None => ask[k].squad # q1
  /\ officer[u1] # q2 /\ Cardinality(disbanded) <= 1
  /\ version[v3] = Says(BLUE, RED, None, None, {<<a, 1>>, <<b, 1>>}, {}, {}) /\ \A j \in Jobs : job[j].version # v3

\* What one state combines: slots that players change; versions that are edited; a
\* request that was cut short; both of the first with one player's request; or two
\* players' requests, a squad that is deleted, a user who changes squads.
Home(u) == IF u = u1 THEN q1 ELSE q2
AtHome == \A u \in Players : officer[u] = IF Home(u) \in disbanded THEN None ELSE Home(u)
\* Only k1 of the players' requests is used.
OneAsk == \A k \in Asks \ {k1} : ask[k] = NoAsk
SlotsAlone ==
  /\ \A s \in slots : s.squads \union s.wanted = {} /\ s.count # 2
  /\ \A k \in Asks : ask[k].slot = None
VersionsAlone ==
  /\ version[v1].friendlyType = None
  /\ game = None \/ game.version = v1
  /\ \A j \in Jobs : job[j].version = None /\ (job[j].edit # None => job[j].edit.version # v2)
\* The friendly side comes to play itself with its slots, while no player is there.
Said == ({version[v1]} \union {job[j].content : j \in Jobs}) \ {None}
Promotes(c) == c.attackType = GREEN
BringsSlots(c) == c.attackSlots = {<<a, 1>>}
PromotionAlone ==
  (\E c \in Said : Promotes(c) \/ BringsSlots(c)) =>
    /\ \A c \in Said : Promotes(c) <=> BringsSlots(c)
    /\ SlotsAlone /\ AtHome /\ disbanded = {} /\ lapsed \subseteq {"slots"}
    /\ \A k \in Asks : ask[k] = NoAsk
    /\ \A p \in PlanSides : plan[p].commander = None /\ plan[p].hq # q2
\* Syncs meet a slot that players change and both contents have, with another count:
\* one version is edited, or the game comes to use the other.
SyncsMeetSlots ==
  /\ AtHome /\ OneAsk /\ disbanded = {} /\ lapsed = {} /\ plan[blue].hq # q2
  /\ \A s \in slots : <<s.callsign, s.type>> # <<a, BLUE>> =>
       /\ s.squads \union s.wanted = {}
       /\ \A k \in Asks : ask[k].slot # Id(s)
  /\ \A j \in Jobs :
       /\ job[j].route \in {"none", "create", "sync"}
       /\ job[j].edit # None => job[j].edit.version = v2
  /\ (\A j \in Jobs : job[j] = IdleJob) => \A k \in Asks : ask[k] = NoAsk
  /\ version[v1].friendlyType # None =>
       /\ game # None /\ game.version = v1
       /\ \A j \in Jobs : job[j].edit = None
\* A change to the other mission meets one player's request, but no changed slots.
OtherMission ==
  (game # None /\ game.version = v3) \/ (\E j \in Jobs : job[j].edit # None /\ job[j].edit.version = v3)
  => /\ AtHome /\ OneAsk /\ SlotsAlone /\ disbanded = {} /\ lapsed = {}
     /\ version[v1].friendlyType = None /\ game.attack = blue /\ plan[blue].hq # q2
     /\ \E j \in Jobs : job[j].route = "reset"
Focus ==
  /\ Few /\ PromotionAlone /\ OtherMission
  /\ \/ AtHome /\ OneAsk /\ disbanded = {} /\ SlotsAlone
     \/ AtHome /\ OneAsk /\ disbanded = {} /\ VersionsAlone /\ lapsed = {} /\ plan[blue].hq # q2
     \/ SyncsMeetSlots
     \/ lapsed = {} /\ SlotsAlone /\ VersionsAlone /\ (AtHome \/ OneAsk)
=============================================================================
