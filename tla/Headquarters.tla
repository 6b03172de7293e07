----------------------------- MODULE Headquarters -----------------------------
(***************************************************************************)
(* The headquarters plans of one game, headquarters.service.ts, with the   *)
(* operations of weekends.service.ts and missions.service.ts that keep     *)
(* them up to date: HQ squad, commander and slots of the plan of each side.*)
(*                                                                         *)
(* An organiser's request is a job: it writes the game or the mission      *)
(* version and then brings the plans in line, one write at a time.  A      *)
(* player's request is an ask: it reads and checks, then writes by id.     *)
(* The weekend is published; slot positions and texts are left out.        *)
(***************************************************************************)
EXTENDS Naturals, FiniteSets

CONSTANTS
  Sides,             \* sides a game can have
  PlanSides,         \* those of type BLUE or RED, which get a plan
  Squads, SideOf,    \* squads and the side each belongs to
  Players,           \* players with access to the headquarters of their squad
  Versions,          \* mission versions and the mission each belongs to
  MissionOf,
  Contents,          \* what a version may say about slots
  Types,             \* MissionGameSide
  DefaultCallsigns,  \* DEFAULT_CALLSIGNS
  Counts,            \* slot counts a commander may enter
  Games,             \* the Game rows an organiser may create
  Edits,             \* and the changes they may ask for: Keep or a value per field
  Jobs, Asks,        \* requests of organisers and of players running concurrently
  None, Keep         \* null, and a field that the dto does not have

MaybeOf(S) == S \union {None}
MayKeep(S) == S \union {Keep}

\* What resolveFriendlySideInput lets pass; and the groups of a side have callsigns
\* of their own.
ContentOK(c) ==
  /\ DOMAIN c = {"attackType", "defenseType", "friendlyType", "friendlyTo",
                 "attackSlots", "defenseSlots", "friendlySlots"}
  /\ {c.attackType, c.defenseType} \subseteq Types
  /\ c.friendlyType \in MaybeOf(Types) \ {c.attackType, c.defenseType}
  /\ c.friendlyType = None <=> c.friendlyTo = None
  /\ \A list \in {c.attackSlots, c.defenseSlots, c.friendlySlots} :
       IsFiniteSet(list) /\ \A s, t \in list : s[1] = t[1] => s = t

GameRows == [version : Versions, attack : Sides, defense : Sides,
             attackHq : MaybeOf(Squads), defenseHq : MaybeOf(Squads)]

ASSUME HeadquartersAssumption ==
  /\ PlanSides \subseteq Sides
  /\ SideOf \in [Squads -> Sides]
  /\ None \notin Sides \union Squads \union Players \union Versions \union Types \union GameRows
  /\ Keep \notin Sides \union Squads \union Versions \union {None}
  /\ \A c \in Contents : ContentOK(c)
  /\ Games \subseteq GameRows
  /\ Edits \subseteq [version : MayKeep(Versions), attack : MayKeep(Sides),
                      defense : MayKeep(Sides), attackHq : MayKeep(MaybeOf(Squads)),
                      defenseHq : MayKeep(MaybeOf(Squads))]
  /\ IsFiniteSet(DefaultCallsigns) /\ IsFiniteSet(Asks)

VARIABLES
  game,      \* the Game row
  version,   \* MissionVersion rows
  plan,      \* GamePlan rows, by side
  slots,     \* GamePlanSlot rows
  disbanded, \* squads that have been deleted
  officer,   \* the squad each user is leader, subleader or HQ of
  job,       \* organisers' requests between two awaits
  ask,       \* players' requests between two awaits
  lapsed     \* history: what a job broke off or left undone, "slots" or "plans", and
             \* "overlap" when two have overlapped

planVars == <<game, version, plan, slots, disbanded, officer, job, ask, lapsed>>

-----------------------------------------------------------------------------
Row(callsign, type, count) == [callsign |-> callsign, type |-> type, count |-> count]

\* A slot row's id: the copies tell rows of one callsign and type apart.
Id(s) == [side |-> s.side, callsign |-> s.callsign, type |-> s.type, copy |-> s.copy]
Key(s) == <<s.callsign, s.type>>

NoPlan == [exists |-> FALSE, hq |-> None, commander |-> None, from |-> None,
           era |-> None, detached |-> FALSE]
IdleJob == [step |-> "idle", route |-> "none", edit |-> None, todo |-> {}, version |-> None,
            game |-> None, content |-> None, counts |-> FALSE, friendly |-> FALSE,
            previous |-> None, hq |-> FALSE, rows |-> {}]
NoAsk == [step |-> "idle", side |-> None, user |-> None, squad |-> None, slot |-> None,
          count |-> 0, era |-> None, late |-> FALSE]

HeadquartersInit ==
  /\ game = None
  /\ version \in [Versions -> Contents]
  /\ plan = [p \in PlanSides |-> NoPlan]
  /\ slots = {}
  /\ disbanded = {}
  /\ officer \in [Players -> Squads \union {None}]
  /\ job = [j \in Jobs |-> IdleJob]
  /\ ask = [a \in Asks |-> NoAsk]
  /\ lapsed = {}

\* History: the sides and the mission that a commander is appointed for.
Era == IF game = None THEN None ELSE <<game.attack, game.defense, MissionOf[game.version]>>

-----------------------------------------------------------------------------
(* Reads shared by the operations. *)

\* resolveHqSquadIdForSide
HqSquadOf(g, p) ==
  IF p = g.attack THEN g.attackHq ELSE IF p = g.defense THEN g.defenseHq ELSE None

PrimaryType(g, c, p) ==
  IF p = g.attack THEN c.attackType ELSE IF p = g.defense THEN c.defenseType ELSE None

\* getMissionSlotsForGameSide: callsigns with their counts.
PrimarySlots(g, c, p) ==
  IF p = g.attack THEN c.attackSlots ELSE IF p = g.defense THEN c.defenseSlots ELSE {}

\* buildGamePlanSlotRows: the slots of the side, or the default callsigns, and
\* those of its friendly side.
SlotRows(g, c, p) ==
  LET type == PrimaryType(g, c, p)
      primary == PrimarySlots(g, c, p)
  IN {Row(s[1], type, s[2]) : s \in primary}
     \union {Row(callsign, type, 0) : callsign \in IF primary = {} THEN DefaultCallsigns ELSE {}}
     \union {Row(s[1], c.friendlyType, s[2]) : s \in
               IF type # None /\ c.friendlyType # None /\ c.friendlyTo = type
               THEN c.friendlySlots ELSE {}}

\* syncGamePlanSlotsForGame: the types whose rows are rebuilt, not compared.
FriendlyTypes(j) ==
  IF job[j].friendly THEN {job[j].previous, job[j].content.friendlyType} \ {None} ELSE {}

\* createMany: rows of new ids, which no slot has and no request refers to.
TakenIds ==
  {Id(s) : s \in slots} \union {ask[a].slot : a \in Asks}
  \union UNION {{Id(s) : s \in {t \in job[j].rows : t.type \notin FriendlyTypes(j)}} : j \in Jobs}
NewCopy(p, d) ==
  CHOOSE n \in 0 .. Cardinality(TakenIds) :
    [side |-> p, callsign |-> d.callsign, type |-> d.type, copy |-> n] \notin TakenIds
NewSlots(p, rows) ==
  {[side |-> p, callsign |-> d.callsign, type |-> d.type, copy |-> NewCopy(p, d),
    count |-> d.count, squads |-> {}, wanted |-> {}] : d \in rows}

\* History: the asks that read an HQ squad which this step replaces.
AsksAfter ==
  [a \in Asks |->
     IF /\ ask[a].step \in {"appoint", "takeHq"}
        /\ plan'[ask[a].side].hq # plan[ask[a].side].hq
     THEN [ask[a] EXCEPT !.late = TRUE] ELSE ask[a]]

\* Nothing keeps organisers' requests apart.
StartJob(j, call) ==
  /\ job[j] = IdleJob
  /\ job' = [job EXCEPT ![j] = call]
  /\ lapsed' = IF \A k \in Jobs : job[k] = IdleJob THEN lapsed ELSE lapsed \union {"overlap"}

Continue(j, step) == job' = [job EXCEPT ![j].step = step]
ContinueFor(j, step, todo) == job' = [job EXCEPT ![j].step = step, ![j].todo = todo]
EndJob(j) == job' = [job EXCEPT ![j] = IdleJob]

\* History: what stays undone when a job breaks off after its first write.
LeftUndone(j) ==
  IF job[j].step \in {"idle", "saveGame", "saveVersion", "readHq", "setHq"} THEN {}
  ELSE IF job[j].route = "reset" THEN {"slots", "plans"} ELSE {"slots"}

-----------------------------------------------------------------------------
(* Creating and changing the game: what the organiser's request writes first. *)

\* validateGameHqSquads, for the squads the dto names.
ValidHqSquads(attack, defense, attackHq, defenseHq) ==
  /\ attackHq \in Squads => attackHq \notin disbanded /\ SideOf[attackHq] = attack
  /\ defenseHq \in Squads => defenseHq \notin disbanded /\ SideOf[defenseHq] = defense

\* createGame, or weekend create: the game is stored before its plans are.
CreateGame(j, g) ==
  /\ game = None
  /\ ValidHqSquads(g.attack, g.defense, g.attackHq, g.defenseHq)
  /\ game' = g
  /\ StartJob(j, [IdleJob EXCEPT !.step = "load", !.route = "create"])
  /\ UNCHANGED <<version, plan, slots, disbanded, officer, ask>>

\* The columns that the dto names, as updateGame collects them.
Edited(e) == [f \in DOMAIN e |-> IF e[f] = Keep THEN game[f] ELSE e[f]]

\* updateGame up to the write: what has to follow is decided on what is read
\* here; HQ squads that the dto does not name are not validated.
UpdateGameCheck(j, e) ==
  /\ game # None
  /\ LET next == Edited(e)
         old == version[game.version]
         new == version[next.version]
         reset == \/ next.attack # game.attack \/ next.defense # game.defense
                  \/ MissionOf[next.version] # MissionOf[game.version]
         hq == next.attackHq # game.attackHq \/ next.defenseHq # game.defenseHq
     IN /\ ValidHqSquads(next.attack, next.defense, e.attackHq, e.defenseHq)
        /\ StartJob(j, [IdleJob EXCEPT
             !.step = "saveGame", !.edit = e, !.hq = hq,
             !.route = IF reset THEN "reset"
                       ELSE IF next.version # game.version THEN "sync"
                       ELSE IF hq THEN "hq" ELSE "none",
             !.counts = TRUE, !.previous = old.friendlyType,
             !.friendly = old.friendlyTo # new.friendlyTo
                          \/ old.friendlyType # new.friendlyType])
  /\ UNCHANGED <<game, version, plan, slots, disbanded, officer, ask>>

\* game.update with the fields the dto has; it throws when a squad has gone.
SaveGame(j) ==
  LET e == job[j].edit IN
  /\ job[j].step = "saveGame"
  /\ IF {e.attackHq, e.defenseHq} \intersect disbanded # {}
     THEN UNCHANGED game /\ EndJob(j)
     ELSE /\ game' = Edited(e)
          /\ CASE job[j].route = "none" -> EndJob(j)
               [] job[j].route = "hq" -> Continue(j, "readHq")
               [] OTHER -> Continue(j, "load")
  /\ UNCHANGED <<version, plan, slots, disbanded, officer, ask, lapsed>>

\* deleteGame, or weekend delete: plans and slots go with the game, and what
\* is under way for them throws at its next write.
DeleteGame ==
  /\ game # None
  /\ game' = None
  /\ plan' = [p \in PlanSides |-> NoPlan]
  /\ slots' = {}
  /\ job' = [j \in Jobs |-> IF job[j].step = "saveVersion" THEN job[j] ELSE IdleJob]
  /\ ask' = [a \in Asks |-> NoAsk]
  /\ lapsed' = lapsed \intersect {"overlap"}
  /\ UNCHANGED <<version, disbanded, officer>>

\* updateMissionVersion up to the write.  With a file all that a version says
\* about slots is replaced; without one the slots stay those of the old file.
UpdateVersionCheck(j, v, c, file) ==
  /\ LET old == version[v]
         friendlySlots == IF c.friendlyType = None THEN {} ELSE old.friendlySlots
         new == IF file THEN c
                ELSE [c EXCEPT !.attackSlots = old.attackSlots,
                               !.defenseSlots = old.defenseSlots,
                               !.friendlySlots = friendlySlots]
     IN /\ new # old
        /\ StartJob(j, [IdleJob EXCEPT
             !.step = "saveVersion", !.route = "sync", !.version = v, !.content = new,
             !.counts = file, !.previous = old.friendlyType,
             !.friendly = old.friendlyTo # new.friendlyTo
                          \/ old.friendlyType # new.friendlyType])
  /\ UNCHANGED <<game, version, plan, slots, disbanded, officer, ask>>

\* syncGamePlanSlotsForMissionVersion finds the games of the version.
Uses(v) == game # None /\ game.version = v

\* The update, then the old file is removed, which may throw: then the plans
\* of the games with this version are left as they are, as they are when the
\* sides' types change without a file.
SaveVersion(j) ==
  LET v == job[j].version
      used == Uses(v)
      retyped == \/ job[j].content.attackType # version[v].attackType
                 \/ job[j].content.defenseType # version[v].defenseType
  IN
  /\ job[j].step = "saveVersion"
  /\ version' = [version EXCEPT ![v] = job[j].content]
  /\ \/ /\ used /\ (job[j].counts \/ job[j].friendly)
        /\ Continue(j, "load")
        /\ lapsed' = IF retyped /\ ~job[j].counts THEN lapsed \union {"slots"} ELSE lapsed
     \/ /\ ~used \/ ~(job[j].counts \/ job[j].friendly)
        /\ EndJob(j)
        /\ lapsed' = IF used THEN lapsed \union {"slots"} ELSE lapsed
     \/ /\ used /\ job[j].counts
        /\ EndJob(j)
        /\ lapsed' = lapsed \union {"slots"}
  /\ UNCHANGED <<game, plan, slots, disbanded, officer, ask>>

-----------------------------------------------------------------------------
(* Bringing the plans in line with the game. *)

\* loadGameForSlotRows
LoadGame(j) ==
  /\ job[j].step = "load"
  /\ job' = [job EXCEPT ![j].step = "ensure", ![j].game = game,
                        ![j].content = version[game.version]]
  /\ UNCHANGED <<game, version, plan, slots, disbanded, officer, ask, lapsed>>

\* ensureGamePlansForGame, for a side without a plan: the plan, which cannot
\* be created with a squad that has gone since ...
CreatePlan(j, p) ==
  LET hq == HqSquadOf(job[j].game, p) IN
  /\ job[j].step = "ensure"
  /\ ~plan[p].exists
  /\ IF hq \in disbanded
     THEN UNCHANGED plan /\ EndJob(j) /\ lapsed' = lapsed \union LeftUndone(j)
     ELSE /\ plan' = [plan EXCEPT ![p] = [NoPlan EXCEPT !.exists = TRUE, !.hq = hq]]
          /\ ContinueFor(j, "fill", {p})
          /\ UNCHANGED lapsed
  /\ UNCHANGED <<game, version, slots, disbanded, officer, ask>>

\* ... and then its slots.
FillPlan(j, p) ==
  /\ job[j].step = "fill" /\ p \in job[j].todo
  /\ slots' = slots \union NewSlots(p, SlotRows(job[j].game, job[j].content, p))
  /\ ContinueFor(j, "ensure", {})
  /\ UNCHANGED <<game, version, plan, disbanded, officer, ask, lapsed>>

\* Every side has its plan: go on with what the request is for.
PlansEnsured(j) ==
  /\ job[j].step = "ensure"
  /\ \A p \in PlanSides : plan[p].exists
  /\ CASE job[j].route = "create" -> EndJob(j)
       [] job[j].route = "reset" -> ContinueFor(j, "rebuild", PlanSides)
       [] job[j].route = "sync" -> Continue(j, "readPlans")
  /\ UNCHANGED <<game, version, plan, slots, disbanded, officer, ask, lapsed>>

\* Mutant of RebuildSlots: the old rows are not deleted.
RebuildSlotsOnTop(j, p) ==
  /\ job[j].step = "rebuild" /\ p \in job[j].todo
  /\ slots' = slots \union NewSlots(p, SlotRows(job[j].game, job[j].content, p))
  /\ IF job[j].todo = {p} THEN ContinueFor(j, "clear", {})
                          ELSE ContinueFor(j, "rebuild", job[j].todo \ {p})
  /\ UNCHANGED <<game, version, plan, disbanded, officer, ask, lapsed>>

\* rebuildGamePlanSlotsForGame: the transaction of one plan.
RebuildSlots(j, p) ==
  /\ job[j].step = "rebuild" /\ p \in job[j].todo
  /\ slots' = {s \in slots : s.side # p}
              \union NewSlots(p, SlotRows(job[j].game, job[j].content, p))
  /\ IF job[j].todo = {p} THEN ContinueFor(j, "clear", {})
                          ELSE ContinueFor(j, "rebuild", job[j].todo \ {p})
  /\ UNCHANGED <<game, version, plan, disbanded, officer, ask, lapsed>>

\* Mutant of ClearPlans: the HQ squads alone are cleared.
ClearHqSquads(j) ==
  /\ job[j].step = "clear"
  /\ plan' = [p \in PlanSides |-> [plan[p] EXCEPT !.exists = TRUE, !.hq = None]]
  /\ ask' = AsksAfter
  /\ Continue(j, "readHq")
  /\ lapsed' = lapsed \intersect {"overlap"}
  /\ UNCHANGED <<game, version, slots, disbanded, officer>>

\* resetGamePlansForGame: commander and HQ squad of all plans are cleared.
ClearPlans(j) ==
  /\ job[j].step = "clear"
  /\ plan' = [p \in PlanSides |-> [NoPlan EXCEPT !.exists = TRUE]]
  /\ ask' = AsksAfter
  /\ Continue(j, "readHq")
  /\ lapsed' = lapsed \intersect {"overlap"}
  /\ UNCHANGED <<game, version, slots, disbanded, officer>>

\* syncGamePlanHqSquadsFromGame: plans whose HQ squad is not the game's ...
ReadHqSquads(j) ==
  LET todo == {p \in PlanSides : plan[p].exists /\ plan[p].hq # HqSquadOf(game, p)} IN
  /\ job[j].step = "readHq"
  /\ IF todo = {} THEN EndJob(j)
     ELSE job' = [job EXCEPT ![j].step = "setHq", ![j].game = game, ![j].todo = todo]
  /\ UNCHANGED <<game, version, plan, slots, disbanded, officer, ask, lapsed>>

\* Mutant of SetHqSquad: the squad is set whether it still exists or not.
SetHqSquadUnchecked(j, p) ==
  LET hq == HqSquadOf(job[j].game, p) IN
  /\ job[j].step = "setHq" /\ p \in job[j].todo
  /\ plan' = [plan EXCEPT ![p] = [NoPlan EXCEPT !.exists = TRUE, !.hq = hq]]
  /\ ask' = AsksAfter
  /\ IF job[j].todo = {p} THEN EndJob(j) ELSE ContinueFor(j, "setHq", job[j].todo \ {p})
  /\ UNCHANGED <<game, version, slots, disbanded, officer, lapsed>>

\* ... get it, and lose their commander.  A squad that has gone cannot be set.
SetHqSquad(j, p) ==
  LET hq == HqSquadOf(job[j].game, p) IN
  /\ job[j].step = "setHq" /\ p \in job[j].todo
  /\ IF hq \in disbanded
     THEN UNCHANGED <<plan, ask>> /\ EndJob(j)
     ELSE /\ plan' = [plan EXCEPT ![p] = [NoPlan EXCEPT !.exists = TRUE, !.hq = hq]]
          /\ ask' = AsksAfter
          /\ IF job[j].todo = {p} THEN EndJob(j)
                                  ELSE ContinueFor(j, "setHq", job[j].todo \ {p})
  /\ UNCHANGED <<game, version, slots, disbanded, officer, lapsed>>

ReadPlans(j) ==
  /\ job[j].step = "readPlans"
  /\ job' = [job EXCEPT ![j].step = IF FriendlyTypes(j) # {} THEN "dropFriendly" ELSE "sync",
                        ![j].rows = {[s EXCEPT !.squads = {}, !.wanted = {}] : s \in slots},
                        ![j].todo = PlanSides]
  /\ UNCHANGED <<game, version, plan, slots, disbanded, officer, ask, lapsed>>

\* A side that was friendly and now plays itself: its rows are deleted by type here,
\* and left out of the comparison.
Promoted(j) == {job[j].content.attackType, job[j].content.defenseType} \intersect FriendlyTypes(j) # {}

DropFriendlySlots(j) ==
  /\ job[j].step = "dropFriendly"
  /\ slots' = {s \in slots : s.type \notin FriendlyTypes(j)}
  /\ Continue(j, "addFriendly")
  /\ lapsed' = IF Promoted(j) THEN lapsed \union {"slots"} ELSE lapsed
  /\ UNCHANGED <<game, version, plan, disbanded, officer, ask>>

AddFriendlySlots(j, p) ==
  /\ job[j].step = "addFriendly" /\ p \in job[j].todo
  /\ slots' = slots \union
       NewSlots(p, {d \in SlotRows(job[j].game, job[j].content, p) :
                      d.type # None /\ d.type = job[j].content.friendlyType})
  /\ IF job[j].todo # {p} THEN ContinueFor(j, "addFriendly", job[j].todo \ {p})
     ELSE IF job[j].counts THEN ContinueFor(j, "sync", PlanSides)
     ELSE EndJob(j)
  /\ UNCHANGED <<game, version, plan, disbanded, officer, ask, lapsed>>

\* Mutant of WithCount: the row is written anew.
AnewWithCount(s, n) == [s EXCEPT !.count = n, !.squads = {}, !.wanted = {}]

WithCount(s, n) == [s EXCEPT !.count = n]

\* syncSlotsForPlan: rows that were read are paired with the rows wanted by
\* callsign and type, of several alike any one.  Paired rows keep their id and
\* their squads; the rest is deleted, and what is missing created.
SyncSlots(j, p) ==
  LET old == {s \in job[j].rows : s.side = p /\ s.type \notin FriendlyTypes(j)}
      wanted == {d \in SlotRows(job[j].game, job[j].content, p) :
                   d.type \notin FriendlyTypes(j)}
      keys == {Key(s) : s \in old} \intersect {Key(d) : d \in wanted}
      Count(k) == (CHOOSE d \in wanted : Key(d) = k).count
  IN
  /\ job[j].step = "sync" /\ p \in job[j].todo
  /\ \E kept \in SUBSET {s \in old : Key(s) \in keys} :
       /\ \A k \in keys : \E s \in kept : Key(s) = k
       /\ \A s, t \in kept : Key(s) = Key(t) => s = t
       /\ LET dropped == {Id(s) : s \in old \ kept}
              changed == {Id(s) : s \in {t \in kept : t.count # Count(Key(t))}}
              left == {s \in slots : Id(s) \notin dropped}
          IN IF changed \subseteq {Id(s) : s \in left}
             THEN /\ slots' = {IF Id(s) \in changed THEN WithCount(s, Count(Key(s)))
                                                    ELSE s : s \in left}
                              \union NewSlots(p, {d \in wanted : Key(d) \notin keys})
                  /\ IF job[j].todo # {p} THEN ContinueFor(j, "sync", job[j].todo \ {p})
                     ELSE IF job[j].hq THEN Continue(j, "readHq") ELSE EndJob(j)
                  /\ lapsed' = IF job[j].todo = {p} /\ ~Promoted(j) THEN lapsed \ {"slots"} ELSE lapsed
             ELSE UNCHANGED slots /\ EndJob(j) /\ lapsed' = lapsed \union LeftUndone(j)
  /\ UNCHANGED <<game, version, plan, disbanded, officer, ask>>

-----------------------------------------------------------------------------
(* Requests of players: the reads and checks ... *)

AskMayStart(a, p) == ask[a] = NoAsk /\ plan[p].exists

\* ensureUserCanAccessHeadquartersForSide
MayAccess(u, p) == officer[u] # None /\ SideOf[officer[u]] = p

\* ensureIsCommander
Commands(u, p) == MayAccess(u, p) /\ plan[p].commander = u

StartAsk(a, call) ==
  /\ ask' = [ask EXCEPT ![a] = call]
  /\ UNCHANGED <<game, version, plan, slots, disbanded, officer, job, lapsed>>

AssignHqSquadCheck(a, p, u) ==
  /\ AskMayStart(a, p)
  /\ MayAccess(u, p)
  /\ plan[p].hq = None
  /\ StartAsk(a, [NoAsk EXCEPT !.step = "takeHq", !.side = p, !.squad = officer[u]])

AssignCommanderCheck(a, p, u) ==
  /\ AskMayStart(a, p)
  /\ MayAccess(u, p)
  /\ plan[p].hq = officer[u]
  /\ StartAsk(a, [NoAsk EXCEPT !.step = "appoint", !.side = p, !.user = u,
                            !.squad = officer[u], !.era = Era])

\* The leadership of the HQ squad, or a super admin.
UnassignHqSquadCheck(a, p) ==
  /\ AskMayStart(a, p)
  /\ plan[p].hq # None
  /\ StartAsk(a, [NoAsk EXCEPT !.step = "dropHq", !.side = p])

\* The commander, or a super admin.
UnassignCommanderCheck(a, p) ==
  /\ AskMayStart(a, p)
  /\ StartAsk(a, [NoAsk EXCEPT !.step = "dismiss", !.side = p])

\* ensureSquadInSameSide
OfSide(q, p) == q \notin disbanded /\ SideOf[q] = p

\* assignSquadToSlot: a squad of the plan's side.
AssignSquadCheck(a, u, s, q) ==
  /\ AskMayStart(a, s.side)
  /\ Commands(u, s.side)
  /\ OfSide(q, s.side)
  /\ StartAsk(a, [NoAsk EXCEPT !.step = "place", !.side = s.side, !.squad = q, !.slot = Id(s)])

\* unassignSquadFromSlot
UnassignSquadCheck(a, u, s, q) ==
  /\ AskMayStart(a, s.side)
  /\ Commands(u, s.side)
  /\ q \in s.squads
  /\ StartAsk(a, [NoAsk EXCEPT !.step = "remove", !.side = s.side, !.squad = q, !.slot = Id(s)])

\* updateSlot, which may change the count.
UpdateSlotCheck(a, u, s, n) ==
  /\ AskMayStart(a, s.side)
  /\ Commands(u, s.side)
  /\ n # s.count
  /\ StartAsk(a, [NoAsk EXCEPT !.step = "edit", !.side = s.side, !.slot = Id(s), !.count = n])

\* assignMySquadAsWanted, unassignMySquadAsWanted: officers, of their own squad.
WantSlotCheck(a, u, s) ==
  /\ AskMayStart(a, s.side)
  /\ MayAccess(u, s.side)
  /\ StartAsk(a, [NoAsk EXCEPT !.step = "want", !.side = s.side, !.squad = officer[u], !.slot = Id(s)])

UnwantSlotCheck(a, u, s) ==
  /\ AskMayStart(a, s.side)
  /\ MayAccess(u, s.side)
  /\ StartAsk(a, [NoAsk EXCEPT !.step = "unwant", !.side = s.side, !.squad = officer[u], !.slot = Id(s)])

-----------------------------------------------------------------------------
(* ... and the writes, by id. *)

\* gamePlan.update, which throws when a squad it names has gone.
AssignHqSquad(a) ==
  LET p == ask[a].side IN
  /\ ask[a].step = "takeHq"
  /\ plan' = IF ask[a].squad \in disbanded THEN plan
             ELSE [plan EXCEPT ![p].hq = ask[a].squad,
                               ![p].detached = \/ plan[p].detached
                                               \/ ask[a].late /\ plan[p].commander # None]
  /\ ask' = [AsksAfter EXCEPT ![a] = NoAsk]
  /\ UNCHANGED <<game, version, slots, disbanded, officer, job, lapsed>>

AssignCommander(a) ==
  LET p == ask[a].side IN
  /\ ask[a].step = "appoint"
  /\ plan' = [plan EXCEPT ![p].commander = ask[a].user, ![p].from = ask[a].squad,
                          ![p].era = ask[a].era, ![p].detached = ask[a].late]
  /\ ask' = [ask EXCEPT ![a] = NoAsk]
  /\ UNCHANGED <<game, version, slots, disbanded, officer, job, lapsed>>

\* Mutant of UnassignHqSquad: the commander stays.
UnassignHqSquadOnly(a) ==
  /\ ask[a].step = "dropHq"
  /\ plan' = [plan EXCEPT ![ask[a].side].hq = None]
  /\ ask' = [AsksAfter EXCEPT ![a] = NoAsk]
  /\ UNCHANGED <<game, version, slots, disbanded, officer, job, lapsed>>

UnassignHqSquad(a) ==
  /\ ask[a].step = "dropHq"
  /\ plan' = [plan EXCEPT ![ask[a].side] = [NoPlan EXCEPT !.exists = TRUE]]
  /\ ask' = [AsksAfter EXCEPT ![a] = NoAsk]
  /\ UNCHANGED <<game, version, slots, disbanded, officer, job, lapsed>>

UnassignCommander(a) ==
  LET p == ask[a].side IN
  /\ ask[a].step = "dismiss"
  /\ plan' = [plan EXCEPT ![p] = [NoPlan EXCEPT !.exists = TRUE, !.hq = plan[p].hq]]
  /\ ask' = [ask EXCEPT ![a] = NoAsk]
  /\ UNCHANGED <<game, version, slots, disbanded, officer, job, lapsed>>

\* gamePlanSlot.update, which throws when the row or the squad has gone.
UpdateSlot(a) ==
  LET Written(s) ==
        CASE ask[a].step = "place" -> [s EXCEPT !.squads = @ \union ({ask[a].squad} \ disbanded)]
          [] ask[a].step = "remove" -> [s EXCEPT !.squads = @ \ {ask[a].squad}]
          [] ask[a].step = "want" -> [s EXCEPT !.wanted = @ \union ({ask[a].squad} \ disbanded)]
          [] ask[a].step = "unwant" -> [s EXCEPT !.wanted = @ \ {ask[a].squad}]
          [] ask[a].step = "edit" -> [s EXCEPT !.count = ask[a].count]
  IN
  /\ ask[a].step \in {"place", "remove", "want", "unwant", "edit"}
  /\ slots' = {IF Id(s) = ask[a].slot THEN Written(s) ELSE s : s \in slots}
  /\ ask' = [ask EXCEPT ![a] = NoAsk]
  /\ UNCHANGED <<game, version, plan, disbanded, officer, job, lapsed>>

-----------------------------------------------------------------------------
(* What happens around the headquarters. *)

\* A player leaves the squad, or becomes an officer of one (Squads).
MoveOfficer(u, q) ==
  /\ q \in (Squads \ disbanded) \union {None}
  /\ officer[u] # q
  /\ officer' = [officer EXCEPT ![u] = q]
  /\ UNCHANGED <<game, version, plan, slots, disbanded, job, ask, lapsed>>

\* A squad is deleted: references to it become null, its users leave, and the
\* commander of a plan stays.
DeleteSquad(q) ==
  /\ q \notin disbanded
  /\ disbanded' = disbanded \union {q}
  /\ officer' = [u \in Players |-> IF officer[u] = q THEN None ELSE officer[u]]
  /\ game' = IF game = None THEN None
             ELSE [game EXCEPT !.attackHq = IF @ = q THEN None ELSE @,
                               !.defenseHq = IF @ = q THEN None ELSE @]
  /\ plan' = [p \in PlanSides |->
       IF plan[p].hq # q THEN plan[p]
       ELSE [plan[p] EXCEPT !.hq = None,
                            !.detached = plan[p].detached \/ plan[p].commander # None]]
  /\ slots' = {[s EXCEPT !.squads = @ \ {q}, !.wanted = @ \ {q}] : s \in slots}
  /\ ask' = AsksAfter
  /\ UNCHANGED <<version, job, lapsed>>

\* The process dies: requests break off between two writes.
CrashJobs ==
  /\ job' = [j \in Jobs |-> IdleJob]
  /\ ask' = [a \in Asks |-> NoAsk]
  /\ lapsed' = lapsed \union UNION {LeftUndone(j) : j \in Jobs}
  /\ UNCHANGED <<game, version, plan, slots, disbanded, officer>>

JobStep(j) ==
  \/ SaveGame(j) \/ SaveVersion(j) \/ LoadGame(j) \/ PlansEnsured(j)
  \/ ClearPlans(j) \/ ReadHqSquads(j) \/ ReadPlans(j) \/ DropFriendlySlots(j)
  \/ \E p \in PlanSides :
       \/ CreatePlan(j, p) \/ FillPlan(j, p) \/ RebuildSlots(j, p)
       \/ SetHqSquad(j, p) \/ AddFriendlySlots(j, p) \/ SyncSlots(j, p)

JobStart(j) ==
  \/ \E g \in Games : CreateGame(j, g)
  \/ \E e \in Edits : UpdateGameCheck(j, e)
  \/ \E v \in Versions, c \in Contents, file \in BOOLEAN : UpdateVersionCheck(j, v, c, file)

AskStep(a) ==
  \/ AssignHqSquad(a) \/ AssignCommander(a) \/ UnassignHqSquad(a)
  \/ UnassignCommander(a) \/ UpdateSlot(a)

AskStart(a) ==
  \/ \E p \in PlanSides, u \in Players : AssignHqSquadCheck(a, p, u) \/ AssignCommanderCheck(a, p, u)
  \/ \E p \in PlanSides : UnassignHqSquadCheck(a, p) \/ UnassignCommanderCheck(a, p)
  \/ \E u \in Players, s \in slots, q \in Squads :
       AssignSquadCheck(a, u, s, q) \/ UnassignSquadCheck(a, u, s, q)
  \/ \E u \in Players, s \in slots, n \in Counts : UpdateSlotCheck(a, u, s, n)
  \/ \E u \in Players, s \in slots : WantSlotCheck(a, u, s) \/ UnwantSlotCheck(a, u, s)

HeadquartersNext ==
  \/ \E j \in Jobs : JobStep(j) \/ JobStart(j)
  \/ \E a \in Asks : AskStep(a) \/ AskStart(a)
  \/ DeleteGame
  \/ \E u \in Players, q \in Squads \union {None} : MoveOfficer(u, q)
  \/ \E q \in Squads : DeleteSquad(q)
  \/ CrashJobs

HeadquartersSpec == HeadquartersInit /\ [][HeadquartersNext]_planVars

-----------------------------------------------------------------------------
(* Properties. *)

SlotIdType(i) ==
  /\ i.side \in PlanSides /\ i.type \in MaybeOf(Types) /\ i.copy \in Nat

\* Types; ids are unique, and no slot without its plan (foreign keys).
HeadquartersTypeOK ==
  /\ game # None =>
       /\ game.version \in Versions /\ game.attack \in Sides /\ game.defense \in Sides
       /\ game.attackHq \in MaybeOf(Squads \ disbanded)
       /\ game.defenseHq \in MaybeOf(Squads \ disbanded)
  /\ \A p \in PlanSides :
       /\ plan[p].hq \in MaybeOf(Squads \ disbanded)
       /\ plan[p].commander \in MaybeOf(Players)
       /\ ~plan[p].exists => plan[p] = NoPlan
  /\ \A s \in slots : SlotIdType(s) /\ plan[s.side].exists
                      /\ s.squads \union s.wanted \subseteq Squads \ disbanded
  /\ \A s, t \in slots : Id(s) = Id(t) => s = t
  /\ officer \in [Players -> MaybeOf(Squads \ disbanded)]
  /\ lapsed \subseteq {"slots", "plans", "overlap"}

\* When no organiser's request is under way and none was cut short or overlapped
\* another, the plan of every side has exactly the slots that the version of the
\* game asks for, one of each callsign and type, whatever players did meanwhile,
\* unless a friendly side came to play itself.  A later request also mends what an
\* earlier one left.
SlotsMatchVersion ==
  game # None /\ lapsed \intersect {"slots", "overlap"} = {}
  /\ (\A j \in Jobs : job[j].step \in {"idle", "saveGame", "saveVersion"})
  => \A p \in PlanSides :
       LET have == {s \in slots : s.side = p} IN
       /\ plan[p].exists
       /\ {Key(s) : s \in have} = {Key(d) : d \in SlotRows(game, version[game.version], p)}
       /\ \A s, t \in have : Key(s) = Key(t) => s = t

\* The commander was appointed as an officer of the squad that is the HQ squad
\* of the plan, unless the appointment or the choice of the HQ squad was
\* written after the HQ squad it had read was replaced, or the squad has been
\* deleted.
CommanderIsFromHq ==
  \A p \in PlanSides :
    plan[p].commander # None /\ ~plan[p].detached => plan[p].from = plan[p].hq

\* A commander does not survive a change of the sides or the mission of the
\* game: one appointed for others is there only until the reset gets to it.
CommanderIsOfThisGame ==
  \A p \in PlanSides :
    plan[p].commander # None /\ ~plan[p].detached /\ lapsed \intersect {"plans", "overlap"} = {}
    => \/ plan[p].era = Era
       \/ \E j \in Jobs : job[j].route = "reset" /\ job[j].step \notin {"saveGame", "readHq", "setHq"}

\* "Count-changed callsigns keep assignments; friendly alliance changes rebuild
\* only friendly-tagged rows": a slot that the version of the game still asks
\* for goes only in a reset, or with the game, or as a row of the old or the
\* new friendly side; and no sync takes a squad from a slot, be it assigned to the
\* slot or one that wants it, unless organisers' requests have overlapped.
TakenOff(s, step) ==
  {ask[a].squad : a \in {b \in Asks :
     ask[b].step = step /\ ask[b].slot = Id(s) /\ ask'[b] = NoAsk}}
KeptSlots ==
  "overlap" \notin lapsed => \A s \in slots :
    \/ \E t \in slots' :
         /\ Id(t) = Id(s)
         /\ s.squads \ (disbanded' \union TakenOff(s, "remove")) \subseteq t.squads
         /\ s.wanted \ (disbanded' \union TakenOff(s, "unwant")) \subseteq t.wanted
    \/ game' = None
    \/ \E j \in Jobs :
         \/ job[j].step = "rebuild" /\ s.side \in job[j].todo \ job'[j].todo
         \/ /\ job[j].step = "dropFriendly" /\ job'[j].step = "addFriendly"
            /\ s.type \in FriendlyTypes(j)
    \/ Key(s) \notin {Key(d) : d \in SlotRows(game, version[game.version], s.side)}
SyncKeepsAssignments == [][KeptSlots]_planVars

\* What validateGameHqSquads says: "Attack HQ squad must belong to the attack
\* side", and the same for the defense.
HqSquadsOfTheirSides ==
  game # None =>
    /\ game.attackHq # None => SideOf[game.attackHq] = game.attack
    /\ game.defenseHq # None => SideOf[game.defenseHq] = game.defense
=============================================================================
