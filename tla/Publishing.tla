----------------------------- MODULE Publishing -----------------------------
(***************************************************************************)
(* Weekends with their games, and news: from the draft to the publication  *)
(* of which every active user is told (weekends.service.ts,                *)
(* news.service.ts, notifications.service.ts), then the channels of        *)
(* Telegram and Discord (channel-announcements.service.ts).                *)
(*                                                                         *)
(* The users are told page by page, in the order of their ids.  What a     *)
(* post says, its files (module Files), and the missions and sides of a    *)
(* game (module Headquarters) are left out.                                *)
(***************************************************************************)
EXTENDS Integers, FiniteSets, FiniteSetsExt

CONSTANTS
  UserCount,  \* ids of users are 1..UserCount, in the order of the database
  Batch,      \* users per page: 500 in the code
  Weekends,
  News,
  Games,
  Requests,
  None

ASSUME PublishingAssumption ==
  /\ UserCount \in Nat \ {0} /\ Batch \in Nat \ {0}
  /\ Weekends \intersect News = {}
  /\ None \notin Weekends \union News \union Games \union 0..UserCount

Users == 1..UserCount
Posts == Weekends \union News

VARIABLES
  user,      \* status, and whether the user wants to be told of such posts
  post,      \* the Weekend and News rows
  game,      \* the weekend of each Game row
  notice,    \* Notification rows: how many of each post, by recipient
  channel,   \* posts in the channels that publications have made
  req,       \* handlers between two awaits
  issued,    \* history: how often a draft was published
  doubled,   \* history: posts that two handlers published at a time
  emptied    \* history: weekends left without a game, by two deletions of games at
             \* a time or by a deletion of the weekend that broke off

vars == <<user, post, game, notice, channel, req, issued, doubled, emptied>>

-----------------------------------------------------------------------------
\* A user may be about to register.
UserRows == [status : {"new", "active", "banned", "gone"}, wants : BOOLEAN]
PostStates == {"none", "draft", "published", "gone"}

\* `muted` are the users whose preference was found off, `cursor` the last user of
\* the page before, `page` the users about to be told.  `steady` are the users that
\* have been active and willing since, `moved` whether the cursor's user has not.
Ops == {"idle", "update", "prefs", "page", "write", "announce",
        "games", "delete", "addGame", "dropGame"}
Calls == [op : Ops, post : Posts \union {None}, actor : Users \union {None},
          was : PostStates, to : PostStates \union {"same"}, game : Games \union {None},
          muted : SUBSET Users, cursor : 0..UserCount, page : SUBSET Users,
          steady : SUBSET Users, moved : BOOLEAN, stale : BOOLEAN]
Idle == [op |-> "idle", post |-> None, actor |-> None, was |-> "none", to |-> "same",
         game |-> None, muted |-> {}, cursor |-> 0, page |-> {},
         steady |-> {}, moved |-> FALSE, stale |-> FALSE]

Live(p) == post[p] \in {"draft", "published"}
GamesOf(w) == {g \in Games : game[g] = w}

\* Types; games belong to weekends that exist.
PublishingTypeOK ==
  /\ user \in [Users -> UserRows]
  /\ post \in [Posts -> PostStates]
  /\ game \in [Games -> Weekends \union {None}]
  /\ \A g \in Games : game[g] # None => Live(game[g])
  /\ notice \in [Posts -> [Users -> Nat]]
  /\ channel \in [Posts -> Nat]
  /\ req \in [Requests -> Calls]
  /\ issued \in [Posts -> Nat]
  /\ doubled \subseteq Posts
  /\ emptied \subseteq Weekends

Init ==
  /\ user \in [Users -> {[status |-> s, wants |-> TRUE] : s \in {"new", "active"}}]
  /\ post = [p \in Posts |-> "none"]
  /\ game = [g \in Games |-> None]
  /\ notice = [p \in Posts |-> [u \in Users |-> 0]]
  /\ channel = [p \in Posts |-> 0]
  /\ req = [r \in Requests |-> Idle]
  /\ issued = [p \in Posts |-> 0]
  /\ doubled = {}
  /\ emptied = {}

-----------------------------------------------------------------------------
Step(r, call) == req' = [req EXCEPT ![r] = call]

Begin(r, call) == req[r] = Idle /\ Step(r, call)

Fresh(g) == game[g] = None /\ \A r \in Requests : req[r].game # g

\* A draft becomes public, or a post is from the start.
ToBeTold(was, now) == was # "published" /\ now = "published"

\* A post is there; published, its users are to be told.
Publish(r, a, p, was, now) ==
  /\ post' = [post EXCEPT ![p] = now]
  /\ LET told == ToBeTold(was, now)
     IN /\ Step(r, IF told THEN [Idle EXCEPT !.op = "prefs", !.post = p, !.actor = a] ELSE Idle)
        /\ issued' = IF told /\ post[p] # "published" THEN [issued EXCEPT ![p] = @ + 1] ELSE issued
        /\ doubled' = IF told /\ post[p] = "published" THEN doubled \union {p} ELSE doubled

\* WeekendsService.create: with one game at least, in one write.
CreateWeekend(r, a, w, gs, now) ==
  /\ req[r] = Idle /\ post[w] = "none" /\ gs # {} /\ \A g \in gs : Fresh(g)
  /\ now \in {"draft", "published"}
  /\ Publish(r, a, w, "none", now)
  /\ game' = [g \in Games |-> IF g \in gs THEN w ELSE game[g]]
  /\ UNCHANGED <<user, notice, channel, emptied>>

\* NewsService.create, after its uploads.
CreateNews(r, a, n, now) ==
  /\ req[r] = Idle /\ post[n] = "none" /\ now \in {"draft", "published"}
  /\ Publish(r, a, n, "none", now)
  /\ UNCHANGED <<user, game, notice, channel, emptied>>

\* update, of weekends and of news: what was, and what the dto says.
UpdateCheck(r, a, p, to) ==
  /\ Live(p) /\ to \in {"same", "draft", "published"}
  /\ Begin(r, [Idle EXCEPT !.op = "update", !.post = p, !.actor = a, !.was = post[p], !.to = to])
  /\ UNCHANGED <<user, post, game, notice, channel, issued, doubled, emptied>>

Update(r) ==
  LET p == req[r].post
  IN /\ req[r].op = "update" /\ Live(p)
     /\ Publish(r, req[r].actor, p, req[r].was, IF req[r].to = "same" THEN post[p] ELSE req[r].to)
     /\ UNCHANGED <<user, game, notice, channel, emptied>>

-----------------------------------------------------------------------------
(* notifyAllActiveUsers                                                    *)

ReadPreferences(r) ==
  /\ req[r].op = "prefs"
  /\ LET muted == {u \in Users : user[u].status # "gone" /\ ~user[u].wants}
     IN Step(r, [req[r] EXCEPT !.op = "page", !.muted = muted,
          !.steady = {u \in Users \ muted : user[u].status = "active"} \ {req[r].actor}])
  /\ UNCHANGED <<user, post, game, notice, channel, issued, doubled, emptied>>

\* The rows from the cursor on: of Prisma, `where` and `id >= (the id of the cursor's
\* row)`, so that without that row there are none.
Others(r) == {u \in Users : user[u].status = "active" /\ u # req[r].actor}
From(r) ==
  LET c == req[r].cursor
  IN IF c = 0 THEN Others(r)
     ELSE IF user[c].status = "gone" THEN {} ELSE {u \in Others(r) : u >= c}

\* Mutant of Skipped: the page starts with the cursor.
NotSkipped(r) == From(r)

\* `skip: 1` drops the first row, which is the cursor's if that still is in the list.
Skipped(r) == IF req[r].cursor = 0 \/ From(r) = {} THEN From(r) ELSE From(r) \ {Min(From(r))}

\* `take: batchSize`
PageOf(us) == {u \in us : Cardinality({v \in us : v <= u}) <= Batch}

ReadPage(r) ==
  /\ req[r].op = "page"
  /\ LET page == PageOf(Skipped(r))
     IN Step(r, [req[r] EXCEPT !.op = IF page = {} THEN "announce" ELSE "write", !.page = page])
  /\ UNCHANGED <<user, post, game, notice, channel, issued, doubled, emptied>>

\* createMany refuses the whole page when one of its users is gone, or the one who
\* published: the handler ends, and whoever comes after is not told.
WriteNotices(r) ==
  LET page == req[r].page
      to == page \ req[r].muted
  IN /\ req[r].op = "write"
     /\ IF to # {} /\ \E u \in to \union {req[r].actor} : user[u].status = "gone"
        THEN Step(r, Idle) /\ UNCHANGED notice
        ELSE /\ notice' = [notice EXCEPT ![req[r].post] =
                             [u \in Users |-> IF u \in to THEN @[u] + 1 ELSE @[u]]]
             /\ Step(r, [req[r] EXCEPT !.op = IF Cardinality(page) < Batch THEN "announce" ELSE "page",
                                       !.cursor = Max(page), !.page = {}, !.steady = @ \ to])
     /\ UNCHANGED <<user, post, game, channel, issued, doubled, emptied>>

\* To the channels of the active bots; an error, of the image of the news too, is
\* logged and ends the handler as well as the answer does.
Announce(r) ==
  /\ req[r].op = "announce"
  /\ \/ channel' = [channel EXCEPT ![req[r].post] = @ + 1]
     \/ UNCHANGED channel
  /\ Step(r, Idle)
  /\ UNCHANGED <<user, post, game, notice, issued, doubled, emptied>>

AnnounceWeekend(r) == req[r].post \in Weekends /\ Announce(r)
AnnounceNews(r) == req[r].post \in News /\ Announce(r)

-----------------------------------------------------------------------------
(* Games and deletions.                                                    *)

\* WeekendsService.delete: the games that it finds, then the weekend.
DeleteWeekendCheck(r, w) ==
  /\ Live(w)
  /\ Begin(r, [Idle EXCEPT !.op = IF GamesOf(w) = {} THEN "delete" ELSE "games", !.post = w])
  /\ UNCHANGED <<user, post, game, notice, channel, issued, doubled, emptied>>

\* Whoever has counted the games of w has counted others than there are.
Uncount(w, call) == IF call.op = "dropGame" /\ call.post = w THEN [call EXCEPT !.stale = TRUE] ELSE call

DeleteGames(r) ==
  LET w == req[r].post
  IN /\ req[r].op = "games"
     /\ game' = [g \in Games |-> IF game[g] = w THEN None ELSE game[g]]
     /\ req' = [q \in Requests |->
                 IF q = r THEN [req[r] EXCEPT !.op = "delete"] ELSE Uncount(w, req[q])]
     /\ UNCHANGED <<user, post, notice, channel, issued, doubled, emptied>>

\* Mutant of DeleteWeekend: without the foreign key of the games.
DeleteWeekendAnyway(r) ==
  LET w == req[r].post
  IN /\ req[r].op = "delete"
     /\ post' = IF Live(w) THEN [post EXCEPT ![w] = "gone"] ELSE post
     /\ Step(r, Idle)
     /\ UNCHANGED <<user, game, notice, channel, issued, doubled, emptied>>

\* A game created since keeps its weekend.
DeleteWeekend(r) ==
  LET w == req[r].post
  IN /\ req[r].op = "delete"
     /\ post' = IF Live(w) /\ GamesOf(w) = {} THEN [post EXCEPT ![w] = "gone"] ELSE post
     /\ Step(r, Idle)
     /\ UNCHANGED <<user, game, notice, channel, issued, doubled, emptied>>

\* NewsService.delete
DeleteNews(n) ==
  /\ Live(n)
  /\ post' = [post EXCEPT ![n] = "gone"]
  /\ UNCHANGED <<user, game, notice, channel, req, issued, doubled, emptied>>

CreateGameCheck(r, w, g) ==
  /\ Live(w) /\ Fresh(g)
  /\ Begin(r, [Idle EXCEPT !.op = "addGame", !.post = w, !.game = g])
  /\ UNCHANGED <<user, post, game, notice, channel, issued, doubled, emptied>>

CreateGame(r) ==
  LET w == req[r].post
  IN /\ req[r].op = "addGame"
     /\ IF Live(w) THEN /\ game' = [game EXCEPT ![req[r].game] = w]
                        /\ emptied' = emptied \ {w}
        ELSE UNCHANGED <<game, emptied>>
     /\ Step(r, Idle)
     /\ UNCHANGED <<user, post, notice, channel, issued, doubled>>

\* Mutant of NotTheLast: any game may go.
AnyGame(g) == game[g] # None

NotTheLast(g) == game[g] # None /\ Cardinality(GamesOf(game[g])) # 1

\* deleteGame refuses the last game.
DeleteGameCheck(r, g) ==
  /\ NotTheLast(g)
  /\ Begin(r, [Idle EXCEPT !.op = "dropGame", !.post = game[g], !.game = g])
  /\ UNCHANGED <<user, post, game, notice, channel, issued, doubled, emptied>>

DeleteGame(r) ==
  LET w == req[r].post
      g == req[r].game
  IN /\ req[r].op = "dropGame"
     /\ game' = [game EXCEPT ![g] = None]
     /\ req' = [q \in Requests |-> IF q = r THEN Idle ELSE Uncount(w, req[q])]
     /\ emptied' = IF GamesOf(w) = {g} /\ req[r].stale THEN emptied \union {w} ELSE emptied
     /\ UNCHANGED <<user, post, notice, channel, issued, doubled>>

\* The process dies, or the next statement throws: what a handler has written
\* stays.  Between the two statements of WeekendsService.delete, which no
\* transaction joins, that is a weekend without its games.
BreakOff(r) ==
  LET w == req[r].post
  IN /\ req[r] # Idle
     /\ emptied' = IF req[r].op = "delete" /\ Live(w) /\ GamesOf(w) = {}
                   THEN emptied \union {w} ELSE emptied
     /\ Step(r, Idle)
     /\ UNCHANGED <<user, post, game, notice, channel, issued, doubled>>

-----------------------------------------------------------------------------
(* The users meanwhile.                                                    *)

\* The cursor, or what it is going to be.
Cursor(r) == IF req[r].op = "write" THEN Max(req[r].page) ELSE req[r].cursor

\* The row of u changes: u no longer counts as steady, and a page after u's is moved.
Disturb(u, row) ==
  /\ user' = [user EXCEPT ![u] = row]
  /\ req' = [r \in Requests |->
       [req[r] EXCEPT !.steady = @ \ {u},
                      !.moved = @ \/ (row.status # user[u].status /\ u = Cursor(r))]]
  /\ UNCHANGED <<post, game, channel, issued, doubled, emptied>>

Register(u) ==
  /\ user[u].status = "new"
  /\ Disturb(u, [user[u] EXCEPT !.status = "active"]) /\ UNCHANGED notice

BanUser(u) ==
  /\ user[u].status = "active"
  /\ Disturb(u, [user[u] EXCEPT !.status = "banned"]) /\ UNCHANGED notice

UnbanUser(u) ==
  /\ user[u].status = "banned"
  /\ Disturb(u, [user[u] EXCEPT !.status = "active"]) /\ UNCHANGED notice

\* The notifications go with the user.
DeleteUser(u) ==
  /\ user[u].status \in {"active", "banned"}
  /\ Disturb(u, [status |-> "gone", wants |-> FALSE])
  /\ notice' = [p \in Posts |-> [notice[p] EXCEPT ![u] = 0]]

UpdatePreferences(u, b) ==
  /\ user[u].status = "active"
  /\ Disturb(u, [user[u] EXCEPT !.wants = b]) /\ UNCHANGED notice

-----------------------------------------------------------------------------
Handler(r) ==
  \/ \E a \in Users :
       \/ \E w \in Weekends, gs \in SUBSET Games, now \in PostStates : CreateWeekend(r, a, w, gs, now)
       \/ \E n \in News, now \in PostStates : CreateNews(r, a, n, now)
       \/ \E p \in Posts, to \in {"same", "draft", "published"} : UpdateCheck(r, a, p, to)
  \/ Update(r)
  \/ ReadPreferences(r)
  \/ ReadPage(r)
  \/ WriteNotices(r)
  \/ AnnounceWeekend(r)
  \/ AnnounceNews(r)
  \/ \E w \in Weekends :
       \/ DeleteWeekendCheck(r, w)
       \/ \E g \in Games : CreateGameCheck(r, w, g)
  \/ DeleteGames(r)
  \/ DeleteWeekend(r)
  \/ CreateGame(r)
  \/ \E g \in Games : DeleteGameCheck(r, g)
  \/ DeleteGame(r)
  \/ BreakOff(r)

Account(u) ==
  \/ Register(u)
  \/ BanUser(u)
  \/ UnbanUser(u)
  \/ DeleteUser(u)
  \/ \E b \in BOOLEAN : UpdatePreferences(u, b)

Next ==
  \/ \E r \in Requests : Handler(r)
  \/ \E n \in News : DeleteNews(n)
  \/ \E u \in Users : Account(u)

Spec == Init /\ [][Next]_vars

-----------------------------------------------------------------------------
(* Who is told of what.                                                    *)

\* By the time a publication reaches the channels, everybody has been told who was
\* active and willing all along, whoever came, went or was banned meanwhile, unless
\* that was the user at whom a page ended; and nobody is told more often than the
\* post was published, unless two handlers did that at a time.
PublicationIsTold ==
  /\ \A r \in Requests : req[r].op = "announce" => req[r].steady = {} \/ req[r].moved
  /\ \A p \in Posts \ doubled :
       channel[p] <= issued[p] /\ \A u \in Users : notice[p][u] <= issued[p]

\* A live weekend has a game, whatever is created and deleted and whichever handler
\* breaks off, unless two deletions took its last games at a time, the weekend is
\* about to go, or its deletion broke off after the games: from then to the next game.
WeekendKeepsAGame == \A w \in Weekends \ emptied :
  Live(w) => \/ GamesOf(w) # {}
             \/ \E r \in Requests : req[r].op = "delete" /\ req[r].post = w
=============================================================================
