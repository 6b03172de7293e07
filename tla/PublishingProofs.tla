-------------------------- MODULE PublishingProofs --------------------------
(***************************************************************************)
(* Proofs about Publishing for every number of users, posts, games and     *)
(* overlapping handlers, and for every length of a page: types, who has    *)
(* been told of a publication, and the last game of a weekend.             *)
(***************************************************************************)
EXTENDS Publishing, FiniteSetTheorems, TLAPS

-----------------------------------------------------------------------------
(* The first and the last of some users, and pages.                        *)

LEMMA UsersAreIntegers == \A u \in Users : u \in Nat /\ 1 <= u /\ u <= UserCount
  BY PublishingAssumption DEF Users

LEMMA SmallestOf ==
  ASSUME NEW S \in SUBSET Nat, S # {}
  PROVE  \E m \in S : \A v \in S : m <= v
<1> DEFINE R == {p \in Nat \X Nat : p[1] < p[2]}
<1>1. R = OpToRel(<, Nat)
  BY DEF OpToRel
<1>2. IsWellFoundedOn(R, Nat)
  BY <1>1, NatLessThanWellFounded
<1> HIDE DEF R
<1>3. PICK m \in S : \A v \in S : <<v, m>> \notin R
  BY <1>2, WFMin
<1>4. ASSUME NEW v \in S PROVE m <= v
  <2>1. m \in Nat /\ v \in Nat
    OBVIOUS
  <2>2. v < m => <<v, m>> \in R
    BY <2>1 DEF R
  <2> QED BY <2>1, <2>2, <1>3
<1> QED BY <1>4

LEMMA FirstUser ==
  ASSUME NEW S \in SUBSET Users, S # {}
  PROVE  Min(S) \in S /\ \A v \in S : Min(S) <= v
<1>1. S \in SUBSET Nat
  BY UsersAreIntegers
<1> QED BY <1>1, SmallestOf DEF Min

LEMMA LastUser ==
  ASSUME NEW S \in SUBSET Users, S # {}
  PROVE  Max(S) \in S /\ \A v \in S : v <= Max(S)
<1> DEFINE T == {UserCount - u : u \in S}
<1>0. UserCount \in Nat
  BY PublishingAssumption
<1>1. \A u \in S : u \in Nat /\ u <= UserCount
  BY UsersAreIntegers
<1>2. T \in SUBSET Nat /\ T # {}
  BY <1>0, <1>1
<1>3. PICK t \in T : \A v \in T : t <= v
  BY <1>2, SmallestOf
<1>4. PICK m \in S : t = UserCount - m
  OBVIOUS
<1>5. ASSUME NEW v \in S PROVE m >= v
  <2>1. t <= UserCount - v
    BY <1>3
  <2>2. m \in Nat /\ v \in Nat
    BY <1>1
  <2> QED BY <2>1, <2>2, <1>0, <1>4
<1>6. \E x \in S : \A y \in S : x >= y
  BY <1>5
<1>7. Max(S) \in S /\ \A v \in S : Max(S) >= v
  BY <1>6 DEF Max
<1> QED BY <1>1, <1>7

LEMMA UsersAreFinite ==
  ASSUME NEW S \in SUBSET Users
  PROVE  IsFiniteSet(S) /\ Cardinality(S) \in Nat
<1>1. IsFiniteSet(Users)
  BY PublishingAssumption, FS_Interval DEF Users
<1>2. IsFiniteSet(S)
  BY <1>1, FS_Subset
<1> QED BY <1>2, FS_CardinalityType

\* A page is a first part of the list, and the whole list when it is not full.
LEMMA PageIsAPrefix ==
  ASSUME NEW us \in SUBSET Users
  PROVE  /\ PageOf(us) \subseteq us
         /\ us # {} => PageOf(us) # {}
         /\ \A u \in us \ PageOf(us), v \in PageOf(us) : v < u
         /\ Cardinality(PageOf(us)) < Batch => PageOf(us) = us
<1> USE PublishingAssumption
<1> DEFINE UpTo(u) == {v \in us : v <= u}
           page == PageOf(us)
<1>0. page = {u \in us : Cardinality(UpTo(u)) <= Batch}
  BY DEF PageOf
<1>a. \A u \in us : UpTo(u) \in SUBSET Users
  OBVIOUS
<1> HIDE DEF page
<1>1. page \subseteq us
  BY <1>0
<1>2. ASSUME us # {} PROVE page # {}
  <2>0. Min(us) \in us /\ \A v \in us : Min(us) <= v
    BY <1>2, FirstUser
  <2>1. UpTo(Min(us)) = {Min(us)}
    BY <2>0, UsersAreIntegers
  <2>2. Cardinality(UpTo(Min(us))) = 1
    BY <2>1, FS_Singleton
  <2> QED BY <2>0, <2>2, <1>0
<1>3. ASSUME NEW u \in us \ page, NEW v \in page PROVE v < u
  <2>1. SUFFICES ASSUME u <= v PROVE FALSE
    BY <1>1, UsersAreIntegers
  <2>2. UpTo(u) \in SUBSET UpTo(v)
    BY <2>1, <1>1, UsersAreIntegers
  <2>3. Cardinality(UpTo(u)) <= Cardinality(UpTo(v))
    BY <2>2, <1>a, <1>1, UsersAreFinite, FS_Subset
  <2>4. Cardinality(UpTo(u)) \in Nat /\ Cardinality(UpTo(v)) \in Nat
    BY <1>a, <1>1, UsersAreFinite
  <2>5. Cardinality(UpTo(u)) <= Batch
    BY <2>3, <2>4, <1>0
  <2> QED BY <2>5, <1>0
<1>4. ASSUME Cardinality(page) < Batch PROVE page = us
  <2>1. SUFFICES ASSUME us \ page # {} PROVE FALSE
    BY <1>1
  <2> DEFINE x == Min(us \ page)
  <2>2. x \in us \ page /\ \A v \in us \ page : x <= v
    BY <2>1, FirstUser
  <2> HIDE DEF x
  <2>3. UpTo(x) = page \union {x}
    <3>1. \A v \in page : v < x /\ v \in Nat /\ x \in Nat
      BY <2>2, <1>1, <1>3, UsersAreIntegers
    <3>2. \A v \in us \ page : v <= x => v = x
      BY <2>2, UsersAreIntegers
    <3>3. x <= x
      BY <2>2, UsersAreIntegers
    <3> QED BY <2>2, <3>1, <3>2, <3>3, <1>1
  <2>4. Cardinality(UpTo(x)) = Cardinality(page) + 1
    BY <2>2, <2>3, <1>1, UsersAreFinite, FS_AddElement
  <2>5. Cardinality(page) \in Nat
    BY <1>1, UsersAreFinite
  <2>6. Cardinality(UpTo(x)) <= Batch
    BY <2>4, <2>5, <1>4
  <2> QED BY <2>2, <2>6, <1>0
<1> QED BY <1>1, <1>2, <1>3, <1>4 DEF page

-----------------------------------------------------------------------------
(* The inductive invariant.                                                 *)

\* What a handler between two awaits carries.
TellOps == {"prefs", "page", "write", "announce"}
CallFits(c) ==
  /\ c.op \in TellOps \union {"update"} => c.post \in Posts /\ c.actor \in Users
  /\ c.op \in {"games", "delete", "addGame", "dropGame"} => c.post \in Weekends
  /\ c.game # None <=> c.op \in {"addGame", "dropGame"}
  /\ c.op = "update" => c.to \in {"same", "draft", "published"}
  /\ c.op = "prefs" => c.cursor = 0
  /\ c.op = "write" => c.page # {}

TypesInv == PublishingTypeOK /\ \A r \in Requests : CallFits(req[r])

\* Whom a handler still owes a notice: users of its page or after it, the whole list
\* being in the page when that is not full, as long as the user at whom the page
\* ends is where it was.
OnTheList(c, u) == user[u].status = "active" /\ u # c.actor
WalkOK(c) ==
  /\ c.op \in {"page", "write"} =>
       \A u \in c.steady : OnTheList(c, u) /\ u \notin c.muted
  /\ c.op = "page" /\ ~c.moved =>
       /\ c.cursor # 0 => OnTheList(c, c.cursor)
       /\ \A u \in c.steady : u > c.cursor
  /\ c.op = "write" /\ ~c.moved =>
       /\ OnTheList(c, Max(c.page))
       /\ \A u \in c.steady : u \in c.page \/ u > Max(c.page)
       /\ Cardinality(c.page) < Batch => c.steady \subseteq c.page
  /\ c.op = "announce" => c.steady = {} \/ c.moved

WalkInv == \A r \in Requests : WalkOK(req[r])

\* The handlers that tell of p, and those of them that may still tell u.
Tells(c, p) == c.op \in TellOps /\ c.post = p
MayTell(c, p, u) ==
  /\ c.post = p
  /\ \/ c.op = "prefs"
     \/ c.op = "page" /\ u > c.cursor
     \/ c.op = "write" /\ (u \in c.page \/ u > Max(c.page))
Telling(p) == {r \in Requests : Tells(req[r], p)}
Pending(p, u) == {r \in Requests : MayTell(req[r], p, u)}

\* Every publication has one handler that tells of it, and what it has yet to tell
\* is not told.
PostCounts(p) ==
  p \notin doubled =>
    /\ channel[p] + Cardinality(Telling(p)) <= issued[p]
    /\ \A u \in Users : notice[p][u] + Cardinality(Pending(p, u)) <= issued[p]
CountInv == \A p \in Posts : IsFiniteSet(Telling(p)) /\ PostCounts(p)

\* A game about to be created is in no weekend and in no other request, and whoever
\* is about to delete one has seen another, unless the games went meanwhile.
GameCallOK(r) ==
  /\ req[r].op = "addGame" =>
       /\ game[req[r].game] = None
       /\ \A q \in Requests \ {r} : req[q].game # req[r].game
  /\ req[r].op = "dropGame" =>
       /\ game[req[r].game] \in {req[r].post, None}
       /\ ~req[r].stale => \E g \in Games \ {req[r].game} : game[g] = req[r].post
GamesInv == WeekendKeepsAGame /\ \A r \in Requests : GameCallOK(r)

PublishingInv == TypesInv /\ WalkInv /\ CountInv /\ GamesInv

-----------------------------------------------------------------------------
(* Types.                                                                   *)

LEMMA IdleFits == Idle \in Calls /\ CallFits(Idle)
  BY PublishingAssumption, UsersAreIntegers DEF Idle, Calls, Ops, PostStates, CallFits, TellOps

\* The rows of posts and games stay what they are, and so do the users, notices and
\* the history.
RowsOK ==
  /\ user \in [Users -> UserRows]
  /\ post \in [Posts -> PostStates]
  /\ game \in [Games -> Weekends \union {None}]
  /\ \A g \in Games : game[g] # None => Live(game[g])
  /\ notice \in [Posts -> [Users -> Nat]]
  /\ channel \in [Posts -> Nat]
  /\ issued \in [Posts -> Nat]
  /\ doubled \subseteq Posts
  /\ emptied \subseteq Weekends
CallsOK == req \in [Requests -> Calls] /\ \A r \in Requests : CallFits(req[r])

LEMMA TypesAre == /\ TypesInv <=> RowsOK /\ CallsOK
                  /\ TypesInv' <=> RowsOK' /\ CallsOK'
  BY DEF TypesInv, RowsOK, CallsOK, PublishingTypeOK

LEMMA StepCall ==
  ASSUME CallsOK, NEW r \in Requests, NEW c \in Calls, CallFits(c), Step(r, c)
  PROVE  CallsOK' /\ req'[r] = c /\ \A q \in Requests \ {r} : req'[q] = req[q]
<1>1. req' = [req EXCEPT ![r] = c] /\ req \in [Requests -> Calls]
  BY DEF Step, CallsOK
<1>2. req'[r] = c /\ \A q \in Requests \ {r} : req'[q] = req[q]
  BY <1>1
<1>3. req' \in [Requests -> Calls]
  BY <1>1
<1>4. \A q \in Requests : CallFits(req'[q])
  BY <1>2 DEF CallsOK
<1> QED BY <1>2, <1>3, <1>4 DEF CallsOK

LEMMA InitTypes == ASSUME Init PROVE TypesInv
<1>1. CallsOK
  BY IdleFits DEF Init, CallsOK
<1>2. RowsOK
  <2>1. user \in [Users -> UserRows]
    <3>1. ASSUME NEW s \in {"new", "active"} PROVE [status |-> s, wants |-> TRUE] \in UserRows
      BY DEF UserRows
    <3>2. {[status |-> s, wants |-> TRUE] : s \in {"new", "active"}} \subseteq UserRows
      BY <3>1
    <3> QED BY <3>2 DEF Init
  <2>2. post \in [Posts -> PostStates] /\ game \in [Games -> Weekends \union {None}]
    BY DEF Init, PostStates
  <2>3. \A g \in Games : game[g] # None => Live(game[g])
    BY DEF Init
  <2> QED BY <2>1, <2>2, <2>3 DEF Init, RowsOK
<1> QED BY <1>1, <1>2, TypesAre

\* A post is there, and its games stay with it.
LEMMA PublishTypes ==
  ASSUME TypesInv, NEW r \in Requests, NEW a \in Users, NEW p \in Posts,
         NEW was \in PostStates, NEW now \in {"draft", "published"}, Publish(r, a, p, was, now)
  PROVE  /\ CallsOK'
         /\ post' \in [Posts -> PostStates] /\ post'[p] = now
         /\ \A q \in Posts \ {p} : post'[q] = post[q]
         /\ issued' \in [Posts -> Nat] /\ doubled' \subseteq Posts
<1> USE DEF RowsOK
<1>0. RowsOK /\ CallsOK
  BY TypesAre
<1> DEFINE c == IF ToBeTold(was, now)
                THEN [Idle EXCEPT !.op = "prefs", !.post = p, !.actor = a] ELSE Idle
<1>1. c \in Calls /\ CallFits(c)
  <2>1. CASE ToBeTold(was, now)
    BY <2>1, IdleFits DEF Idle, Calls, Ops, CallFits, TellOps
  <2>2. CASE ~ToBeTold(was, now)
    BY <2>2, IdleFits
  <2> QED BY <2>1, <2>2
<1>2. Step(r, c)
  BY DEF Publish
<1>3. CallsOK'
  BY <1>0, <1>1, <1>2, StepCall
<1>4. post' = [post EXCEPT ![p] = now]
  BY DEF Publish
<1>5. post' \in [Posts -> PostStates] /\ post'[p] = now
      /\ \A q \in Posts \ {p} : post'[q] = post[q]
  BY <1>0, <1>4 DEF PostStates
<1>6. issued' = issued \/ issued' = [issued EXCEPT ![p] = @ + 1]
  BY DEF Publish
<1>7. issued' \in [Posts -> Nat]
  BY <1>0, <1>6
<1>8. doubled' \subseteq Posts
  BY <1>0 DEF Publish
<1> QED BY <1>3, <1>5, <1>7, <1>8

LEMMA CreateTypes ==
  ASSUME TypesInv, NEW r \in Requests, NEW a \in Users
  PROVE  /\ \A w \in Weekends, gs \in SUBSET Games, now \in PostStates :
              CreateWeekend(r, a, w, gs, now) => TypesInv'
         /\ \A n \in News, now \in PostStates : CreateNews(r, a, n, now) => TypesInv'
<1> USE DEF RowsOK, Posts
<1>0. RowsOK /\ CallsOK
  BY TypesAre
<1>1. ASSUME NEW w \in Weekends, NEW gs \in SUBSET Games, NEW now \in PostStates,
             CreateWeekend(r, a, w, gs, now)
      PROVE  TypesInv'
  <2>1. now \in {"draft", "published"} /\ Publish(r, a, w, "none", now) /\ "none" \in PostStates
    BY <1>1 DEF CreateWeekend, PostStates
  <2>2. /\ CallsOK'
        /\ post' \in [Posts -> PostStates] /\ post'[w] = now
        /\ \A q \in Posts \ {w} : post'[q] = post[q]
        /\ issued' \in [Posts -> Nat] /\ doubled' \subseteq Posts
    BY <2>1, PublishTypes
  <2>3. game' = [g \in Games |-> IF g \in gs THEN w ELSE game[g]]
    BY <1>1 DEF CreateWeekend
  <2>4. game' \in [Games -> Weekends \union {None}]
    BY <2>3, <1>0
  <2>5. ASSUME NEW g \in Games, game'[g] # None PROVE Live(game[g])'
    <3>1. CASE g \in gs
      BY <3>1, <2>1, <2>2, <2>3 DEF Live
    <3>2. CASE g \notin gs
      <4>1. game'[g] = game[g] /\ Live(game[g]) /\ game[g] \in Posts
        BY <3>2, <2>3, <2>5, <1>0
      <4> QED BY <4>1, <2>1, <2>2 DEF Live
    <3> QED BY <3>1, <3>2
  <2>6. UNCHANGED <<user, notice, channel, emptied>>
    BY <1>1 DEF CreateWeekend
  <2>7. RowsOK'
    BY <2>2, <2>4, <2>5, <2>6, <1>0
  <2> QED BY <2>2, <2>7, TypesAre
<1>2. ASSUME NEW n \in News, NEW now \in PostStates, CreateNews(r, a, n, now) PROVE TypesInv'
  <2>1. now \in {"draft", "published"} /\ Publish(r, a, n, "none", now) /\ "none" \in PostStates
    BY <1>2 DEF CreateNews, PostStates
  <2>2. /\ CallsOK'
        /\ post' \in [Posts -> PostStates] /\ post'[n] = now
        /\ \A q \in Posts \ {n} : post'[q] = post[q]
        /\ issued' \in [Posts -> Nat] /\ doubled' \subseteq Posts
    BY <2>1, PublishTypes
  <2>3. UNCHANGED <<user, game, notice, channel, emptied>>
    BY <1>2 DEF CreateNews
  <2>4. ASSUME NEW g \in Games, game[g] # None PROVE Live(game[g])'
    <3>1. game[g] \in Posts /\ Live(game[g])
      BY <2>4, <1>0
    <3> QED BY <3>1, <2>1, <2>2, <2>3 DEF Live
  <2>5. RowsOK'
    BY <2>2, <2>3, <2>4, <1>0
  <2> QED BY <2>2, <2>5, TypesAre
<1> QED BY <1>1, <1>2

\* What an update finds and writes.
LEMMA UpdateTypes ==
  ASSUME TypesInv, NEW r \in Requests
  PROVE  /\ \A a \in Users, p \in Posts, to \in {"same", "draft", "published"} :
              UpdateCheck(r, a, p, to) => TypesInv'
         /\ Update(r) => TypesInv'
<1> USE DEF RowsOK
<1>0. RowsOK /\ CallsOK
  BY TypesAre
<1>1. ASSUME NEW a \in Users, NEW p \in Posts, NEW to \in {"same", "draft", "published"},
             UpdateCheck(r, a, p, to)
      PROVE  TypesInv'
  <2> DEFINE c == [Idle EXCEPT !.op = "update", !.post = p, !.actor = a, !.was = post[p], !.to = to]
  <2>1. post[p] \in PostStates
    BY <1>0
  <2>2. c \in Calls /\ CallFits(c)
    BY <2>1, IdleFits DEF Idle, Calls, Ops, CallFits, TellOps, PostStates
  <2>3. Step(r, c) /\ UNCHANGED <<user, post, game, notice, channel, issued, doubled, emptied>>
    BY <1>1 DEF UpdateCheck, Begin
  <2>4. CallsOK'
    BY <1>0, <2>2, <2>3, StepCall
  <2>5. RowsOK'
    BY <1>0, <2>3 DEF Live
  <2> QED BY <2>4, <2>5, TypesAre
<1>2. ASSUME Update(r) PROVE TypesInv'
  <2> DEFINE p == req[r].post
             now == IF req[r].to = "same" THEN post[p] ELSE req[r].to
  <2>1. req[r] \in Calls /\ CallFits(req[r]) /\ req[r].op = "update"
    BY <1>0, <1>2 DEF CallsOK, Update
  <2>2. p \in Posts /\ req[r].actor \in Users /\ req[r].was \in PostStates
        /\ req[r].to \in {"same", "draft", "published"}
    BY <2>1 DEF Calls, CallFits
  <2>3. Live(p) /\ now \in {"draft", "published"}
    BY <1>2, <2>2 DEF Update, Live
  <2>4. Publish(r, req[r].actor, p, req[r].was, now) /\ UNCHANGED <<user, game, notice, channel, emptied>>
    BY <1>2 DEF Update
  <2> HIDE DEF p, now
  <2>5. /\ CallsOK'
        /\ post' \in [Posts -> PostStates] /\ post'[p] = now
        /\ \A q \in Posts \ {p} : post'[q] = post[q]
        /\ issued' \in [Posts -> Nat] /\ doubled' \subseteq Posts
    BY <2>2, <2>3, <2>4, PublishTypes
  <2>6. ASSUME NEW g \in Games, game[g] # None PROVE Live(game[g])'
    <3>1. game[g] \in Posts /\ Live(game[g])
      BY <2>6, <1>0 DEF Posts
    <3> QED BY <3>1, <2>3, <2>4, <2>5 DEF Live
  <2>7. RowsOK'
    BY <2>4, <2>5, <2>6, <1>0
  <2> QED BY <2>5, <2>7, TypesAre
<1> QED BY <1>1, <1>2

\* A handler that reads or counts leaves the rows alone.
LEMMA CallTypes ==
  ASSUME TypesInv, NEW r \in Requests, NEW c \in Calls, CallFits(c), Step(r, c),
         UNCHANGED <<user, post, game, notice, channel, issued, doubled, emptied>>
  PROVE  TypesInv'
<1>1. RowsOK /\ CallsOK
  BY TypesAre
<1>2. CallsOK'
  BY <1>1, StepCall
<1>3. RowsOK'
  BY <1>1 DEF RowsOK, Live
<1> QED BY <1>2, <1>3, TypesAre

LEMMA PageIsOfUsers ==
  ASSUME TypesInv, NEW r \in Requests
  PROVE  /\ From(r) \in SUBSET Users /\ Skipped(r) \in SUBSET Users
         /\ PageOf(Skipped(r)) \in SUBSET Users
<1>1. From(r) \in SUBSET Users
  BY DEF From, Others
<1>2. Skipped(r) \in SUBSET Users
  BY <1>1 DEF Skipped
<1> QED BY <1>1, <1>2, PageIsAPrefix

LEMMA TellTypes ==
  ASSUME TypesInv, NEW r \in Requests
  PROVE  /\ ReadPreferences(r) => TypesInv'
         /\ ReadPage(r) => TypesInv'
         /\ WriteNotices(r) => TypesInv'
         /\ Announce(r) => TypesInv'
<1>0. RowsOK /\ CallsOK
  BY TypesAre
<1>a. req[r] \in Calls /\ CallFits(req[r])
  BY <1>0 DEF CallsOK
<1>1. ASSUME ReadPreferences(r) PROVE TypesInv'
  <2> DEFINE muted == {u \in Users : user[u].status # "gone" /\ ~user[u].wants}
             steady == {u \in Users \ muted : user[u].status = "active"} \ {req[r].actor}
             c == [req[r] EXCEPT !.op = "page", !.muted = muted, !.steady = steady]
  <2>1. muted \in SUBSET Users /\ steady \in SUBSET Users
    OBVIOUS
  <2>2. Step(r, c) /\ UNCHANGED <<user, post, game, notice, channel, issued, doubled, emptied>>
        /\ req[r].op = "prefs"
    BY <1>1 DEF ReadPreferences
  <2> HIDE DEF muted, steady
  <2>3. c \in Calls
    BY <1>a, <2>1 DEF Calls, Ops
  <2>4. CallFits(c)
    BY <1>a, <2>2 DEF CallFits, TellOps, Calls
  <2> QED BY <2>2, <2>3, <2>4, CallTypes
<1>2. ASSUME ReadPage(r) PROVE TypesInv'
  <2> DEFINE page == PageOf(Skipped(r))
             c == [req[r] EXCEPT !.op = IF page = {} THEN "announce" ELSE "write", !.page = page]
  <2>1. page \in SUBSET Users
    BY PageIsOfUsers
  <2>2. Step(r, c) /\ UNCHANGED <<user, post, game, notice, channel, issued, doubled, emptied>>
        /\ req[r].op = "page"
    BY <1>2 DEF ReadPage
  <2> HIDE DEF page
  <2>3. c \in Calls
    BY <1>a, <2>1 DEF Calls, Ops
  <2>4. CallFits(c)
    BY <1>a, <2>2 DEF CallFits, TellOps, Calls
  <2> QED BY <2>2, <2>3, <2>4, CallTypes
<1>3. ASSUME WriteNotices(r) PROVE TypesInv'
  <2> DEFINE page == req[r].page
             to == page \ req[r].muted
             p == req[r].post
             op == IF Cardinality(page) < Batch THEN "announce" ELSE "page"
             c == [req[r] EXCEPT !.op = op, !.cursor = Max(page), !.page = {}, !.steady = @ \ to]
  <2>1. req[r].op = "write" /\ page \in SUBSET Users /\ page # {} /\ p \in Posts
    BY <1>3, <1>a DEF WriteNotices, Calls, CallFits, TellOps
  <2>2. Max(page) \in 0..UserCount
    BY <2>1, LastUser, UsersAreIntegers, PublishingAssumption
  <2>3. c \in Calls
    <3>1. op \in Ops
      BY DEF Ops
    <3> HIDE DEF page, op, to
    <3> QED BY <1>a, <2>2, <3>1 DEF Calls
  <2>4. CallFits(c)
    <3>1. op \in {"announce", "page"}
      OBVIOUS
    <3> HIDE DEF op
    <3> QED BY <1>a, <2>1, <3>1 DEF CallFits, TellOps, Calls
  <2>5. UNCHANGED <<user, post, game, channel, issued, doubled, emptied>>
    BY <1>3 DEF WriteNotices
  <2>6. CASE Step(r, Idle) /\ UNCHANGED notice
    BY <2>5, <2>6, IdleFits, CallTypes
  <2>7. CASE /\ Step(r, c)
             /\ notice' = [notice EXCEPT ![p] = [u \in Users |-> IF u \in to THEN @[u] + 1 ELSE @[u]]]
    <3> HIDE DEF c, to, p
    <3>1. CallsOK'
      BY <1>0, <2>3, <2>4, <2>7, StepCall
    <3>2. notice' \in [Posts -> [Users -> Nat]]
      <4>1. notice \in [Posts -> [Users -> Nat]]
        BY <1>0 DEF RowsOK
      <4>2. [u \in Users |-> IF u \in to THEN notice[p][u] + 1 ELSE notice[p][u]] \in [Users -> Nat]
        BY <4>1, <2>1
      <4> QED BY <4>1, <4>2, <2>1, <2>7
    <3>3. RowsOK'
      BY <1>0, <3>2, <2>5 DEF RowsOK, Live
    <3> QED BY <3>1, <3>3, TypesAre
  <2> QED BY <1>3, <2>6, <2>7 DEF WriteNotices
<1>4. ASSUME Announce(r) PROVE TypesInv'
  <2>1. Step(r, Idle) /\ UNCHANGED <<user, post, game, notice, issued, doubled, emptied>>
        /\ (channel' = channel \/ channel' = [channel EXCEPT ![req[r].post] = @ + 1])
    BY <1>4 DEF Announce
  <2>2. CallsOK'
    BY <1>0, <2>1, IdleFits, StepCall
  <2>3. channel' \in [Posts -> Nat]
    BY <1>0, <2>1 DEF RowsOK
  <2>4. RowsOK'
    BY <1>0, <2>1, <2>3 DEF RowsOK, Live
  <2> QED BY <2>2, <2>4, TypesAre
<1> QED BY <1>1, <1>2, <1>3, <1>4

\* What a request of a game carries.
LEMMA GameCall ==
  ASSUME NEW w \in Weekends, NEW op \in {"addGame", "dropGame"}, NEW g \in Games
  PROVE  LET c == [Idle EXCEPT !.op = op, !.post = w, !.game = g]
         IN c \in Calls /\ CallFits(c)
  BY IdleFits, PublishingAssumption DEF Idle, Calls, Ops, CallFits, TellOps, Posts

\* Only games of a weekend that is there are created, only weekends without games go.
LEMMA GameTypes ==
  ASSUME TypesInv, NEW r \in Requests
  PROVE  /\ \A w \in Weekends : DeleteWeekendCheck(r, w) => TypesInv'
         /\ \A w \in Weekends, g \in Games : CreateGameCheck(r, w, g) => TypesInv'
         /\ \A g \in Games : DeleteGameCheck(r, g) => TypesInv'
         /\ DeleteGames(r) => TypesInv'
         /\ DeleteWeekend(r) => TypesInv'
         /\ CreateGame(r) => TypesInv'
         /\ DeleteGame(r) => TypesInv'
         /\ BreakOff(r) => TypesInv'
<1>0. RowsOK /\ CallsOK
  BY TypesAre
<1>a. req \in [Requests -> Calls] /\ \A q \in Requests : req[q] \in Calls /\ CallFits(req[q])
  BY <1>0 DEF CallsOK
<1>b. Idle.game = None
  BY DEF Idle
<1>1. ASSUME NEW w \in Weekends, DeleteWeekendCheck(r, w) PROVE TypesInv'
  <2> DEFINE op == IF GamesOf(w) = {} THEN "delete" ELSE "games"
             c == [Idle EXCEPT !.op = op, !.post = w]
  <2>1. Step(r, c) /\ UNCHANGED <<user, post, game, notice, channel, issued, doubled, emptied>>
    BY <1>1 DEF DeleteWeekendCheck, Begin
  <2>2. op \in {"games", "delete"}
    OBVIOUS
  <2> HIDE DEF op
  <2>4. c \in Calls /\ CallFits(c)
    BY <2>2, PublishingAssumption, IdleFits DEF Idle, Calls, Ops, CallFits, TellOps, Posts
  <2> QED BY <2>1, <2>4, CallTypes
<1>2. ASSUME NEW w \in Weekends, NEW g \in Games, CreateGameCheck(r, w, g) PROVE TypesInv'
  <2> DEFINE c == [Idle EXCEPT !.op = "addGame", !.post = w, !.game = g]
  <2>1. Step(r, c) /\ UNCHANGED <<user, post, game, notice, channel, issued, doubled, emptied>>
    BY <1>2 DEF CreateGameCheck, Begin
  <2>2. c \in Calls /\ CallFits(c)
    BY GameCall
  <2> QED BY <2>1, <2>2, CallTypes
<1>3. ASSUME NEW g \in Games, DeleteGameCheck(r, g) PROVE TypesInv'
  <2>1. game[g] \in Weekends
    BY <1>0, <1>3 DEF RowsOK, DeleteGameCheck, NotTheLast
  <2> DEFINE c == [Idle EXCEPT !.op = "dropGame", !.post = game[g], !.game = g]
  <2>2. Step(r, c) /\ UNCHANGED <<user, post, game, notice, channel, issued, doubled, emptied>>
    BY <1>3 DEF DeleteGameCheck, Begin
  <2>3. c \in Calls /\ CallFits(c)
    BY <2>1, GameCall
  <2> QED BY <2>2, <2>3, CallTypes
<1>4. ASSUME DeleteGames(r) PROVE TypesInv'
  <2> DEFINE w == req[r].post
  <2>1. /\ game' = [g \in Games |-> IF game[g] = w THEN None ELSE game[g]]
        /\ req' = [q \in Requests |->
              IF q = r THEN [req[r] EXCEPT !.op = "delete"] ELSE Uncount(w, req[q])]
        /\ req[r].op = "games"
        /\ UNCHANGED <<user, post, notice, channel, issued, doubled, emptied>>
    BY <1>4 DEF DeleteGames
  <2> HIDE DEF w
  <2>2. ASSUME NEW q \in Requests PROVE req'[q] \in Calls /\ CallFits(req'[q])
    <3>1. CASE q = r
      BY <3>1, <2>1, <1>a DEF Calls, Ops, CallFits, TellOps
    <3>2. CASE q # r
      BY <3>2, <2>1, <1>a DEF Calls, CallFits, Uncount
    <3> QED BY <3>1, <3>2
  <2>3. CallsOK'
    BY <2>1, <2>2 DEF CallsOK
  <2>4. RowsOK'
    BY <2>1, <1>0 DEF RowsOK, Live
  <2> QED BY <2>3, <2>4, TypesAre
<1>5. ASSUME DeleteWeekend(r) PROVE TypesInv'
  <2> DEFINE w == req[r].post
  <2>1. Step(r, Idle) /\ UNCHANGED <<user, game, notice, channel, issued, doubled, emptied>>
        /\ post' = IF Live(w) /\ GamesOf(w) = {} THEN [post EXCEPT ![w] = "gone"] ELSE post
    BY <1>5 DEF DeleteWeekend
  <2>2. CallsOK'
    BY <1>0, <2>1, IdleFits, StepCall
  <2>3. post' \in [Posts -> PostStates]
    BY <1>0, <2>1 DEF RowsOK, PostStates
  <2>4. ASSUME NEW g \in Games, game[g] # None PROVE Live(game[g])'
    <3>1. Live(game[g]) /\ game[g] \in Posts /\ post \in [Posts -> PostStates]
      BY <2>4, <1>0 DEF RowsOK, Posts
    <3>2. CASE post' = post
      BY <3>1, <3>2, <2>1 DEF Live
    <3>3. CASE post' = [post EXCEPT ![w] = "gone"] /\ GamesOf(w) = {}
      <4>1. game[g] # w
        BY <3>3 DEF GamesOf
      <4> QED BY <4>1, <3>1, <3>3, <2>1 DEF Live
    <3> QED BY <3>2, <3>3, <2>1
  <2>5. RowsOK'
    BY <1>0, <2>1, <2>3, <2>4 DEF RowsOK
  <2> QED BY <2>2, <2>5, TypesAre
<1>6. ASSUME CreateGame(r) PROVE TypesInv'
  <2> DEFINE w == req[r].post
  <2>1. Step(r, Idle) /\ UNCHANGED <<user, post, notice, channel, issued, doubled>>
        /\ game' = (IF Live(w) THEN [game EXCEPT ![req[r].game] = w] ELSE game)
        /\ emptied' \subseteq emptied /\ req[r].op = "addGame"
    BY <1>6 DEF CreateGame
  <2>2. CallsOK'
    BY <1>0, <2>1, IdleFits, StepCall
  <2>3. w \in Weekends
    BY <2>1, <1>a DEF CallFits
  <2>4. RowsOK'
    BY <1>0, <2>1, <2>3 DEF RowsOK, Live
  <2> QED BY <2>2, <2>4, TypesAre
<1>7. ASSUME DeleteGame(r) PROVE TypesInv'
  <2> DEFINE w == req[r].post
             g == req[r].game
  <2>1. /\ game' = [game EXCEPT ![g] = None]
        /\ req' = [q \in Requests |-> IF q = r THEN Idle ELSE Uncount(w, req[q])]
        /\ req[r].op = "dropGame"
        /\ emptied' = emptied \/ emptied' = emptied \union {w}
        /\ UNCHANGED <<user, post, notice, channel, issued, doubled>>
    BY <1>7 DEF DeleteGame
  <2>2. w \in Weekends
    BY <2>1, <1>a DEF CallFits
  <2> HIDE DEF w, g
  <2>3. ASSUME NEW q \in Requests PROVE req'[q] \in Calls /\ CallFits(req'[q])
    <3>1. CASE q = r
      BY <3>1, <2>1, IdleFits
    <3>2. CASE q # r
      BY <3>2, <2>1, <1>a DEF Calls, CallFits, Uncount
    <3> QED BY <3>1, <3>2
  <2>4. CallsOK'
    BY <2>1, <2>3 DEF CallsOK
  <2>5. RowsOK'
    BY <2>1, <2>2, <1>0 DEF RowsOK, Live
  <2> QED BY <2>4, <2>5, TypesAre
<1>8. ASSUME BreakOff(r) PROVE TypesInv'
  <2> DEFINE w == req[r].post
  <2>1. /\ Step(r, Idle) /\ UNCHANGED <<user, post, game, notice, channel, issued, doubled>>
        /\ emptied' = emptied \/ (req[r].op = "delete" /\ emptied' = emptied \union {w})
    BY <1>8 DEF BreakOff
  <2>2. CallsOK'
    BY <1>0, <2>1, IdleFits, StepCall
  <2>3. req[r].op = "delete" => w \in Weekends
    BY <1>a DEF CallFits
  <2>4. RowsOK'
    BY <1>0, <2>1, <2>3 DEF RowsOK, Live
  <2> QED BY <2>2, <2>4, TypesAre
<1> QED BY <1>1, <1>2, <1>3, <1>4, <1>5, <1>6, <1>7, <1>8

LEMMA DeleteNewsTypes == ASSUME TypesInv, NEW n \in News, DeleteNews(n) PROVE TypesInv'
<1>0. RowsOK /\ CallsOK
  BY TypesAre
<1>1. post' = [post EXCEPT ![n] = "gone"]
      /\ UNCHANGED <<user, game, notice, channel, req, issued, doubled, emptied>>
  BY DEF DeleteNews
<1>2. ASSUME NEW g \in Games, game[g] # None PROVE Live(game[g])'
  <2>1. game[g] \in Weekends /\ Live(game[g]) /\ n \notin Weekends
    BY <1>0, <1>2, PublishingAssumption DEF RowsOK
  <2> QED BY <2>1, <1>0, <1>1 DEF RowsOK, Live, Posts
<1>3. RowsOK'
  BY <1>0, <1>1, <1>2 DEF RowsOK, PostStates
<1> QED BY <1>0, <1>1, <1>3, TypesAre DEF CallsOK

LEMMA DisturbTypes ==
  ASSUME TypesInv, NEW u \in Users, NEW row \in UserRows, Disturb(u, row),
         notice' \in [Posts -> [Users -> Nat]]
  PROVE  TypesInv'
<1>0. RowsOK /\ CallsOK
  BY TypesAre
<1> DEFINE d(r) == [req[r] EXCEPT !.steady = @ \ {u},
                      !.moved = @ \/ (row.status # user[u].status /\ u = Cursor(r))]
<1>1. user' = [user EXCEPT ![u] = row] /\ req' = [r \in Requests |-> d(r)]
      /\ UNCHANGED <<post, game, channel, issued, doubled, emptied>>
  BY DEF Disturb
<1>2. ASSUME NEW r \in Requests PROVE d(r) \in Calls /\ CallFits(d(r))
  <2>1. req[r] \in Calls /\ CallFits(req[r])
    BY <1>0 DEF CallsOK
  <2> DEFINE b == req[r].moved \/ (row.status # user[u].status /\ u = Cursor(r))
  <2>2. b \in BOOLEAN
    BY <2>1 DEF Calls
  <2>3. d(r) = [req[r] EXCEPT !.steady = @ \ {u}, !.moved = b]
    OBVIOUS
  <2> HIDE DEF b, d
  <2> QED BY <2>1, <2>2, <2>3 DEF Calls, CallFits
<1> HIDE DEF d
<1>3. CallsOK'
  BY <1>1, <1>2 DEF CallsOK
<1>4. RowsOK'
  BY <1>0, <1>1 DEF RowsOK, Live
<1> QED BY <1>3, <1>4, TypesAre

LEMMA AccountDisturbs ==
  ASSUME TypesInv, NEW u \in Users, Account(u)
  PROVE  /\ \E row \in UserRows : Disturb(u, row)
         /\ notice' \in [Posts -> [Users -> Nat]]
         /\ \A p \in Posts, v \in Users : notice'[p][v] <= notice[p][v]
<1>0. user[u] \in UserRows /\ notice \in [Posts -> [Users -> Nat]]
  BY DEF TypesInv, PublishingTypeOK
<1> DEFINE row(s) == [user[u] EXCEPT !.status = s]
<1>1. \A s \in {"active", "banned"} : row(s) \in UserRows
  BY <1>0 DEF UserRows
<1>2. \A b \in BOOLEAN : [user[u] EXCEPT !.wants = b] \in UserRows
  BY <1>0 DEF UserRows
<1>3. [status |-> "gone", wants |-> FALSE] \in UserRows
  BY DEF UserRows
<1>4. \E x \in UserRows : Disturb(u, x)
  <2>1. CASE Register(u)
    BY <2>1, <1>1 DEF Register
  <2>2. CASE BanUser(u)
    BY <2>2, <1>1 DEF BanUser
  <2>3. CASE UnbanUser(u)
    BY <2>3, <1>1 DEF UnbanUser
  <2>4. CASE DeleteUser(u)
    BY <2>4, <1>3 DEF DeleteUser
  <2>5. CASE \E b \in BOOLEAN : UpdatePreferences(u, b)
    BY <2>5, <1>2 DEF UpdatePreferences
  <2> QED BY <2>1, <2>2, <2>3, <2>4, <2>5 DEF Account
<1>5. notice' = notice \/ notice' = [p \in Posts |-> [notice[p] EXCEPT ![u] = 0]]
  BY DEF Account, Register, BanUser, UnbanUser, DeleteUser, UpdatePreferences
<1>6. notice' \in [Posts -> [Users -> Nat]]
  BY <1>0, <1>5
<1>7. ASSUME NEW p \in Posts, NEW v \in Users PROVE notice'[p][v] <= notice[p][v]
  BY <1>0, <1>5
<1> QED BY <1>4, <1>6, <1>7

LEMMA TypesStep == ASSUME TypesInv, [Next]_vars PROVE TypesInv'
<1>1. ASSUME NEW r \in Requests, Handler(r) PROVE TypesInv'
  BY <1>1, CreateTypes, UpdateTypes, TellTypes, GameTypes DEF Handler, AnnounceWeekend, AnnounceNews
<1>2. ASSUME NEW n \in News, DeleteNews(n) PROVE TypesInv'
  BY <1>2, DeleteNewsTypes
<1>3. ASSUME NEW u \in Users, Account(u) PROVE TypesInv'
  BY <1>3, AccountDisturbs, DisturbTypes
<1>4. CASE UNCHANGED vars
  BY <1>4 DEF vars, TypesInv, PublishingTypeOK, Live
<1> QED BY <1>1, <1>2, <1>3, <1>4 DEF Next

-----------------------------------------------------------------------------
(* Whoever has been active and willing all along is told before the channels. *)

\* A step of r, which leaves r where nobody is owed anything or keeps what is.
LEMMA WalkOf ==
  ASSUME TypesInv, WalkInv, NEW r \in Requests, NEW c, Step(r, c), user' = user,
         c.op \in {"page", "write", "announce"} => WalkOK(c)'
  PROVE  WalkInv'
<1>1. req' = [req EXCEPT ![r] = c] /\ req \in [Requests -> Calls]
  BY DEF Step, TypesInv, PublishingTypeOK
<1>2. ASSUME NEW q \in Requests PROVE WalkOK(req[q])'
  <2>1. CASE q = r
    <3>1. req'[q] = c
      BY <1>1, <2>1
    <3>2. CASE c.op \in {"page", "write", "announce"}
      BY <3>1, <3>2 DEF WalkOK, OnTheList
    <3>3. CASE c.op \notin {"page", "write", "announce"}
      BY <3>1, <3>3 DEF WalkOK
    <3> QED BY <3>2, <3>3
  <2>2. CASE q # r
    <3>1. req'[q] = req[q] /\ WalkOK(req[q])
      BY <1>1, <2>2 DEF WalkInv
    <3> QED BY <3>1 DEF WalkOK, OnTheList
  <2> QED BY <2>1, <2>2
<1> QED BY <1>2 DEF WalkInv

\* While the cursor's user is where it was, it is the row that `skip` drops.
LEMMA NextUsers ==
  ASSUME TypesInv, WalkInv, NEW r \in Requests, req[r].op = "page", ~req[r].moved
  PROVE  Skipped(r) = {u \in Users : OnTheList(req[r], u) /\ u > req[r].cursor}
<1> DEFINE c == req[r].cursor
<1>1. req[r] \in Calls /\ WalkOK(req[r])
  BY DEF TypesInv, PublishingTypeOK, WalkInv
<1>2. c \in 0..UserCount
  BY <1>1 DEF Calls
<1>3. CASE c = 0
  <2>1. From(r) = {u \in Users : OnTheList(req[r], u)}
    BY <1>3 DEF From, Others, OnTheList
  <2> QED BY <2>1, <1>3, UsersAreIntegers DEF Skipped
<1>4. CASE c # 0
  <2>1. OnTheList(req[r], c) /\ c \in Users
    BY <1>1, <1>2, <1>4, PublishingAssumption DEF WalkOK, Users
  <2>2. From(r) = {u \in Users : OnTheList(req[r], u) /\ u >= c}
    BY <1>4, <2>1 DEF From, Others, OnTheList
  <2>3. c \in From(r) /\ \A v \in From(r) : c <= v
    BY <2>1, <2>2, UsersAreIntegers
  <2>4. Min(From(r)) \in From(r) /\ \A v \in From(r) : Min(From(r)) <= v
    BY <2>2, <2>3, FirstUser
  <2>5. Min(From(r)) = c
    <3>1. Min(From(r)) <= c /\ c <= Min(From(r))
      BY <2>3, <2>4
    <3>2. c \in Nat /\ Min(From(r)) \in Nat
      BY <2>1, <2>2, <2>4, UsersAreIntegers
    <3> QED BY <3>1, <3>2
  <2>6. Skipped(r) = From(r) \ {c}
    BY <2>3, <2>5, <1>4 DEF Skipped
  <2> QED BY <2>6, <2>2, <2>1, UsersAreIntegers
<1> QED BY <1>3, <1>4

LEMMA WalkPreferences ==
  ASSUME TypesInv, WalkInv, NEW r \in Requests, ReadPreferences(r)
  PROVE  WalkInv'
<1> DEFINE muted == {u \in Users : user[u].status # "gone" /\ ~user[u].wants}
           steady == {u \in Users \ muted : user[u].status = "active"} \ {req[r].actor}
<1>1. PICK c : c = [req[r] EXCEPT !.op = "page", !.muted = muted, !.steady = steady]
  OBVIOUS
<1>2. Step(r, c) /\ user' = user /\ req[r] \in Calls /\ req[r].cursor = 0
  BY <1>1 DEF ReadPreferences, TypesInv, PublishingTypeOK, CallFits
<1>3. c.op = "page" /\ c.cursor = 0 /\ c.steady = steady /\ c.actor = req[r].actor /\ c.muted = muted
  BY <1>1, <1>2 DEF Calls
<1>4. \A u \in c.steady : OnTheList(c, u) /\ u \notin c.muted /\ u > 0
  BY <1>3, UsersAreIntegers DEF OnTheList
<1> HIDE DEF muted, steady
<1>5. WalkOK(c)
  BY <1>3, <1>4 DEF WalkOK
<1>6. WalkOK(c)'
  BY <1>2, <1>5 DEF WalkOK, OnTheList
<1> QED BY <1>2, <1>6, WalkOf

LEMMA WalkPage ==
  ASSUME TypesInv, WalkInv, NEW r \in Requests, ReadPage(r)
  PROVE  WalkInv'
<1>1. PICK page : page = PageOf(Skipped(r))
  OBVIOUS
<1>2. PICK c : c = [req[r] EXCEPT !.op = IF page = {} THEN "announce" ELSE "write", !.page = page]
  OBVIOUS
<1>3. PICK d : d = req[r]
  OBVIOUS
<1>4. Step(r, c) /\ user' = user /\ d \in Calls /\ d.op = "page" /\ WalkOK(d)
  BY <1>1, <1>2, <1>3 DEF ReadPage, TypesInv, PublishingTypeOK, WalkInv
<1>5. /\ c.op = (IF page = {} THEN "announce" ELSE "write") /\ c.page = page
      /\ c.steady = d.steady /\ c.moved = d.moved /\ c.actor = d.actor /\ c.muted = d.muted
  BY <1>2, <1>3, <1>4 DEF Calls
<1>6. \A u : OnTheList(c, u) <=> OnTheList(d, u)
  BY <1>5 DEF OnTheList
<1>7. \A u \in c.steady : OnTheList(c, u) /\ u \notin c.muted /\ u \in Users
  BY <1>4, <1>5, <1>6 DEF WalkOK, Calls
<1>8. WalkOK(c)
  <2>1. CASE d.moved
    BY <2>1, <1>5, <1>7 DEF WalkOK
  <2>2. CASE ~d.moved
    <3>1. PICK us : us = Skipped(r)
      OBVIOUS
    <3>2. us = {u \in Users : OnTheList(d, u) /\ u > d.cursor}
      BY <2>2, <3>1, <1>3, <1>4, NextUsers
    <3>3. c.steady \subseteq us
      BY <2>2, <3>2, <1>4, <1>5 , <1>6, <1>7 DEF WalkOK
    <3>4. /\ us \in SUBSET Users /\ page \subseteq us
          /\ us # {} => page # {}
          /\ \A u \in us \ page, v \in page : v < u
          /\ Cardinality(page) < Batch => page = us
      BY <3>1, <3>2, <1>1, PageIsAPrefix
    <3>5. CASE page = {}
      BY <3>5, <3>3, <3>4, <1>5, <1>7 DEF WalkOK
    <3>6. CASE page # {}
      <4>1. Max(page) \in page
        BY <3>6, <3>4, LastUser
      <4>2. OnTheList(c, Max(page))
        BY <4>1, <3>2, <3>4, <1>6
      <4>3. \A u \in c.steady : u \in page \/ u > Max(page)
        BY <4>1, <3>3, <3>4, UsersAreIntegers
      <4> QED BY <4>2, <4>3, <3>3, <3>4, <3>6, <1>5, <1>7 DEF WalkOK
    <3> QED BY <3>5, <3>6
  <2> QED BY <2>1, <2>2
<1>9. WalkOK(c)'
  BY <1>4, <1>8 DEF WalkOK, OnTheList
<1> QED BY <1>4, <1>9, WalkOf

LEMMA WalkWrite ==
  ASSUME TypesInv, WalkInv, NEW r \in Requests, WriteNotices(r)
  PROVE  WalkInv'
<1>1. PICK d : d = req[r]
  OBVIOUS
<1>2. PICK to : to = d.page \ d.muted
  OBVIOUS
<1>3. PICK c : c = [d EXCEPT !.op = IF Cardinality(d.page) < Batch THEN "announce" ELSE "page",
                             !.cursor = Max(d.page), !.page = {}, !.steady = @ \ to]
  OBVIOUS
<1>4. (Step(r, Idle) \/ Step(r, c)) /\ user' = user /\ d \in Calls /\ d.op = "write"
      /\ WalkOK(d) /\ d.page # {}
  BY <1>1, <1>2, <1>3 DEF WriteNotices, TypesInv, PublishingTypeOK, WalkInv, CallFits
<1>5. /\ c.op = (IF Cardinality(d.page) < Batch THEN "announce" ELSE "page")
      /\ c.cursor = Max(d.page) /\ c.steady = d.steady \ to
      /\ c.moved = d.moved /\ c.actor = d.actor /\ c.muted = d.muted
  BY <1>3, <1>4 DEF Calls
<1>6. \A u : OnTheList(c, u) <=> OnTheList(d, u)
  BY <1>5 DEF OnTheList
<1>7. \A u \in c.steady : OnTheList(c, u) /\ u \notin c.muted /\ u \notin d.page
  BY <1>2, <1>4, <1>5, <1>6 DEF WalkOK
<1>8. WalkOK(c)
  <2>1. CASE d.moved
    BY <2>1, <1>5, <1>7 DEF WalkOK
  <2>2. CASE ~d.moved /\ Cardinality(d.page) < Batch
    <3>1. c.steady = {}
      BY <2>2, <1>4, <1>5, <1>7 DEF WalkOK
    <3> QED BY <2>2, <3>1, <1>5 DEF WalkOK
  <2>3. CASE ~d.moved /\ ~(Cardinality(d.page) < Batch)
    <3>1. \A u \in c.steady : u > Max(d.page)
      BY <2>3, <1>4, <1>5, <1>7 DEF WalkOK
    <3>2. OnTheList(c, Max(d.page))
      BY <2>3, <1>4, <1>6 DEF WalkOK
    <3> QED BY <2>3, <3>1, <3>2, <1>5, <1>7 DEF WalkOK
  <2> QED BY <2>1, <2>2, <2>3
<1>9. WalkOK(c)'
  BY <1>4, <1>8 DEF WalkOK, OnTheList
<1>10. Idle.op = "idle"
  BY DEF Idle
<1> QED BY <1>4, <1>9, <1>10, WalkOf

\* Whoever is banned, muted or deleted is no longer owed, and moves the page that
\* ends with it.
LEMMA WalkDisturb ==
  ASSUME TypesInv, WalkInv, NEW u \in Users, NEW row \in UserRows, Disturb(u, row)
  PROVE  WalkInv'
<1>1. user' = [user EXCEPT ![u] = row] /\ user \in [Users -> UserRows]
  BY DEF Disturb, TypesInv, PublishingTypeOK
<1>2. ASSUME NEW r \in Requests PROVE WalkOK(req[r])'
  <2>1. PICK d : d = req[r]
    OBVIOUS
  <2>2. d \in Calls /\ WalkOK(d) /\ (d.op = "write" => d.page # {})
    BY <2>1 DEF TypesInv, PublishingTypeOK, WalkInv, CallFits
  <2>3. PICK c : c = [d EXCEPT !.steady = @ \ {u},
                         !.moved = @ \/ (row.status # user[u].status /\ u = Cursor(r))]
    OBVIOUS
  <2>4. req'[r] = c
    BY <2>1, <2>3 DEF Disturb
  <2>5. /\ c.op = d.op /\ c.steady = d.steady \ {u} /\ c.actor = d.actor /\ c.muted = d.muted
        /\ c.cursor = d.cursor /\ c.page = d.page
        /\ c.moved = (d.moved \/ (row.status # user[u].status /\ u = Cursor(r)))
    BY <2>2, <2>3 DEF Calls
  <2>6. \A v \in Users \ {u} : OnTheList(d, v) => OnTheList(c, v)'
    BY <1>1, <2>5 DEF OnTheList
  <2>7. \A v \in c.steady : OnTheList(c, v)' \/ d.op \notin {"page", "write"}
    BY <2>2, <2>5, <2>6 DEF WalkOK, Calls
  <2>8. ASSUME NEW k \in Users, ~c.moved, k = Cursor(r), OnTheList(d, k) PROVE OnTheList(c, k)'
    <3>2. k # u => user'[k] = user[k]
      BY <1>1
    <3>3. k = u => user'[k].status = user[k].status
      BY <1>1, <2>5, <2>8
    <3> QED BY <2>5, <2>8, <3>2, <3>3 DEF OnTheList
  <2>9. WalkOK(c)'
    <3>1. CASE d.op = "page"
      <4>1. PICK k : k = d.cursor
        OBVIOUS
      <4>2. k = Cursor(r) /\ (k # 0 => k \in Users)
        BY <4>1, <3>1, <2>1, <2>2, PublishingAssumption DEF Cursor, Calls, Users
      <4>3. ~c.moved => ~d.moved
        BY <2>2, <2>5 DEF Calls
      <4>4. ~c.moved /\ k # 0 => OnTheList(c, k)'
        BY <4>1, <4>2, <4>3, <3>1, <2>2, <2>8 DEF WalkOK
      <4>5. ~c.moved => \A v \in c.steady : v > k
        BY <4>1, <4>3, <3>1, <2>2, <2>5 DEF WalkOK
      <4>6. \A v \in c.steady : OnTheList(c, v)' /\ v \notin c.muted
        BY <3>1, <2>2, <2>5, <2>7 DEF WalkOK
      <4> QED BY <4>1, <4>4, <4>5, <4>6, <3>1, <2>5 DEF WalkOK
    <3>2. CASE d.op = "write"
      <4>1. PICK k : k = Max(d.page)
        OBVIOUS
      <4>2. k = Cursor(r) /\ k \in Users
        <5>1. d.page \in SUBSET Users /\ d.page # {}
          BY <3>2, <2>2 DEF Calls
        <5> QED BY <5>1, <4>1, <3>2, <2>1, LastUser DEF Cursor
      <4>3. ~c.moved => ~d.moved
        BY <2>2, <2>5 DEF Calls
      <4>4. ~c.moved => OnTheList(c, k)'
        BY <4>1, <4>2, <4>3, <3>2, <2>2, <2>8 DEF WalkOK
      <4>5. ~c.moved => /\ \A v \in c.steady : v \in c.page \/ v > k
                        /\ Cardinality(c.page) < Batch => c.steady \subseteq c.page
        BY <4>1, <4>3, <3>2, <2>2, <2>5 DEF WalkOK
      <4>6. \A v \in c.steady : OnTheList(c, v)' /\ v \notin c.muted
        BY <3>2, <2>2, <2>5, <2>7 DEF WalkOK
      <4> QED BY <4>1, <4>4, <4>5, <4>6, <3>2, <2>5 DEF WalkOK
    <3>3. CASE d.op = "announce"
      BY <3>3, <2>2, <2>5 DEF WalkOK
    <3>4. CASE d.op \notin {"page", "write", "announce"}
      BY <3>4, <2>5 DEF WalkOK
    <3> QED BY <3>1, <3>2, <3>3, <3>4
  <2> QED BY <2>4, <2>9 DEF WalkOK, OnTheList
<1> QED BY <1>2 DEF WalkInv

LEMMA WalkStep == ASSUME TypesInv, WalkInv, [Next]_vars PROVE WalkInv'
<1> DEFINE Silent(c) == c.op \notin {"page", "write", "announce"}
<1>1. ASSUME NEW r \in Requests, NEW a \in Users, NEW p, NEW was, NEW now, Publish(r, a, p, was, now),
             user' = user
      PROVE  WalkInv'
  <2>1. PICK c : Step(r, c) /\ (c = Idle \/ c = [Idle EXCEPT !.op = "prefs", !.post = p, !.actor = a])
    BY <1>1 DEF Publish
  <2>2. c.op \in {"idle", "prefs"}
    <3>1. CASE c = Idle
      BY <3>1 DEF Idle
    <3>2. CASE c = [Idle EXCEPT !.op = "prefs", !.post = p, !.actor = a]
      BY <3>2 DEF Idle
    <3> QED BY <2>1, <3>1, <3>2
  <2> QED BY <1>1, <2>1, <2>2, WalkOf
<1>2. ASSUME NEW r \in Requests, NEW c, Step(r, c), Silent(c), user' = user PROVE WalkInv'
  BY <1>2, WalkOf
<1> HIDE DEF Silent
<1>3. ASSUME NEW r \in Requests, Handler(r) PROVE WalkInv'
  <2>a. Silent(Idle)
    BY DEF Silent, Idle
  <2>b. req[r] \in Calls /\ CallFits(req[r])
    BY DEF TypesInv, PublishingTypeOK
  <2>1. ASSUME NEW a \in Users, NEW w \in Weekends, NEW gs \in SUBSET Games, NEW now \in PostStates,
               CreateWeekend(r, a, w, gs, now)
        PROVE  WalkInv'
    BY <2>1, <1>1 DEF CreateWeekend
  <2>2. ASSUME NEW a \in Users, NEW n \in News, NEW now \in PostStates, CreateNews(r, a, n, now)
        PROVE  WalkInv'
    BY <2>2, <1>1 DEF CreateNews
  <2>3. ASSUME NEW a \in Users, NEW p \in Posts, NEW to \in {"same", "draft", "published"},
               UpdateCheck(r, a, p, to)
        PROVE  WalkInv'
    <3>1. PICK c : c = [Idle EXCEPT !.op = "update", !.post = p, !.actor = a, !.was = post[p], !.to = to]
      OBVIOUS
    <3>2. Silent(c)
      BY <3>1 DEF Silent, Idle
    <3> QED BY <2>3, <3>1, <3>2, <1>2 DEF UpdateCheck, Begin
  <2>4. CASE Update(r)
    <3>1. req[r].actor \in Users
      BY <2>4, <2>b DEF Update, CallFits
    <3> QED BY <2>4, <3>1, <1>1 DEF Update
  <2>5. CASE ReadPreferences(r)
    BY <2>5, WalkPreferences
  <2>6. CASE ReadPage(r)
    BY <2>6, WalkPage
  <2>7. CASE WriteNotices(r)
    BY <2>7, WalkWrite
  <2>8. CASE Announce(r)
    BY <2>8, <2>a, <1>2 DEF Announce
  <2>9. ASSUME NEW w \in Weekends, DeleteWeekendCheck(r, w) PROVE WalkInv'
    <3>1. PICK c : c = [Idle EXCEPT !.op = IF GamesOf(w) = {} THEN "delete" ELSE "games", !.post = w]
      OBVIOUS
    <3>2. Silent(c)
      BY <3>1 DEF Silent, Idle
    <3> QED BY <2>9, <3>1, <3>2, <1>2 DEF DeleteWeekendCheck, Begin
  <2>10. ASSUME NEW w \in Weekends, NEW g \in Games, CreateGameCheck(r, w, g) PROVE WalkInv'
    <3>1. PICK c : c = [Idle EXCEPT !.op = "addGame", !.post = w, !.game = g]
      OBVIOUS
    <3>2. Silent(c)
      BY <3>1 DEF Silent, Idle
    <3> QED BY <2>10, <3>1, <3>2, <1>2 DEF CreateGameCheck, Begin
  <2>11. ASSUME NEW g \in Games, DeleteGameCheck(r, g) PROVE WalkInv'
    <3>1. PICK c : c = [Idle EXCEPT !.op = "dropGame", !.post = game[g], !.game = g]
      OBVIOUS
    <3>2. Silent(c)
      BY <3>1 DEF Silent, Idle
    <3> QED BY <2>11, <3>1, <3>2, <1>2 DEF DeleteGameCheck, Begin
  <2>12. CASE DeleteWeekend(r)
    BY <2>12, <2>a, <1>2 DEF DeleteWeekend
  <2>13. CASE CreateGame(r)
    BY <2>13, <2>a, <1>2 DEF CreateGame
  <2>14. ASSUME NEW w, NEW c, Silent(c), user' = user,
                req' = [q \in Requests |-> IF q = r THEN c ELSE Uncount(w, req[q])]
         PROVE  WalkInv'
    <3>1. ASSUME NEW q \in Requests PROVE WalkOK(req[q])'
      <4>1. CASE q = r
        <5>1. req'[q] = c
          BY <2>14, <4>1
        <5> QED BY <5>1, <2>14 DEF WalkOK, Silent
      <4>2. CASE q # r
        <5>1. PICK d : d = req[q]
          OBVIOUS
        <5>2. d \in Calls /\ WalkOK(d)
          BY <5>1 DEF TypesInv, PublishingTypeOK, WalkInv
        <5>3. PICK e : e = Uncount(w, d)
          OBVIOUS
        <5>4. req'[q] = e
          BY <2>14, <4>2, <5>1, <5>3
        <5>5. e = d \/ e = [d EXCEPT !.stale = TRUE]
          BY <5>3 DEF Uncount
        <5>6. /\ e.op = d.op /\ e.steady = d.steady /\ e.moved = d.moved /\ e.actor = d.actor
              /\ e.muted = d.muted /\ e.cursor = d.cursor /\ e.page = d.page
          BY <5>2, <5>5 DEF Calls
        <5>7. WalkOK(e)
          BY <5>2, <5>6 DEF WalkOK, OnTheList
        <5> QED BY <5>4, <5>7, <2>14 DEF WalkOK, OnTheList
      <4> QED BY <4>1, <4>2
    <3> QED BY <3>1 DEF WalkInv
  <2>15. CASE DeleteGames(r)
    <3>1. PICK c : c = [req[r] EXCEPT !.op = "delete"]
      OBVIOUS
    <3>2. Silent(c)
      BY <3>1, <2>b DEF Silent, Calls
    <3> QED BY <2>15, <3>1, <3>2, <2>14 DEF DeleteGames
  <2>16. CASE DeleteGame(r)
    BY <2>16, <2>a, <2>14 DEF DeleteGame
  <2>17. CASE BreakOff(r)
    BY <2>17, <2>a, <1>2 DEF BreakOff
  <2> QED BY <1>3, <2>1, <2>2, <2>3, <2>4, <2>5, <2>6, <2>7, <2>8, <2>9, <2>10, <2>11, <2>12,
            <2>13, <2>15, <2>16, <2>17 DEF Handler, AnnounceWeekend, AnnounceNews
<1>4. ASSUME NEW n \in News, DeleteNews(n) PROVE WalkInv'
  BY <1>4 DEF DeleteNews, WalkInv, WalkOK, OnTheList
<1>5. ASSUME NEW u \in Users, Account(u) PROVE WalkInv'
  BY <1>5, AccountDisturbs, WalkDisturb
<1>6. CASE UNCHANGED vars
  BY <1>6 DEF vars, WalkInv, WalkOK, OnTheList
<1> QED BY <1>3, <1>4, <1>5, <1>6 DEF Next

LEMMA InitWalk == ASSUME Init PROVE WalkInv
  BY DEF Init, WalkInv, WalkOK, Idle

-----------------------------------------------------------------------------
(* Nobody is told more often than a post was published.                     *)

LEMMA FewerAre ==
  ASSUME NEW S, IsFiniteSet(S), NEW T, T \subseteq S
  PROVE  /\ IsFiniteSet(T) /\ Cardinality(T) \in Nat /\ Cardinality(S) \in Nat
         /\ Cardinality(T) <= Cardinality(S)
         /\ \A x \in S \ T : Cardinality(T) <= Cardinality(S) - 1
<1>1. IsFiniteSet(T) /\ Cardinality(T) \in Nat /\ Cardinality(S) \in Nat
      /\ Cardinality(T) <= Cardinality(S)
  BY FS_Subset, FS_CardinalityType
<1>2. ASSUME NEW x \in S \ T PROVE Cardinality(T) <= Cardinality(S) - 1
  <2>1. T \subseteq S \ {x}
    BY <1>2
  <2>2. IsFiniteSet(S \ {x}) /\ Cardinality(S \ {x}) = Cardinality(S) - 1
    BY <1>2, FS_RemoveElement
  <2> QED BY <2>1, <2>2, FS_Subset
<1> QED BY <1>1, <1>2

LEMMA OneMoreIs ==
  ASSUME NEW S, IsFiniteSet(S), NEW T, NEW r, T \subseteq S \union {r}
  PROVE  /\ IsFiniteSet(T) /\ Cardinality(T) \in Nat /\ Cardinality(S) \in Nat
         /\ Cardinality(T) <= Cardinality(S) + 1
<1>1. /\ IsFiniteSet(S \union {r}) /\ Cardinality(S) \in Nat
      /\ Cardinality(S \union {r}) <= Cardinality(S) + 1
  BY FS_AddElement, FS_CardinalityType
<1>2. /\ IsFiniteSet(T) /\ Cardinality(T) \in Nat /\ Cardinality(T) <= Cardinality(S \union {r})
      /\ Cardinality(S \union {r}) \in Nat
  BY <1>1, FS_Subset, FS_CardinalityType
<1> QED BY <1>1, <1>2

LEMMA PendingTell == \A p \in Posts, u \in Users : Pending(p, u) \subseteq Telling(p)
  BY DEF Pending, Telling, MayTell, Tells, TellOps

\* A handler that d follows c in tells no other post and no more users.
NoMore(c, d) == \A p \in Posts :
  /\ Tells(d, p) => Tells(c, p)
  /\ \A u \in Users : MayTell(d, p, u) => MayTell(c, p, u)
Quiet(c) == \A p \in Posts : ~Tells(c, p) /\ \A u \in Users : ~MayTell(c, p, u)

LEMMA SilentIsQuiet ==
  ASSUME NEW c, c.op \notin TellOps
  PROVE  Quiet(c) /\ \A d : NoMore(d, c)
  BY DEF Quiet, NoMore, Tells, MayTell, TellOps

LEMMA NoMoreIsLess ==
  ASSUME \A q \in Requests : NoMore(req[q], req'[q]), NEW p \in Posts
  PROVE  /\ Telling(p)' \subseteq Telling(p)
         /\ \A u \in Users : Pending(p, u)' \subseteq Pending(p, u)
  BY DEF Telling, Pending, NoMore

LEMMA CountsShrink ==
  ASSUME TypesInv, TypesInv', CountInv, \A q \in Requests : NoMore(req[q], req'[q]),
         UNCHANGED <<channel, issued, doubled>>,
         \A p \in Posts, u \in Users : notice'[p][u] <= notice[p][u]
  PROVE  CountInv'
<1> SUFFICES ASSUME NEW p \in Posts PROVE IsFiniteSet(Telling(p)') /\ PostCounts(p)'
  BY DEF CountInv
<1>1. /\ channel[p] \in Nat /\ issued[p] \in Nat
      /\ \A u \in Users : notice[p][u] \in Nat /\ notice'[p][u] \in Nat
  BY DEF TypesInv, PublishingTypeOK
<1>2. IsFiniteSet(Telling(p)) /\ PostCounts(p)
  BY DEF CountInv
<1>3. /\ IsFiniteSet(Telling(p)') /\ Cardinality(Telling(p)') \in Nat
      /\ Cardinality(Telling(p)) \in Nat /\ Cardinality(Telling(p)') <= Cardinality(Telling(p))
  BY <1>2, NoMoreIsLess, FewerAre
<1>4. ASSUME NEW u \in Users
      PROVE  /\ Cardinality(Pending(p, u)') \in Nat /\ Cardinality(Pending(p, u)) \in Nat
             /\ Cardinality(Pending(p, u)') <= Cardinality(Pending(p, u))
  <2>1. IsFiniteSet(Pending(p, u))
    BY <1>2, PendingTell, FewerAre
  <2> QED BY <2>1, NoMoreIsLess, FewerAre
<1>5. PostCounts(p)'
  <2> SUFFICES ASSUME p \notin doubled'
               PROVE  /\ channel'[p] + Cardinality(Telling(p)') <= issued'[p]
                      /\ \A u \in Users : notice'[p][u] + Cardinality(Pending(p, u)') <= issued'[p]
    BY DEF PostCounts
  <2>1. /\ channel[p] + Cardinality(Telling(p)) <= issued[p]
        /\ \A u \in Users : notice[p][u] + Cardinality(Pending(p, u)) <= issued[p]
    BY <1>2 DEF PostCounts
  <2>2. channel'[p] + Cardinality(Telling(p)') <= issued'[p]
    BY <2>1, <1>1, <1>3
  <2>3. ASSUME NEW u \in Users PROVE notice'[p][u] + Cardinality(Pending(p, u)') <= issued'[p]
    BY <2>1, <1>1, <1>4
  <2> QED BY <2>2, <2>3
<1> QED BY <1>3, <1>5

\* A step of r alone.
LEMMA StepOfOne ==
  ASSUME TypesInv, NEW r \in Requests, NEW c, Step(r, c), NoMore(req[r], c)
  PROVE  \A q \in Requests : NoMore(req[q], req'[q])
<1>1. req' = [req EXCEPT ![r] = c] /\ req \in [Requests -> Calls]
  BY DEF Step, TypesInv, PublishingTypeOK
<1>2. ASSUME NEW q \in Requests \ {r} PROVE NoMore(req[q], req'[q])
  BY <1>1 DEF NoMore
<1> QED BY <1>1, <1>2

\* A publication: one handler more, and one more time, unless two did it at a time.
LEMMA PublishCounts ==
  ASSUME TypesInv, TypesInv', CountInv, NEW r \in Requests, NEW a \in Users, NEW p \in Posts,
         NEW was, NEW now, Publish(r, a, p, was, now), UNCHANGED <<notice, channel>>
  PROVE  CountInv'
<1>1. CASE ~ToBeTold(was, now)
  <2>1. Step(r, Idle) /\ UNCHANGED <<issued, doubled>>
    BY <1>1 DEF Publish
  <2>2. NoMore(req[r], Idle)
    BY SilentIsQuiet DEF Idle, TellOps
  <2>3. \A q \in Requests : NoMore(req[q], req'[q])
    BY <2>1, <2>2, StepOfOne
  <2>4. \A q \in Posts, u \in Users : notice'[q][u] <= notice[q][u]
    BY DEF TypesInv, PublishingTypeOK
  <2> QED BY <2>1, <2>3, <2>4, CountsShrink
<1>2. CASE ToBeTold(was, now)
  <2>1. PICK c : c = [Idle EXCEPT !.op = "prefs", !.post = p, !.actor = a]
    OBVIOUS
  <2>2. /\ Step(r, c)
        /\ issued' = IF post[p] # "published" THEN [issued EXCEPT ![p] = @ + 1] ELSE issued
        /\ doubled' = IF post[p] = "published" THEN doubled \union {p} ELSE doubled
    BY <2>1, <1>2 DEF Publish
  <2>3. c.post = p
    BY <2>1 DEF Idle
  <2>4. req' = [req EXCEPT ![r] = c] /\ req \in [Requests -> Calls]
    BY <2>2 DEF Step, TypesInv, PublishingTypeOK
  <2> SUFFICES ASSUME NEW s \in Posts PROVE IsFiniteSet(Telling(s)') /\ PostCounts(s)'
    BY DEF CountInv
  <2>5. /\ Telling(s)' \subseteq Telling(s) \union {r}
        /\ s # p => Telling(s)' \subseteq Telling(s)
    BY <2>3, <2>4 DEF Telling, Tells
  <2>6. ASSUME NEW u \in Users
        PROVE  /\ Pending(s, u)' \subseteq Pending(s, u) \union {r}
               /\ s # p => Pending(s, u)' \subseteq Pending(s, u)
    BY <2>3, <2>4 DEF Pending, MayTell
  <2>7. /\ channel[s] \in Nat /\ issued[s] \in Nat
        /\ \A u \in Users : notice[s][u] \in Nat
        /\ issued \in [Posts -> Nat]
    BY DEF TypesInv, PublishingTypeOK
  <2>8. IsFiniteSet(Telling(s)) /\ PostCounts(s)
    BY DEF CountInv
  <2>9. \A u \in Users : IsFiniteSet(Pending(s, u))
    BY <2>8, PendingTell, FewerAre
  <2>10. /\ IsFiniteSet(Telling(s)') /\ Cardinality(Telling(s)') \in Nat
         /\ Cardinality(Telling(s)) \in Nat
         /\ Cardinality(Telling(s)') <= Cardinality(Telling(s)) + 1
    BY <2>5, <2>8, OneMoreIs
  <2>11. ASSUME NEW u \in Users
         PROVE  /\ Cardinality(Pending(s, u)') \in Nat /\ Cardinality(Pending(s, u)) \in Nat
                /\ Cardinality(Pending(s, u)') <= Cardinality(Pending(s, u)) + 1
    BY <2>6, <2>9, OneMoreIs
  <2>12. ASSUME s \notin doubled' PROVE /\ channel[s] + Cardinality(Telling(s)') <= issued'[s]
                /\ \A u \in Users : notice[s][u] + Cardinality(Pending(s, u)') <= issued'[s]
    <3>1. /\ channel[s] + Cardinality(Telling(s)) <= issued[s]
          /\ \A u \in Users : notice[s][u] + Cardinality(Pending(s, u)) <= issued[s]
      BY <2>2, <2>8, <2>12 DEF PostCounts
    <3>2. CASE s = p
      <4>1. issued'[s] = issued[s] + 1
        BY <3>2, <2>2, <2>7, <2>12
      <4>2. channel[s] + Cardinality(Telling(s)') <= issued'[s]
        BY <4>1, <3>1, <2>7, <2>10
      <4>3. ASSUME NEW u \in Users PROVE notice[s][u] + Cardinality(Pending(s, u)') <= issued'[s]
        BY <4>1, <3>1, <2>7, <2>11
      <4> QED BY <4>2, <4>3
    <3>3. CASE s # p
      <4>1. issued'[s] = issued[s]
        BY <3>3, <2>2, <2>7
      <4>2. Cardinality(Telling(s)') <= Cardinality(Telling(s))
        BY <3>3, <2>5, <2>8, FewerAre
      <4>3. channel[s] + Cardinality(Telling(s)') <= issued'[s]
        BY <4>1, <4>2, <3>1, <2>7, <2>10
      <4>4. ASSUME NEW u \in Users PROVE notice[s][u] + Cardinality(Pending(s, u)') <= issued'[s]
        <5>1. Cardinality(Pending(s, u)') <= Cardinality(Pending(s, u))
          BY <3>3, <2>6, <2>9, FewerAre
        <5> QED BY <5>1, <4>1, <3>1, <2>7, <2>11
      <4> QED BY <4>3, <4>4
    <3> QED BY <3>2, <3>3
  <2> QED BY <2>10, <2>12 DEF PostCounts
<1> QED BY <1>1, <1>2

\* Wherever the cursor's user is, a page holds users after the cursor only.
LEMMA PageIsAfterTheCursor ==
  ASSUME TypesInv, NEW r \in Requests
  PROVE  \A u \in Skipped(r) : u > req[r].cursor /\ u \in Users
<1>1. PICK c \in 0..UserCount : c = req[r].cursor
  BY DEF TypesInv, PublishingTypeOK, Calls
<1>2. From(r) \in SUBSET Users
  BY PageIsOfUsers
<1>3. \A u \in From(r) : u \in Nat /\ u >= 1 /\ u >= c
  BY <1>1, <1>2, UsersAreIntegers DEF From
<1>4. CASE c = 0 \/ From(r) = {}
  BY <1>1, <1>2, <1>3, <1>4 DEF Skipped
<1>5. CASE c # 0 /\ From(r) # {}
  <2>1. PICK m : m = Min(From(r))
    OBVIOUS
  <2>2. m \in From(r) /\ \A v \in From(r) : m <= v
    BY <1>2, <1>5, <2>1, FirstUser
  <2>3. Skipped(r) = From(r) \ {m}
    BY <1>1, <1>5, <2>1 DEF Skipped
  <2>4. c \in Nat
    BY <1>1
  <2> QED BY <1>1, <1>2, <1>3, <2>2, <2>3, <2>4
<1> QED BY <1>4, <1>5

LEMMA ReadCounts ==
  ASSUME TypesInv, TypesInv', CountInv, NEW r \in Requests
  PROVE  /\ ReadPreferences(r) => CountInv'
         /\ ReadPage(r) => CountInv'
<1>0. PICK d \in Calls : d = req[r] /\ CallFits(d)
  BY DEF TypesInv, PublishingTypeOK
<1>a. \A p \in Posts, u \in Users : notice[p][u] <= notice[p][u]
  BY DEF TypesInv, PublishingTypeOK
<1>1. ASSUME ReadPreferences(r) PROVE CountInv'
  <2>1. PICK muted, steady : Step(r, [d EXCEPT !.op = "page", !.muted = muted, !.steady = steady])
    BY <1>1, <1>0 DEF ReadPreferences
  <2>2. PICK c : c = [d EXCEPT !.op = "page", !.muted = muted, !.steady = steady]
    OBVIOUS
  <2>3. UNCHANGED <<notice, channel, issued, doubled>> /\ d.op = "prefs"
    BY <1>1, <1>0 DEF ReadPreferences
  <2>4. c.op = "page" /\ c.post = d.post
    BY <2>2 DEF Calls
  <2>5. NoMore(d, c)
    BY <2>3, <2>4 DEF NoMore, Tells, MayTell, TellOps
  <2>6. \A q \in Requests : NoMore(req[q], req'[q])
    BY <1>0, <2>1, <2>2, <2>5, StepOfOne
  <2> QED BY <2>3, <2>6, <1>a, CountsShrink
<1>2. ASSUME ReadPage(r) PROVE CountInv'
  <2>1. PICK page : page = PageOf(Skipped(r))
    OBVIOUS
  <2>2. PICK c : c = [d EXCEPT !.op = IF page = {} THEN "announce" ELSE "write", !.page = page]
    OBVIOUS
  <2>3. Step(r, c) /\ UNCHANGED <<notice, channel, issued, doubled>> /\ d.op = "page"
    BY <1>2, <1>0, <2>1, <2>2 DEF ReadPage
  <2>4. c.op = (IF page = {} THEN "announce" ELSE "write") /\ c.post = d.post /\ c.page = page
    BY <2>2 DEF Calls
  <2>5. page \in SUBSET Users /\ \A u \in page : u > d.cursor
    BY <2>1, <1>0, PageIsAfterTheCursor, PageIsAPrefix, PageIsOfUsers
  <2>6. NoMore(d, c)
    <3>1. CASE page = {}
      BY <3>1, <2>3, <2>4 DEF NoMore, Tells, MayTell, TellOps
    <3>2. CASE page # {}
      <4>1. PICK m \in Users : m = Max(page) /\ m > d.cursor
        BY <3>2, <2>5, LastUser
      <4>2. \A u \in Users : u \in page \/ u > m => u > d.cursor
        BY <4>1, <2>5, UsersAreIntegers DEF Calls
      <4> QED BY <3>2, <4>1, <4>2, <2>3, <2>4 DEF NoMore, Tells, MayTell, TellOps
    <3> QED BY <3>1, <3>2
  <2>7. \A q \in Requests : NoMore(req[q], req'[q])
    BY <1>0, <2>3, <2>6, StepOfOne
  <2> QED BY <2>3, <2>7, <1>a, CountsShrink
<1> QED BY <1>1, <1>2

\* Who is told no longer is about to be.
LEMMA WriteCounts ==
  ASSUME TypesInv, TypesInv', CountInv, NEW r \in Requests, WriteNotices(r)
  PROVE  CountInv'
<1>0. PICK d \in Calls : d = req[r] /\ CallFits(d)
  BY DEF TypesInv, PublishingTypeOK
<1>1. PICK to : to = d.page \ d.muted
  OBVIOUS
<1>2. PICK c : c = [d EXCEPT !.op = IF Cardinality(d.page) < Batch THEN "announce" ELSE "page",
                             !.cursor = Max(d.page), !.page = {}, !.steady = @ \ to]
  OBVIOUS
<1>3. d.op = "write" /\ d.page # {} /\ d.page \in SUBSET Users /\ d.post \in Posts
      /\ UNCHANGED <<channel, issued, doubled>>
  BY <1>0 DEF WriteNotices, CallFits, Calls, TellOps
<1>4. CASE Step(r, Idle) /\ UNCHANGED notice
  <2>1. NoMore(req[r], Idle)
    BY SilentIsQuiet DEF Idle, TellOps
  <2>2. \A q \in Requests : NoMore(req[q], req'[q])
    BY <1>4, <2>1, StepOfOne
  <2>3. \A q \in Posts, u \in Users : notice'[q][u] <= notice[q][u]
    BY <1>4 DEF TypesInv, PublishingTypeOK
  <2> QED BY <1>3, <2>2, <2>3, CountsShrink
<1>5. CASE /\ Step(r, c)
           /\ notice' = [notice EXCEPT ![d.post] =
                           [u \in Users |-> IF u \in to THEN @[u] + 1 ELSE @[u]]]
  <2>1. /\ c.op = (IF Cardinality(d.page) < Batch THEN "announce" ELSE "page")
        /\ c.post = d.post /\ c.cursor = Max(d.page)
    BY <1>2 DEF Calls
  <2>2. PICK m \in Users : m = Max(d.page) /\ \A u \in d.page : u <= m
    BY <1>3, LastUser
  <2>3. \A u \in Users : u > m => u \notin d.page
    BY <2>2, UsersAreIntegers
  <2>4. NoMore(d, c)
    BY <1>3, <2>1, <2>2 DEF NoMore, Tells, MayTell, TellOps
  <2>5. \A q \in Requests : NoMore(req[q], req'[q])
    BY <1>0, <1>5, <2>4, StepOfOne
  <2>6. req'[r] = c
    BY <1>5 DEF Step, TypesInv, PublishingTypeOK
  <2> SUFFICES ASSUME NEW p \in Posts PROVE IsFiniteSet(Telling(p)') /\ PostCounts(p)'
    BY DEF CountInv
  <2>7. /\ channel[p] \in Nat /\ issued[p] \in Nat
        /\ \A u \in Users : notice[p][u] \in Nat
        /\ notice \in [Posts -> [Users -> Nat]]
    BY DEF TypesInv, PublishingTypeOK
  <2>8. IsFiniteSet(Telling(p)) /\ PostCounts(p)
    BY DEF CountInv
  <2>9. /\ IsFiniteSet(Telling(p)') /\ Cardinality(Telling(p)') \in Nat
        /\ Cardinality(Telling(p)) \in Nat /\ Cardinality(Telling(p)') <= Cardinality(Telling(p))
    BY <2>5, <2>8, NoMoreIsLess, FewerAre
  <2>10. ASSUME NEW u \in Users, p \notin doubled,
                notice[p][u] + Cardinality(Pending(p, u)) <= issued[p]
         PROVE  notice'[p][u] + Cardinality(Pending(p, u)') <= issued[p]
    <3>1. IsFiniteSet(Pending(p, u))
      BY <2>8, PendingTell, FewerAre
    <3>2. Pending(p, u)' \subseteq Pending(p, u)
      BY <2>5, NoMoreIsLess
    <3>3. CASE p = d.post /\ u \in to
      <4>1. notice'[p][u] = notice[p][u] + 1
        BY <3>3, <1>5, <2>7
      <4>2. MayTell(d, p, u)
        BY <3>3, <1>1, <1>3 DEF MayTell
      <4>3. ~MayTell(c, p, u)
        <5>1. ~(u > m)
          BY <3>3, <1>1, <2>3
        <5> QED BY <5>1, <2>1, <2>2 DEF MayTell
      <4>4. r \in Pending(p, u) \ Pending(p, u)'
        BY <4>2, <4>3, <2>6, <1>0 DEF Pending
      <4>5. /\ Cardinality(Pending(p, u)') \in Nat /\ Cardinality(Pending(p, u)) \in Nat
            /\ Cardinality(Pending(p, u)') <= Cardinality(Pending(p, u)) - 1
        BY <3>1, <3>2, <4>4, FewerAre
      <4> QED BY <4>1, <4>5, <2>7, <2>10
    <3>4. CASE ~(p = d.post /\ u \in to)
      <4>1. notice'[p][u] = notice[p][u]
        BY <3>4, <1>5, <2>7
      <4>2. /\ Cardinality(Pending(p, u)') \in Nat /\ Cardinality(Pending(p, u)) \in Nat
            /\ Cardinality(Pending(p, u)') <= Cardinality(Pending(p, u))
        BY <3>1, <3>2, FewerAre
      <4> QED BY <4>1, <4>2, <2>7, <2>10
    <3> QED BY <3>3, <3>4
  <2>11. ASSUME p \notin doubled
         PROVE  /\ channel[p] + Cardinality(Telling(p)') <= issued[p]
                /\ \A u \in Users : notice'[p][u] + Cardinality(Pending(p, u)') <= issued[p]
    <3>1. /\ channel[p] + Cardinality(Telling(p)) <= issued[p]
          /\ \A u \in Users : notice[p][u] + Cardinality(Pending(p, u)) <= issued[p]
      BY <2>8, <2>11 DEF PostCounts
    <3>2. channel[p] + Cardinality(Telling(p)') <= issued[p]
      BY <3>1, <2>7, <2>9
    <3> QED BY <3>1, <3>2, <2>10, <2>11
  <2> QED BY <2>9, <2>11, <1>3 DEF PostCounts
<1> QED BY <1>0, <1>1, <1>2, <1>4, <1>5 DEF WriteNotices

\* The handler whose post reaches the channels has ended.
LEMMA AnnounceCounts ==
  ASSUME TypesInv, TypesInv', CountInv, NEW r \in Requests, Announce(r)
  PROVE  CountInv'
<1>0. PICK d \in Calls : d = req[r] /\ CallFits(d)
  BY DEF TypesInv, PublishingTypeOK
<1>1. /\ Step(r, Idle) /\ UNCHANGED <<notice, issued, doubled>> /\ d.op = "announce" /\ d.post \in Posts
      /\ (channel' = channel \/ channel' = [channel EXCEPT ![d.post] = @ + 1])
  BY <1>0 DEF Announce, CallFits, TellOps
<1>2. NoMore(d, Idle) /\ Quiet(Idle)
  BY SilentIsQuiet DEF Idle, TellOps
<1>3. \A q \in Requests : NoMore(req[q], req'[q])
  BY <1>0, <1>1, <1>2, StepOfOne
<1>4. req'[r] = Idle
  BY <1>1 DEF Step, TypesInv, PublishingTypeOK
<1> SUFFICES ASSUME NEW p \in Posts PROVE IsFiniteSet(Telling(p)') /\ PostCounts(p)'
  BY DEF CountInv
<1>5. /\ channel[p] \in Nat /\ issued[p] \in Nat
      /\ \A u \in Users : notice[p][u] \in Nat
      /\ channel \in [Posts -> Nat]
  BY DEF TypesInv, PublishingTypeOK
<1>6. IsFiniteSet(Telling(p)) /\ PostCounts(p)
  BY DEF CountInv
<1>7. Telling(p)' \subseteq Telling(p)
  BY <1>3, NoMoreIsLess
<1>8. /\ IsFiniteSet(Telling(p)') /\ Cardinality(Telling(p)') \in Nat
      /\ Cardinality(Telling(p)) \in Nat /\ Cardinality(Telling(p)') <= Cardinality(Telling(p))
  BY <1>6, <1>7, FewerAre
<1>9. ASSUME p = d.post PROVE Cardinality(Telling(p)') <= Cardinality(Telling(p)) - 1
  <2>1. r \in Telling(p) \ Telling(p)'
    BY <1>0, <1>1, <1>2, <1>4, <1>9 DEF Telling, Tells, TellOps, Quiet
  <2> QED BY <2>1, <1>6, <1>7, FewerAre
<1>10. channel'[p] = channel[p] \/ (p = d.post /\ channel'[p] = channel[p] + 1)
  BY <1>1, <1>5
<1>11. ASSUME p \notin doubled
       PROVE  /\ channel'[p] + Cardinality(Telling(p)') <= issued[p]
              /\ \A u \in Users : notice[p][u] + Cardinality(Pending(p, u)') <= issued[p]
  <2>1. /\ channel[p] + Cardinality(Telling(p)) <= issued[p]
        /\ \A u \in Users : notice[p][u] + Cardinality(Pending(p, u)) <= issued[p]
    BY <1>6, <1>11 DEF PostCounts
  <2>2. channel'[p] + Cardinality(Telling(p)') <= issued[p]
    BY <2>1, <1>5, <1>8, <1>9, <1>10
  <2>3. ASSUME NEW u \in Users PROVE notice[p][u] + Cardinality(Pending(p, u)') <= issued[p]
    <3>1. IsFiniteSet(Pending(p, u)) /\ Pending(p, u)' \subseteq Pending(p, u)
      BY <1>3, <1>6, PendingTell, FewerAre, NoMoreIsLess
    <3>2. /\ Cardinality(Pending(p, u)') \in Nat /\ Cardinality(Pending(p, u)) \in Nat
          /\ Cardinality(Pending(p, u)') <= Cardinality(Pending(p, u))
      BY <3>1, FewerAre
    <3> QED BY <3>2, <2>1, <1>5
  <2> QED BY <2>2, <2>3
<1> QED BY <1>8, <1>11, <1>1 DEF PostCounts

\* A step that neither publishes nor tells.
LEMMA QuietCounts ==
  ASSUME TypesInv, TypesInv', CountInv, NEW r \in Requests, NEW c, c.op \notin TellOps, Step(r, c),
         UNCHANGED <<notice, channel, issued, doubled>>
  PROVE  CountInv'
<1>1. \A q \in Requests : NoMore(req[q], req'[q])
  BY SilentIsQuiet, StepOfOne
<1>2. \A p \in Posts, u \in Users : notice'[p][u] <= notice[p][u]
  BY DEF TypesInv, PublishingTypeOK
<1> QED BY <1>1, <1>2, CountsShrink

LEMMA UncountCounts ==
  ASSUME TypesInv, TypesInv', CountInv, NEW r \in Requests, NEW w, NEW c, c.op \notin TellOps,
         req' = [q \in Requests |-> IF q = r THEN c ELSE Uncount(w, req[q])],
         UNCHANGED <<notice, channel, issued, doubled>>
  PROVE  CountInv'
<1>1. ASSUME NEW q \in Requests PROVE NoMore(req[q], req'[q])
  <2>1. CASE q = r
    BY <2>1, SilentIsQuiet
  <2>2. CASE q # r
    <3>1. PICK d \in Calls : d = req[q]
      BY DEF TypesInv, PublishingTypeOK
    <3>2. PICK e : e = Uncount(w, d)
      OBVIOUS
    <3>3. e = d \/ e = [d EXCEPT !.stale = TRUE]
      BY <3>2 DEF Uncount
    <3>4. e.op = d.op /\ e.post = d.post /\ e.cursor = d.cursor /\ e.page = d.page
      BY <3>3 DEF Calls
    <3>5. NoMore(d, e)
      BY <3>4 DEF NoMore, Tells, MayTell
    <3> QED BY <2>2, <3>1, <3>2, <3>5
  <2> QED BY <2>1, <2>2
<1>2. \A p \in Posts, u \in Users : notice'[p][u] <= notice[p][u]
  BY DEF TypesInv, PublishingTypeOK
<1> QED BY <1>1, <1>2, CountsShrink

LEMMA DisturbCounts ==
  ASSUME TypesInv, TypesInv', CountInv, NEW v \in Users, NEW row, Disturb(v, row),
         \A p \in Posts, u \in Users : notice'[p][u] <= notice[p][u]
  PROVE  CountInv'
<1>1. ASSUME NEW q \in Requests PROVE NoMore(req[q], req'[q])
  <2>1. PICK d \in Calls : d = req[q]
    BY DEF TypesInv, PublishingTypeOK
  <2>2. PICK b : b = (d.moved \/ (row.status # user[v].status /\ v = Cursor(q)))
    OBVIOUS
  <2>3. PICK e : e = [d EXCEPT !.steady = @ \ {v}, !.moved = b]
    OBVIOUS
  <2>4. req'[q] = e
    BY <2>1, <2>2, <2>3 DEF Disturb
  <2>5. e.op = d.op /\ e.post = d.post /\ e.cursor = d.cursor /\ e.page = d.page
    BY <2>3 DEF Calls
  <2>6. NoMore(d, e)
    BY <2>5 DEF NoMore, Tells, MayTell
  <2> QED BY <2>1, <2>4, <2>6
<1>2. UNCHANGED <<channel, issued, doubled>>
  BY DEF Disturb
<1> QED BY <1>1, <1>2, CountsShrink

LEMMA CountStep == ASSUME TypesInv, CountInv, [Next]_vars PROVE CountInv'
<1>0. TypesInv'
  BY TypesStep
<1>a. Idle.op \notin TellOps
  BY DEF Idle, TellOps
<1>1. ASSUME NEW r \in Requests, Handler(r) PROVE CountInv'
  <2>b. req[r] \in Calls /\ CallFits(req[r])
    BY DEF TypesInv, PublishingTypeOK
  <2>1. ASSUME NEW a \in Users, NEW w \in Weekends, NEW gs \in SUBSET Games, NEW now \in PostStates,
               CreateWeekend(r, a, w, gs, now)
        PROVE  CountInv'
    BY <2>1, <1>0, PublishCounts DEF CreateWeekend, Posts
  <2>2. ASSUME NEW a \in Users, NEW n \in News, NEW now \in PostStates, CreateNews(r, a, n, now)
        PROVE  CountInv'
    BY <2>2, <1>0, PublishCounts DEF CreateNews, Posts
  <2>3. ASSUME NEW a \in Users, NEW p \in Posts, NEW to \in {"same", "draft", "published"},
               UpdateCheck(r, a, p, to)
        PROVE  CountInv'
    <3>1. PICK c : c = [Idle EXCEPT !.op = "update", !.post = p, !.actor = a, !.was = post[p], !.to = to]
      OBVIOUS
    <3>2. c.op \notin TellOps
      BY <3>1 DEF TellOps, Idle
    <3> QED BY <2>3, <3>1, <3>2, <1>0, QuietCounts DEF UpdateCheck, Begin
  <2>4. CASE Update(r)
    <3>1. req[r].actor \in Users /\ req[r].post \in Posts
      BY <2>4, <2>b DEF Update, CallFits
    <3> QED BY <2>4, <3>1, <1>0, PublishCounts DEF Update
  <2>5. CASE ReadPreferences(r) \/ ReadPage(r)
    BY <2>5, <1>0, ReadCounts
  <2>6. CASE WriteNotices(r)
    BY <2>6, <1>0, WriteCounts
  <2>7. CASE Announce(r)
    BY <2>7, <1>0, AnnounceCounts
  <2>8. ASSUME NEW w \in Weekends, DeleteWeekendCheck(r, w) PROVE CountInv'
    <3>1. PICK c : c = [Idle EXCEPT !.op = IF GamesOf(w) = {} THEN "delete" ELSE "games", !.post = w]
      OBVIOUS
    <3>2. c.op \notin TellOps
      BY <3>1 DEF TellOps, Idle
    <3> QED BY <2>8, <3>1, <3>2, <1>0, QuietCounts DEF DeleteWeekendCheck, Begin
  <2>9. ASSUME NEW w \in Weekends, NEW g \in Games, CreateGameCheck(r, w, g) PROVE CountInv'
    <3>1. PICK c : c = [Idle EXCEPT !.op = "addGame", !.post = w, !.game = g]
      OBVIOUS
    <3>2. c.op \notin TellOps
      BY <3>1 DEF TellOps, Idle
    <3> QED BY <2>9, <3>1, <3>2, <1>0, QuietCounts DEF CreateGameCheck, Begin
  <2>10. ASSUME NEW g \in Games, DeleteGameCheck(r, g) PROVE CountInv'
    <3>1. PICK c : c = [Idle EXCEPT !.op = "dropGame", !.post = game[g], !.game = g]
      OBVIOUS
    <3>2. c.op \notin TellOps
      BY <3>1 DEF TellOps, Idle
    <3> QED BY <2>10, <3>1, <3>2, <1>0, QuietCounts DEF DeleteGameCheck, Begin
  <2>11. CASE DeleteWeekend(r)
    BY <2>11, <1>0, <1>a, QuietCounts DEF DeleteWeekend
  <2>12. CASE CreateGame(r)
    BY <2>12, <1>0, <1>a, QuietCounts DEF CreateGame
  <2>13. CASE DeleteGames(r)
    <3>1. PICK c : c = [req[r] EXCEPT !.op = "delete"]
      OBVIOUS
    <3>2. c.op \notin TellOps
      BY <3>1, <2>b DEF TellOps, Calls
    <3> QED BY <2>13, <3>1, <3>2, <1>0, UncountCounts DEF DeleteGames
  <2>14. CASE DeleteGame(r)
    BY <2>14, <1>0, <1>a, UncountCounts DEF DeleteGame
  <2>15. CASE BreakOff(r)
    BY <2>15, <1>0, <1>a, QuietCounts DEF BreakOff
  <2> QED BY <1>1, <2>1, <2>2, <2>3, <2>4, <2>5, <2>6, <2>7, <2>8, <2>9, <2>10, <2>11, <2>12,
            <2>13, <2>14, <2>15 DEF Handler, AnnounceWeekend, AnnounceNews
<1>2. ASSUME UNCHANGED <<req, notice, channel, issued, doubled>> PROVE CountInv'
  BY <1>2 DEF CountInv, PostCounts, Telling, Pending
<1>3. ASSUME NEW n \in News, DeleteNews(n) PROVE CountInv'
  BY <1>3, <1>2 DEF DeleteNews
<1>4. ASSUME NEW u \in Users, Account(u) PROVE CountInv'
  BY <1>0, <1>4, AccountDisturbs, DisturbCounts
<1>5. CASE UNCHANGED vars
  BY <1>5, <1>2 DEF vars
<1> QED BY <1>1, <1>3, <1>4, <1>5 DEF Next

LEMMA InitCounts == ASSUME Init PROVE CountInv
<1> SUFFICES ASSUME NEW p \in Posts PROVE IsFiniteSet(Telling(p)) /\ PostCounts(p)
  BY DEF CountInv
<1>1. Telling(p) = {} /\ \A u \in Users : Pending(p, u) = {}
  <2>1. \A r \in Requests : req[r] = Idle
    BY DEF Init
  <2> QED BY <2>1 DEF Telling, Pending, Tells, MayTell, TellOps, Idle
<1>2. IsFiniteSet({}) /\ Cardinality({}) = 0
  BY FS_EmptySet
<1>3. channel[p] = 0 /\ issued[p] = 0 /\ \A u \in Users : notice[p][u] = 0
  BY DEF Init
<1> QED BY <1>1, <1>2, <1>3 DEF PostCounts

-----------------------------------------------------------------------------
(* A weekend keeps a game.                                                  *)

\* In a step of r that leaves the games and posts alone, the other requests keep
\* what they know.
LEMMA GamesStill ==
  ASSUME TypesInv, GamesInv, NEW r \in Requests, NEW c, Step(r, c),
         UNCHANGED game,
         \A w \in Weekends : Live(w)' => Live(w) \/ GamesOf(w) # {},
         emptied \subseteq emptied',
         req[r].op = "delete" =>
           \A w \in Weekends \ emptied' : Live(w)' /\ w = req[r].post => GamesOf(w) # {},
         c.game # None => \A q \in Requests \ {r} : req[q].op = "addGame" => req[q].game # c.game,
         GameCallOK(r)'
  PROVE  GamesInv'
<1>1. req' = [req EXCEPT ![r] = c] /\ req \in [Requests -> Calls]
      /\ \A q \in Requests : req[q] \in Calls /\ CallFits(req[q])
  BY DEF Step, TypesInv, PublishingTypeOK
<1>2. ASSUME NEW w \in Weekends \ emptied', Live(w)'
      PROVE  (GamesOf(w) # {})' \/ \E q \in Requests : req'[q].op = "delete" /\ req'[q].post = w
  <2>1. GamesOf(w)' = GamesOf(w)
    BY DEF GamesOf
  <2>2. CASE GamesOf(w) # {}
    BY <2>1, <2>2
  <2>3. CASE GamesOf(w) = {}
    <3>1. PICK q \in Requests : req[q].op = "delete" /\ req[q].post = w
      BY <1>2, <2>3 DEF GamesInv, WeekendKeepsAGame
    <3>2. q # r
      BY <3>1, <1>2, <2>3
    <3> QED BY <1>1, <3>1, <3>2
  <2> QED BY <2>2, <2>3
<1>3. ASSUME NEW q \in Requests PROVE GameCallOK(q)'
  <2>1. CASE q = r
    BY <2>1
  <2>2. CASE q # r
    <3>1. req'[q] = req[q] /\ req'[r] = c /\ GameCallOK(q)
      BY <1>1, <2>2 DEF GamesInv
    <3>2. ASSUME req[q].op = "addGame" PROVE \A s \in Requests \ {q} : req'[s].game # req'[q].game
      <4>1. req[q].game # None /\ \A s \in Requests \ {q} : req[s].game # req[q].game
        BY <3>1, <3>2, <1>1 DEF GameCallOK, CallFits
      <4>2. c.game # req[q].game
        BY <4>1, <3>2, <2>2
      <4> QED BY <4>1, <4>2, <1>1, <2>2
    <3> QED BY <3>1, <3>2 DEF GameCallOK
  <2> QED BY <2>1, <2>2
<1> QED BY <1>2, <1>3 DEF GamesInv, WeekendKeepsAGame

\* The same for a request that has to do with no game.
LEMMA GamesAside ==
  ASSUME TypesInv, GamesInv, NEW r \in Requests, NEW c, Step(r, c),
         c.op \notin {"addGame", "dropGame"}, c.game = None, req[r].op # "delete",
         UNCHANGED <<game, emptied>>,
         \A w \in Weekends : Live(w)' => Live(w) \/ GamesOf(w) # {}
  PROVE  GamesInv'
<1>1. req'[r] = c
  BY DEF Step, TypesInv, PublishingTypeOK
<1>2. GameCallOK(r)'
  BY <1>1 DEF GameCallOK
<1> QED BY <1>2, GamesStill

LEMMA GamesOfReads ==
  ASSUME TypesInv, GamesInv, NEW r \in Requests
  PROVE  /\ \A a \in Users, p \in Posts, to \in {"same", "draft", "published"} :
              UpdateCheck(r, a, p, to) => GamesInv'
         /\ ReadPreferences(r) => GamesInv'
         /\ ReadPage(r) => GamesInv'
         /\ WriteNotices(r) => GamesInv'
         /\ Announce(r) => GamesInv'
         /\ \A w \in Weekends : DeleteWeekendCheck(r, w) => GamesInv'
<1>0. PICK d \in Calls : d = req[r] /\ CallFits(d)
  BY DEF TypesInv, PublishingTypeOK
<1>a. Idle.op = "idle" /\ Idle.game = None
  BY DEF Idle
<1>b. ASSUME UNCHANGED post PROVE \A w \in Weekends : Live(w)' => Live(w)
  BY <1>b DEF Live
<1>1. ASSUME NEW a \in Users, NEW p \in Posts, NEW to \in {"same", "draft", "published"},
             UpdateCheck(r, a, p, to)
      PROVE  GamesInv'
  <2>1. PICK c : c = [Idle EXCEPT !.op = "update", !.post = p, !.actor = a, !.was = post[p], !.to = to]
    OBVIOUS
  <2>2. c.op = "update" /\ c.game = None
    BY <2>1 DEF Idle
  <2>3. Step(r, c) /\ UNCHANGED <<post, game, emptied>> /\ req[r] = Idle
    BY <1>1, <2>1 DEF UpdateCheck, Begin
  <2> QED BY <2>2, <2>3, <1>a, <1>b, GamesAside
<1>2. ASSUME ReadPreferences(r) PROVE GamesInv'
  <2>1. PICK muted, steady : Step(r, [d EXCEPT !.op = "page", !.muted = muted, !.steady = steady])
    BY <1>2, <1>0 DEF ReadPreferences
  <2>2. PICK c : c = [d EXCEPT !.op = "page", !.muted = muted, !.steady = steady]
    OBVIOUS
  <2>3. UNCHANGED <<post, game, emptied>> /\ d.op = "prefs" /\ c.op = "page" /\ c.game = d.game
    BY <1>0, <1>2, <2>2 DEF ReadPreferences, Calls
  <2> QED BY <2>1, <2>2, <2>3, <1>0, <1>b, GamesAside DEF CallFits
<1>3. ASSUME ReadPage(r) PROVE GamesInv'
  <2>1. PICK page : page = PageOf(Skipped(r))
    OBVIOUS
  <2>2. PICK c : c = [d EXCEPT !.op = IF page = {} THEN "announce" ELSE "write", !.page = page]
    OBVIOUS
  <2>3. Step(r, c) /\ UNCHANGED <<post, game, emptied>> /\ d.op = "page"
    BY <1>3, <1>0, <2>1, <2>2 DEF ReadPage
  <2>4. c.op \in {"announce", "write"} /\ c.game = d.game
    BY <2>2 DEF Calls
  <2> QED BY <2>3, <2>4, <1>0, <1>b, GamesAside DEF CallFits
<1>4. ASSUME WriteNotices(r) PROVE GamesInv'
  <2>1. PICK c : c = [d EXCEPT !.op = IF Cardinality(d.page) < Batch THEN "announce" ELSE "page",
                      !.cursor = Max(d.page), !.page = {}, !.steady = @ \ (d.page \ d.muted)]
    OBVIOUS
  <2>2. (Step(r, Idle) \/ Step(r, c)) /\ UNCHANGED <<post, game, emptied>> /\ d.op = "write"
    BY <1>4, <1>0, <2>1 DEF WriteNotices
  <2>3. c.op \in {"announce", "page"} /\ c.game = d.game
    BY <2>1 DEF Calls
  <2> QED BY <2>2, <2>3, <1>0, <1>a, <1>b, GamesAside DEF CallFits
<1>5. ASSUME Announce(r) PROVE GamesInv'
  <2>1. Step(r, Idle) /\ UNCHANGED <<post, game, emptied>> /\ req[r].op = "announce"
    BY <1>5 DEF Announce
  <2> QED BY <2>1, <1>a, <1>b, GamesAside
<1>6. ASSUME NEW w \in Weekends, DeleteWeekendCheck(r, w) PROVE GamesInv'
  <2>1. PICK c : c = [Idle EXCEPT !.op = IF GamesOf(w) = {} THEN "delete" ELSE "games", !.post = w]
    OBVIOUS
  <2>2. c.op \in {"delete", "games"} /\ c.game = None
    BY <2>1 DEF Idle
  <2>3. Step(r, c) /\ UNCHANGED <<post, game, emptied>> /\ req[r] = Idle
    BY <1>6, <2>1 DEF DeleteWeekendCheck, Begin
  <2> QED BY <2>2, <2>3, <1>a, <1>b, GamesAside
<1> QED BY <1>1, <1>2, <1>3, <1>4, <1>5, <1>6

\* What a publication does to the posts and to the request.
LEMMA PublishWrites ==
  ASSUME NEW r \in Requests, NEW a, NEW p \in Posts, NEW was, NEW now, Publish(r, a, p, was, now)
  PROVE  /\ post' = [post EXCEPT ![p] = now]
         /\ \E c : Step(r, c) /\ c.op \in {"idle", "prefs"} /\ c.game = None
<1>1. PICK c : /\ Step(r, c)
               /\ (c = Idle \/ c = [Idle EXCEPT !.op = "prefs", !.post = p, !.actor = a])
  BY DEF Publish
<1>2. CASE c = Idle
  <2>1. c.op \in {"idle", "prefs"} /\ c.game = None
    BY <1>2 DEF Idle
  <2> QED BY <1>1, <2>1 DEF Publish
<1>3. CASE c = [Idle EXCEPT !.op = "prefs", !.post = p, !.actor = a]
  <2>1. c.op \in {"idle", "prefs"} /\ c.game = None
    BY <1>3 DEF Idle
  <2> QED BY <1>1, <2>1 DEF Publish
<1> QED BY <1>1, <1>2, <1>3

LEMMA GamesOfPublishing ==
  ASSUME TypesInv, GamesInv, NEW r \in Requests
  PROVE  /\ \A a \in Users, n \in News, now \in PostStates : CreateNews(r, a, n, now) => GamesInv'
         /\ Update(r) => GamesInv'
<1>0. post \in [Posts -> PostStates] /\ req[r] \in Calls /\ CallFits(req[r])
  BY DEF TypesInv, PublishingTypeOK
<1>a. Idle.op = "idle"
  BY DEF Idle
<1>1. ASSUME NEW a \in Users, NEW n \in News, NEW now \in PostStates, CreateNews(r, a, n, now)
      PROVE  GamesInv'
  <2>1. Publish(r, a, n, "none", now) /\ UNCHANGED <<game, emptied>> /\ req[r] = Idle /\ n \in Posts
    BY <1>1 DEF CreateNews, Posts
  <2>2. PICK c : Step(r, c) /\ c.op \in {"idle", "prefs"} /\ c.game = None
    BY <2>1, PublishWrites
  <2>3. post' = [post EXCEPT ![n] = now]
    BY <2>1, PublishWrites
  <2>4. \A w \in Weekends : Live(w)' => Live(w)
    BY <2>3, <1>0, PublishingAssumption DEF Live, Posts
  <2> QED BY <2>1, <2>2, <2>4, <1>a, GamesAside
<1>2. ASSUME Update(r) PROVE GamesInv'
  <2> DEFINE p == req[r].post
             now == IF req[r].to = "same" THEN post[p] ELSE req[r].to
  <2>1. Publish(r, req[r].actor, p, req[r].was, now) /\ UNCHANGED <<game, emptied>>
        /\ req[r].op = "update" /\ p \in Posts /\ Live(p)
    BY <1>2, <1>0 DEF Update, CallFits
  <2> HIDE DEF p, now
  <2>2. PICK c : Step(r, c) /\ c.op \in {"idle", "prefs"} /\ c.game = None
    BY <2>1, PublishWrites
  <2>3. post' = [post EXCEPT ![p] = now]
    BY <2>1, PublishWrites
  <2>4. \A w \in Weekends : Live(w)' => Live(w)
    BY <2>1, <2>3, <1>0 DEF Live, Posts
  <2> QED BY <2>1, <2>2, <2>4, GamesAside
<1> QED BY <1>1, <1>2

\* The games are those of others and those of a new weekend.
LEMMA GamesOfCreateWeekend ==
  ASSUME TypesInv, GamesInv, NEW r \in Requests, NEW a \in Users, NEW w \in Weekends,
         NEW gs \in SUBSET Games, NEW now \in PostStates, CreateWeekend(r, a, w, gs, now)
  PROVE  GamesInv'
<1>0. /\ post \in [Posts -> PostStates] /\ game \in [Games -> Weekends \union {None}]
      /\ req \in [Requests -> Calls] /\ \A q \in Requests : req[q] \in Calls /\ CallFits(req[q])
      /\ None \notin Weekends
  BY PublishingAssumption DEF TypesInv, PublishingTypeOK
<1>1. /\ Publish(r, a, w, "none", now) /\ emptied' = emptied /\ req[r] = Idle /\ w \in Posts
      /\ game' = [g \in Games |-> IF g \in gs THEN w ELSE game[g]]
      /\ gs # {} /\ \A g \in gs : game[g] = None /\ \A q \in Requests : req[q].game # g
  BY DEF CreateWeekend, Posts, Fresh
<1>2. PICK c : Step(r, c) /\ c.op \in {"idle", "prefs"} /\ c.game = None
  BY <1>1, PublishWrites
<1>3. post' = [post EXCEPT ![w] = now]
  BY <1>1, PublishWrites
<1>4. req'[r] = c /\ \A q \in Requests \ {r} : req'[q] = req[q]
  BY <1>0, <1>2 DEF Step
<1>5. ASSUME NEW v \in Weekends \ emptied', Live(v)'
      PROVE  (GamesOf(v) # {})' \/ \E q \in Requests : req'[q].op = "delete" /\ req'[q].post = v
  <2>1. CASE v = w
    <3>1. PICK g \in gs : TRUE
      BY <1>1
    <3> QED BY <3>1, <2>1, <1>1 DEF GamesOf
  <2>2. CASE v # w
    <3>1. Live(v)
      BY <1>0, <1>3, <1>5, <2>2 DEF Live, Posts
    <3>2. CASE GamesOf(v) # {}
      <4>1. PICK g \in Games : game[g] = v
        BY <3>2 DEF GamesOf
      <4>2. game'[g] = v
        BY <4>1, <1>0, <1>1
      <4> QED BY <4>2 DEF GamesOf
    <3>3. CASE GamesOf(v) = {}
      <4>1. PICK q \in Requests : req[q].op = "delete" /\ req[q].post = v
        BY <3>1, <3>3, <1>1, <1>5 DEF GamesInv, WeekendKeepsAGame
      <4>2. q # r
        BY <4>1, <1>1 DEF Idle
      <4> QED BY <4>1, <4>2, <1>4
    <3> QED BY <3>2, <3>3
  <2> QED BY <2>1, <2>2
<1>6. ASSUME NEW q \in Requests PROVE GameCallOK(q)'
  <2>1. CASE q = r
    BY <2>1, <1>2, <1>4 DEF GameCallOK
  <2>2. CASE q # r
    <3>1. req'[q] = req[q] /\ GameCallOK(q) /\ req[q].game \notin gs
      BY <1>1, <1>4, <2>2 DEF GamesInv
    <3>2. req[q].op \in {"addGame", "dropGame"} => req[q].game \in Games /\ req[q].post \in Weekends
                                                   /\ game'[req[q].game] = game[req[q].game]
      BY <3>1, <1>0, <1>1 DEF CallFits, Calls
    <3>3. ASSUME NEW g \in Games, game[g] = req[q].post, req[q].op = "dropGame"
          PROVE  game'[g] = req[q].post
      BY <3>2, <3>3, <1>0, <1>1
    <3>4. req[q].op = "addGame" => \A s \in Requests \ {q} : req'[s].game # req'[q].game
      <4>1. SUFFICES ASSUME req[q].op = "addGame", NEW s \in Requests \ {q}
                     PROVE  req'[s].game # req'[q].game
        OBVIOUS
      <4>2. req[q].game # None
        BY <4>1, <1>0 DEF CallFits
      <4> QED BY <4>1, <4>2, <3>1, <1>2, <1>4 DEF GameCallOK
    <3> QED BY <3>1, <3>2, <3>3, <3>4 DEF GameCallOK
  <2> QED BY <2>1, <2>2
<1> QED BY <1>5, <1>6 DEF GamesInv, WeekendKeepsAGame

\* A weekend goes when it has no game, so that nobody counts on one.
LEMMA GamesOfChecks ==
  ASSUME TypesInv, GamesInv, NEW r \in Requests
  PROVE  /\ \A w \in Weekends, g \in Games : CreateGameCheck(r, w, g) => GamesInv'
         /\ \A g \in Games : DeleteGameCheck(r, g) => GamesInv'
         /\ DeleteWeekend(r) => GamesInv'
<1>0. /\ post \in [Posts -> PostStates] /\ game \in [Games -> Weekends \union {None}]
      /\ req \in [Requests -> Calls] /\ \A q \in Requests : req[q] \in Calls /\ CallFits(req[q])
      /\ None \notin Weekends /\ None \notin Games
  BY PublishingAssumption DEF TypesInv, PublishingTypeOK
<1>a. Idle.op = "idle" /\ Idle.game = None
  BY DEF Idle
<1>b. ASSUME UNCHANGED post PROVE \A v \in Weekends : Live(v)' => Live(v)
  BY <1>b DEF Live
<1>1. ASSUME NEW w \in Weekends, NEW g \in Games, CreateGameCheck(r, w, g) PROVE GamesInv'
  <2>1. PICK c : c = [Idle EXCEPT !.op = "addGame", !.post = w, !.game = g]
    OBVIOUS
  <2>2. c.op = "addGame" /\ c.game = g
    BY <2>1 DEF Idle
  <2>3. /\ Step(r, c) /\ UNCHANGED <<post, game, emptied>> /\ req[r] = Idle
        /\ game[g] = None /\ \A q \in Requests : req[q].game # g
    BY <1>1, <2>1 DEF CreateGameCheck, Begin, Fresh
  <2>4. req'[r] = c /\ \A q \in Requests \ {r} : req'[q] = req[q]
    BY <1>0, <2>3 DEF Step
  <2>5. GameCallOK(r)'
    BY <2>2, <2>3, <2>4 DEF GameCallOK
  <2> QED BY <2>2, <2>3, <2>5, <1>a, <1>b, GamesStill
<1>2. ASSUME NEW g \in Games, DeleteGameCheck(r, g) PROVE GamesInv'
  <2>1. PICK w : w = game[g]
    OBVIOUS
  <2>2. PICK c : c = [Idle EXCEPT !.op = "dropGame", !.post = w, !.game = g]
    OBVIOUS
  <2>3. c.op = "dropGame" /\ c.game = g /\ c.post = w
    BY <2>2 DEF Idle
  <2>4. /\ Step(r, c) /\ UNCHANGED <<post, game, emptied>> /\ req[r] = Idle
        /\ w # None /\ Cardinality(GamesOf(w)) # 1
    BY <1>2, <2>1, <2>2 DEF DeleteGameCheck, NotTheLast, Begin
  <2>5. req'[r] = c
    BY <1>0, <2>4 DEF Step
  <2>6. g \in GamesOf(w) /\ GamesOf(w) # {g}
    BY <2>1, <2>4, FS_Singleton DEF GamesOf
  <2>7. \E x \in Games \ {g} : game[x] = w
    BY <2>6 DEF GamesOf
  <2>8. GameCallOK(r)'
    BY <2>1, <2>3, <2>4, <2>5, <2>7 DEF GameCallOK
  <2>9. \A q \in Requests \ {r} : req[q].op = "addGame" => req[q].game # c.game
    BY <2>1, <2>3, <2>4 DEF GamesInv, GameCallOK
  <2> QED BY <2>3, <2>4, <2>8, <2>9, <1>a, <1>b, GamesStill
<1>3. ASSUME DeleteWeekend(r) PROVE GamesInv'
  <2>1. PICK w : w = req[r].post
    OBVIOUS
  <2>2. /\ Step(r, Idle) /\ UNCHANGED <<game, emptied>>
        /\ post' = IF Live(w) /\ GamesOf(w) = {} THEN [post EXCEPT ![w] = "gone"] ELSE post
    BY <1>3, <2>1 DEF DeleteWeekend
  <2>3. \A v \in Weekends : Live(v)' => Live(v) /\ (v = w => GamesOf(w) # {})
    BY <2>2, <1>0 DEF Live, Posts
  <2>4. req'[r] = Idle
    BY <1>0, <2>2 DEF Step
  <2>5. GameCallOK(r)'
    BY <2>4, <1>a DEF GameCallOK
  <2> QED BY <2>1, <2>2, <2>3, <2>5, <1>a, GamesStill
<1> QED BY <1>1, <1>2, <1>3

LEMMA GamesOfCreateGame ==
  ASSUME TypesInv, GamesInv, NEW r \in Requests, CreateGame(r)
  PROVE  GamesInv'
<1>0. /\ post \in [Posts -> PostStates] /\ game \in [Games -> Weekends \union {None}]
      /\ req \in [Requests -> Calls] /\ \A q \in Requests : req[q] \in Calls /\ CallFits(req[q])
      /\ None \notin Weekends
  BY PublishingAssumption DEF TypesInv, PublishingTypeOK
<1>1. PICK w, g : w = req[r].post /\ g = req[r].game
  OBVIOUS
<1>2. /\ Step(r, Idle) /\ UNCHANGED post /\ req[r].op = "addGame"
      /\ game' = (IF Live(w) THEN [game EXCEPT ![g] = w] ELSE game)
      /\ emptied' = (IF Live(w) THEN emptied \ {w} ELSE emptied)
  BY <1>1 DEF CreateGame
<1>3. /\ w \in Weekends /\ g \in Games /\ game[g] = None
      /\ \A q \in Requests \ {r} : req[q].game # g
  BY <1>0, <1>1, <1>2, PublishingAssumption DEF GamesInv, GameCallOK, CallFits, Calls
<1>4. req'[r] = Idle /\ \A q \in Requests \ {r} : req'[q] = req[q]
  BY <1>0, <1>2 DEF Step
<1>a. Idle.op = "idle" /\ Idle.game = None
  BY DEF Idle
<1>5. \A x \in Games \ {g} : game'[x] = game[x]
  BY <1>0, <1>2
<1>6. \A x \in Games, v \in Weekends : game[x] = v => game'[x] = v
  BY <1>0, <1>3, <1>5
<1>7. ASSUME NEW v \in Weekends \ emptied', Live(v)'
      PROVE  (GamesOf(v) # {})' \/ \E q \in Requests : req'[q].op = "delete" /\ req'[q].post = v
  <2>1. Live(v)
    BY <1>2, <1>7 DEF Live
  <2>2. CASE GamesOf(v) # {}
    BY <2>2, <1>6 DEF GamesOf
  <2>3. CASE v = w
    <3>1. game'[g] = w
      BY <2>1, <2>3, <1>0, <1>2, <1>3
    <3> QED BY <3>1, <2>3, <1>3 DEF GamesOf
  <2>4. CASE GamesOf(v) = {} /\ v # w
    <3>1. v \notin emptied
      BY <2>4, <1>2, <1>7
    <3>2. PICK q \in Requests : req[q].op = "delete" /\ req[q].post = v
      BY <2>1, <2>4, <3>1, <1>7 DEF GamesInv, WeekendKeepsAGame
    <3>3. q # r
      BY <3>2, <1>2
    <3> QED BY <3>2, <3>3, <1>4
  <2> QED BY <2>2, <2>3, <2>4
<1>8. ASSUME NEW q \in Requests PROVE GameCallOK(q)'
  <2>1. CASE q = r
    BY <2>1, <1>4, <1>a DEF GameCallOK
  <2>2. CASE q # r
    <3>1. req'[q] = req[q] /\ GameCallOK(q) /\ req[q].game # g
      BY <1>3, <1>4, <2>2 DEF GamesInv
    <3>2. req[q].op \in {"addGame", "dropGame"} => /\ req[q].game \in Games /\ req[q].post \in Weekends
                                                   /\ req[q].game # None
                                                   /\ game'[req[q].game] = game[req[q].game]
      BY <3>1, <1>0, <1>5, PublishingAssumption DEF CallFits, Calls
    <3>3. ASSUME req[q].op = "addGame" PROVE \A s \in Requests \ {q} : req'[s].game # req'[q].game
      BY <3>1, <3>2, <3>3, <1>4, <1>a DEF GameCallOK
    <3>4. ASSUME req[q].op = "dropGame", ~req[q].stale
          PROVE  \E x \in Games \ {req[q].game} : game'[x] = req[q].post
      <4>1. PICK x \in Games \ {req[q].game} : game[x] = req[q].post
        BY <3>1, <3>4 DEF GameCallOK
      <4> QED BY <4>1, <3>2, <3>4, <1>6
    <3> QED BY <3>1, <3>2, <3>3, <3>4 DEF GameCallOK
  <2> QED BY <2>1, <2>2
<1> QED BY <1>7, <1>8 DEF GamesInv, WeekendKeepsAGame

\* Deletions of games: of all those of a weekend, which goes next, and of one, while
\* another stays.  Whoever had counted them is stale then.
LEMMA GamesOfDeletes ==
  ASSUME TypesInv, GamesInv, NEW r \in Requests, NEW c, c.game = None,
         c.op \notin {"addGame", "dropGame"}, NEW w \in Weekends, NEW gs \in SUBSET Games,
         \A g \in gs : game[g] = w,
         game' = [g \in Games |-> IF g \in gs THEN None ELSE game[g]],
         req' = [q \in Requests |-> IF q = r THEN c ELSE Uncount(w, req[q])],
         UNCHANGED post, emptied \subseteq emptied', req[r].op # "delete",
         \/ c.op = "delete" /\ c.post = w
         \/ w \in emptied'
         \/ \E g \in Games : game'[g] = w
         \/ gs = {}
  PROVE  GamesInv'
<1>0. /\ game \in [Games -> Weekends \union {None}] /\ None \notin Weekends
      /\ \A q \in Requests : req[q] \in Calls /\ CallFits(req[q])
  BY PublishingAssumption DEF TypesInv, PublishingTypeOK
<1>1. ASSUME NEW q \in Requests \ {r}
      PROVE  /\ req'[q].op = req[q].op /\ req'[q].post = req[q].post /\ req'[q].game = req[q].game
             /\ req'[q].stale = (req[q].stale \/ (req[q].op = "dropGame" /\ req[q].post = w))
  <2>1. PICK d \in Calls : d = req[q]
    BY <1>0
  <2>2. req'[q] = IF d.op = "dropGame" /\ d.post = w THEN [d EXCEPT !.stale = TRUE] ELSE d
    BY <2>1 DEF Uncount
  <2>3. CASE d.op = "dropGame" /\ d.post = w
    BY <2>1, <2>2, <2>3 DEF Calls
  <2>4. CASE ~(d.op = "dropGame" /\ d.post = w)
    BY <2>1, <2>2, <2>4 DEF Calls
  <2> QED BY <2>3, <2>4
<1>2. req'[r] = c
  OBVIOUS
<1>3. \A g \in Games, v \in Weekends \ {w} : game[g] = v <=> game'[g] = v
  BY <1>0
<1>4. ASSUME NEW v \in Weekends \ emptied', Live(v)'
      PROVE  (GamesOf(v) # {})' \/ \E q \in Requests : req'[q].op = "delete" /\ req'[q].post = v
  <2>1. Live(v)
    BY <1>4 DEF Live
  <2>2. CASE GamesOf(v) = {}
    <3>1. PICK q \in Requests : req[q].op = "delete" /\ req[q].post = v
      BY <2>1, <2>2, <1>4 DEF GamesInv, WeekendKeepsAGame
    <3>2. q # r
      BY <3>1
    <3> QED BY <3>1, <3>2, <1>1
  <2>3. CASE GamesOf(v) # {} /\ v # w
    BY <2>3, <1>3 DEF GamesOf
  <2>4. CASE GamesOf(v) # {} /\ v = w
    <3>1. CASE gs = {}
      <4>1. game' = game
        BY <3>1, <1>0
      <4> QED BY <4>1, <2>4 DEF GamesOf
    <3>2. CASE \E g \in Games : game'[g] = w
      BY <3>2, <2>4 DEF GamesOf
    <3>3. CASE c.op = "delete" /\ c.post = w
      BY <3>3, <2>4, <1>2
    <3> QED BY <3>1, <3>2, <3>3, <2>4, <1>4
  <2> QED BY <2>2, <2>3, <2>4
<1>5. ASSUME NEW q \in Requests PROVE GameCallOK(q)'
  <2>1. CASE q = r
    BY <2>1, <1>2 DEF GameCallOK
  <2>2. CASE q # r
    <3>1. GameCallOK(q) /\ CallFits(req[q]) /\ req[q] \in Calls
      BY <1>0 DEF GamesInv
    <3>2. ASSUME req[q].op = "addGame"
          PROVE  game'[req[q].game] = None /\ \A s \in Requests \ {q} : req'[s].game # req'[q].game
      <4>1. req[q].game \in Games /\ req[q].game # None
        BY <3>1, <3>2 DEF CallFits, Calls
      <4>2. game'[req[q].game] = None
        BY <4>1, <3>1, <3>2 DEF GameCallOK
      <4>3. ASSUME NEW s \in Requests \ {q} PROVE req'[s].game # req'[q].game
        <5>1. req[s].game # req[q].game
          BY <3>1, <3>2 DEF GameCallOK
        <5> QED BY <5>1, <4>1, <1>1, <1>2, <2>2
      <4> QED BY <4>2, <4>3
    <3>3. ASSUME req[q].op = "dropGame"
          PROVE  /\ game'[req[q].game] \in {req[q].post, None}
                 /\ ~req'[q].stale => \E x \in Games \ {req[q].game} : game'[x] = req[q].post
      <4>1. req[q].game \in Games /\ req[q].post \in Weekends
        BY <3>1, <3>3 DEF CallFits, Calls
      <4>2. game'[req[q].game] \in {req[q].post, None}
        BY <4>1, <3>1, <3>3 DEF GameCallOK
      <4>3. ASSUME ~req'[q].stale PROVE \E x \in Games \ {req[q].game} : game'[x] = req[q].post
        <5>1. ~req[q].stale /\ req[q].post # w
          BY <4>3, <3>3, <1>1, <2>2
        <5>2. PICK x \in Games \ {req[q].game} : game[x] = req[q].post
          BY <5>1, <3>1, <3>3 DEF GameCallOK
        <5> QED BY <5>1, <5>2, <4>1, <1>3
      <4> QED BY <4>2, <4>3
    <3> QED BY <3>2, <3>3, <1>1, <2>2 DEF GameCallOK
  <2> QED BY <2>1, <2>2
<1> QED BY <1>4, <1>5 DEF GamesInv, WeekendKeepsAGame

LEMMA GamesOfDeleteGames == ASSUME TypesInv, GamesInv, NEW r \in Requests, DeleteGames(r) PROVE GamesInv'
<1>0. req[r] \in Calls /\ CallFits(req[r]) /\ game \in [Games -> Weekends \union {None}]
  BY DEF TypesInv, PublishingTypeOK
<1>1. PICK w : w = req[r].post
  OBVIOUS
<1>2. PICK c : c = [req[r] EXCEPT !.op = "delete"]
  OBVIOUS
<1>3. /\ game' = [g \in Games |-> IF game[g] = w THEN None ELSE game[g]]
      /\ req' = [q \in Requests |-> IF q = r THEN c ELSE Uncount(w, req[q])]
      /\ UNCHANGED <<post, emptied>> /\ req[r].op = "games"
  BY <1>1, <1>2 DEF DeleteGames
<1>4. c.op = "delete" /\ c.post = w /\ c.game = None /\ w \in Weekends
  BY <1>0, <1>1, <1>2, <1>3 DEF Calls, CallFits
<1>5. PICK gs \in SUBSET Games : gs = GamesOf(w)
  BY DEF GamesOf
<1>6. game' = [g \in Games |-> IF g \in gs THEN None ELSE game[g]] /\ \A g \in gs : game[g] = w
  BY <1>3, <1>5 DEF GamesOf
<1> QED BY <1>3, <1>4, <1>6, GamesOfDeletes

LEMMA GamesOfDeleteGame == ASSUME TypesInv, GamesInv, NEW r \in Requests, DeleteGame(r) PROVE GamesInv'
<1>0. req[r] \in Calls /\ CallFits(req[r]) /\ game \in [Games -> Weekends \union {None}]
      /\ GameCallOK(r) /\ None \notin Weekends
  BY PublishingAssumption DEF TypesInv, PublishingTypeOK, GamesInv
<1>1. PICK w, g : w = req[r].post /\ g = req[r].game
  OBVIOUS
<1>2. /\ game' = [game EXCEPT ![g] = None]
      /\ req' = [q \in Requests |-> IF q = r THEN Idle ELSE Uncount(w, req[q])]
      /\ emptied' = (IF GamesOf(w) = {g} /\ req[r].stale THEN emptied \union {w} ELSE emptied)
      /\ UNCHANGED post /\ req[r].op = "dropGame"
  BY <1>1 DEF DeleteGame
<1>3. w \in Weekends /\ g \in Games /\ game[g] \in {w, None}
  BY <1>0, <1>1, <1>2 DEF Calls, CallFits, GameCallOK
<1>a. PICK c : c = Idle
  OBVIOUS
<1>4. c.op = "idle" /\ c.game = None
  BY <1>a DEF Idle
<1>5. PICK gs \in SUBSET Games : gs = IF game[g] = w THEN {g} ELSE {}
  BY <1>3
<1>6. game' = [x \in Games |-> IF x \in gs THEN None ELSE game[x]] /\ \A x \in gs : game[x] = w
  BY <1>0, <1>2, <1>3, <1>5
<1>7. w \in emptied' \/ (\E x \in Games : game'[x] = w) \/ gs = {}
  <2>1. CASE game[g] = None
    BY <2>1, <1>0, <1>3, <1>5
  <2>2. CASE game[g] # None /\ req[r].stale
    <3>1. CASE GamesOf(w) = {g}
      BY <2>2, <3>1, <1>2
    <3>2. CASE GamesOf(w) # {g}
      <4>1. g \in GamesOf(w)
        BY <2>2, <1>3 DEF GamesOf
      <4>2. PICK x \in Games \ {g} : game[x] = w
        BY <3>2, <4>1 DEF GamesOf
      <4>3. game'[x] = w
        BY <4>2, <1>0, <1>2
      <4> QED BY <4>3
    <3> QED BY <3>1, <3>2
  <2>3. CASE game[g] # None /\ ~req[r].stale
    <3>1. PICK x \in Games \ {g} : game[x] = w
      BY <2>3, <1>0, <1>1, <1>2 DEF GameCallOK
    <3>2. game'[x] = w
      BY <3>1, <1>0, <1>2
    <3> QED BY <3>2
  <2> QED BY <2>1, <2>2, <2>3
<1>8. /\ emptied \subseteq emptied' /\ req[r].op # "delete" /\ UNCHANGED post
      /\ req' = [q \in Requests |-> IF q = r THEN c ELSE Uncount(w, req[q])]
  BY <1>2, <1>a
<1>9. c.op \notin {"addGame", "dropGame"}
  BY <1>4
<1> QED BY <1>3, <1>4, <1>6, <1>7, <1>8, <1>9, GamesOfDeletes

\* Only a deletion that breaks off leaves a weekend behind that nobody is about to
\* delete, and marks it.
LEMMA GamesOfBreakOff == ASSUME TypesInv, GamesInv, NEW r \in Requests, BreakOff(r) PROVE GamesInv'
<1>0. Idle.op = "idle" /\ Idle.game = None
  BY DEF Idle
<1>1. PICK w : w = req[r].post
  OBVIOUS
<1>2. /\ Step(r, Idle) /\ UNCHANGED <<post, game>>
      /\ emptied' = (IF req[r].op = "delete" /\ Live(w) /\ GamesOf(w) = {}
                      THEN emptied \union {w} ELSE emptied)
  BY <1>1 DEF BreakOff
<1>3. \A v \in Weekends : Live(v)' => Live(v)
  BY <1>2 DEF Live
<1>4. req[r].op = "delete" =>
        \A v \in Weekends \ emptied' : Live(v)' /\ v = req[r].post => GamesOf(v) # {}
  BY <1>1, <1>2, <1>3
<1>5. req'[r] = Idle
  BY <1>2 DEF Step, TypesInv, PublishingTypeOK
<1>6. GameCallOK(r)'
  BY <1>5, <1>0 DEF GameCallOK
<1>7. emptied \subseteq emptied'
  BY <1>2
<1> QED BY <1>0, <1>2, <1>3, <1>4, <1>6, <1>7, GamesStill

\* A user or a piece of news changes nothing of games.
LEMMA GamesElsewhere ==
  ASSUME TypesInv, GamesInv, UNCHANGED <<game, emptied>>,
         \A w \in Weekends : Live(w)' => Live(w),
         \A q \in Requests : /\ req'[q].op = req[q].op /\ req'[q].post = req[q].post
                             /\ req'[q].game = req[q].game /\ req'[q].stale = req[q].stale
  PROVE  GamesInv'
<1>1. WeekendKeepsAGame'
  BY DEF GamesInv, WeekendKeepsAGame, GamesOf
<1>2. ASSUME NEW q \in Requests PROVE GameCallOK(q)'
  BY DEF GamesInv, GameCallOK
<1> QED BY <1>1, <1>2 DEF GamesInv

LEMMA GamesStep == ASSUME TypesInv, GamesInv, [Next]_vars PROVE GamesInv'
<1>1. ASSUME NEW r \in Requests, Handler(r) PROVE GamesInv'
  BY <1>1, GamesOfReads, GamesOfPublishing, GamesOfCreateWeekend, GamesOfChecks, GamesOfCreateGame,
     GamesOfDeleteGames, GamesOfDeleteGame, GamesOfBreakOff DEF Handler, AnnounceWeekend, AnnounceNews
<1>2. ASSUME NEW n \in News, DeleteNews(n) PROVE GamesInv'
  <2>1. post' = [post EXCEPT ![n] = "gone"] /\ UNCHANGED <<game, emptied, req>>
    BY <1>2 DEF DeleteNews
  <2>2. \A w \in Weekends : Live(w)' => Live(w)
    BY <2>1, PublishingAssumption DEF Live, Posts, TypesInv, PublishingTypeOK
  <2> QED BY <2>1, <2>2, GamesElsewhere
<1>3. ASSUME NEW u \in Users, Account(u) PROVE GamesInv'
  <2>1. PICK row \in UserRows : Disturb(u, row)
    BY <1>3, AccountDisturbs
  <2>2. UNCHANGED <<post, game, emptied>>
    BY <2>1 DEF Disturb
  <2>3. ASSUME NEW q \in Requests
        PROVE  /\ req'[q].op = req[q].op /\ req'[q].post = req[q].post
               /\ req'[q].game = req[q].game /\ req'[q].stale = req[q].stale
    <3>1. PICK d \in Calls : d = req[q]
      BY DEF TypesInv, PublishingTypeOK
    <3>2. PICK b : b = (d.moved \/ (row.status # user[u].status /\ u = Cursor(q)))
      OBVIOUS
    <3>3. req'[q] = [d EXCEPT !.steady = @ \ {u}, !.moved = b]
      BY <2>1, <3>1, <3>2 DEF Disturb
    <3> QED BY <3>1, <3>3 DEF Calls
  <2>4. \A w \in Weekends : Live(w)' => Live(w)
    BY <2>2 DEF Live
  <2> QED BY <2>2, <2>3, <2>4, GamesElsewhere
<1>4. CASE UNCHANGED vars
  <2>1. \A w \in Weekends : Live(w)' => Live(w)
    BY <1>4 DEF vars, Live
  <2> QED BY <1>4, <2>1, GamesElsewhere DEF vars
<1> QED BY <1>1, <1>2, <1>3, <1>4 DEF Next

LEMMA InitGames == ASSUME Init PROVE GamesInv
  BY DEF Init, GamesInv, WeekendKeepsAGame, GameCallOK, Live, Idle, Posts

-----------------------------------------------------------------------------
(* Theorems.                                                                *)

LEMMA PublishingHolds == Spec => []PublishingInv
<1>1. Init => PublishingInv
  BY InitTypes, InitWalk, InitCounts, InitGames DEF PublishingInv
<1>2. PublishingInv /\ [Next]_vars => PublishingInv'
  BY TypesStep, WalkStep, CountStep, GamesStep DEF PublishingInv
<1> QED BY <1>1, <1>2, PTL DEF Spec

\* Whatever creations, updates, deletions and deliveries overlap, every row and every
\* handler's knowledge is of its type, and a game belongs to a weekend that exists
\* (weekends.service.ts, the foreign key of Game): no deletion leaves games behind.
THEOREM PublishingTypes == Spec => []PublishingTypeOK
<1>1. PublishingInv => PublishingTypeOK
  BY DEF PublishingInv, TypesInv
<1> QED BY <1>1, PublishingHolds, PTL

\* By the time a publication is announced in the channels, whoever was active and
\* willing all along has been told, unless the user at whom a page ended changed
\* status; and nobody is told more often than the post was published, unless two
\* handlers published at a time (notifications.service.ts, notifyAllActiveUsers).
THEOREM EverybodyIsTold == Spec => []PublicationIsTold
<1>1. PublishingInv => PublicationIsTold
  <2> SUFFICES ASSUME PublishingInv PROVE PublicationIsTold
    OBVIOUS
  <2>1. ASSUME NEW r \in Requests, req[r].op = "announce" PROVE req[r].steady = {} \/ req[r].moved
    BY <2>1 DEF PublishingInv, WalkInv, WalkOK
  <2>2. ASSUME NEW p \in Posts \ doubled
        PROVE  channel[p] <= issued[p] /\ \A u \in Users : notice[p][u] <= issued[p]
    <3>1. /\ channel[p] \in Nat /\ issued[p] \in Nat
          /\ \A u \in Users : notice[p][u] \in Nat
      BY DEF PublishingInv, TypesInv, PublishingTypeOK
    <3>2. IsFiniteSet(Telling(p)) /\ PostCounts(p)
      BY DEF PublishingInv, CountInv
    <3>3. Cardinality(Telling(p)) \in Nat
      BY <3>2, FS_CardinalityType
    <3>4. \A u \in Users : Cardinality(Pending(p, u)) \in Nat
      BY <3>2, PendingTell, FewerAre
    <3> QED BY <2>2, <3>1, <3>2, <3>3, <3>4 DEF PostCounts
  <2> QED BY <2>1, <2>2 DEF PublicationIsTold
<1> QED BY <1>1, PublishingHolds, PTL

\* A weekend keeps a game whatever creations and deletions overlap and whichever
\* handler breaks off, unless two deletions of its games overlapped, the weekend is
\* about to go, or its own deletion broke off between its two statements; and then
\* only until the next game (weekends.service.ts, deleteGame, createGame and delete).
THEOREM WeekendsKeepGames == Spec => []WeekendKeepsAGame
<1>1. PublishingInv => WeekendKeepsAGame
  BY DEF PublishingInv, GamesInv
<1> QED BY <1>1, PublishingHolds, PTL
=============================================================================
