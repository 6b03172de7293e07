-------------------------- MODULE ModerationProofs --------------------------
(***************************************************************************)
(* Proofs about Moderation: types, records that explain the status of a    *)
(* user, permanent bans that stand, and new bans that the job spares.      *)
(***************************************************************************)
EXTENDS Moderation, TLAPS

\* What a request that is under way carries, and what it knows of its user: a ban
\* read a user who was not banned, and a warning that bans one who was not banned
\* for good.  Who becomes so in between marks the request as overtaken.
CallFits(c) ==
  /\ c.op # "idle" => c.user \in Users
  /\ c.op = "ban" => c.until # None
  /\ c.op \in {"warned", "unwarn"} => c.warning \in WarningIds
  /\ c.op = "warned" => warnings[c.warning] # NoWarning /\ warnings[c.warning].user = c.user
  /\ (c.op = "ban" \/ (c.op = "warned" /\ c.until # None)) /\ Permanent(c.user) => c.overtaken

UsersOK ==
  /\ user \in [Users -> Rows] /\ record \in [Users -> Records]
  /\ \A u \in Users : ~Present(u) => user[u] = Gone /\ record[u] = NoRecord
WarningsOK ==
  /\ warnings \in [WarningIds -> WarningRows \union {NoWarning}]
  /\ \A w \in WarningIds : warnings[w] # NoWarning => Present(warnings[w].user)
CallsOK == req \in [Requests -> Calls] /\ \A r \in Requests : CallFits(req[r])
JobOK == sweep \in Sweeps /\ now \in Moments /\ faults \in 0..MaxFaults /\ sweep.at <= now

ModerationInv == UsersOK /\ WarningsOK /\ CallsOK /\ JobOK /\ RecordExplainsStatus

-----------------------------------------------------------------------------
LEMMA InvInit == ASSUME Init PROVE ModerationInv
<1> USE ModerationAssumption DEF Init, Present, Banned, Permanent
<1>1. UsersOK
  BY DEF UsersOK, Rows, Records, NoRecord
<1>2. WarningsOK
  BY DEF WarningsOK
<1>3. CallsOK
  BY DEF CallsOK, CallFits, Calls, Ops, Idle
<1>4. JobOK
  BY DEF JobOK, Sweeps, Asleep, Moments
<1>5. RecordExplainsStatus
  BY DEF RecordExplainsStatus, NoRecord
<1> QED BY <1>1, <1>2, <1>3, <1>4, <1>5 DEF ModerationInv

LEMMA InvTypes == ASSUME ModerationInv PROVE ModerationTypeOK
  BY DEF ModerationInv, UsersOK, WarningsOK, CallsOK, JobOK, ModerationTypeOK

\* The end of an automatic ban.
LEMMA AutobanType ==
  ASSUME ModerationInv, NEW u \in Users PROVE AutobanUntil(u) \in Untils \union {None}
<1> USE ModerationAssumption
<1> DEFINE S == {now + Span} \union ({user[u].bannedUntil} \ {None})
<1>1. user[u].bannedUntil \in Untils \union {None} /\ now \in Moments
  BY DEF ModerationInv, UsersOK, JobOK, Rows
<1>2. S \subseteq Untils /\ S # {}
  BY <1>1 DEF Untils, Moments
<1>3. \E x \in S : \A y \in S : x >= y
  <2>1. CASE user[u].bannedUntil = None
    BY <2>1, <1>2 DEF Untils
  <2>2. CASE user[u].bannedUntil # None /\ user[u].bannedUntil >= now + Span
    BY <2>2, <1>2 DEF Untils
  <2>3. CASE user[u].bannedUntil # None /\ ~(user[u].bannedUntil >= now + Span)
    BY <2>3, <1>1, <1>2 DEF Untils, Moments
  <2> QED BY <2>1, <2>2, <2>3
<1>4. Max(S) \in S
  BY <1>3 DEF Max
<1>5. AutobanEnd(u) = Max(S)
  BY DEF AutobanEnd
<1> QED BY <1>2, <1>4, <1>5 DEF AutobanUntil

-----------------------------------------------------------------------------
\* A request begins.
LEMMA StartKeeps ==
  ASSUME ModerationInv, NEW r \in Requests, NEW c \in Calls, CallFits(c), Start(r, c)
  PROVE  ModerationInv'
<1> USE DEF ModerationInv, Start, Present, Banned, Permanent
<1>1. UsersOK' /\ WarningsOK' /\ JobOK' /\ RecordExplainsStatus'
  BY DEF UsersOK, WarningsOK, JobOK, RecordExplainsStatus
<1>2. req' \in [Requests -> Calls]
  BY DEF CallsOK
<1>3. ASSUME NEW q \in Requests PROVE CallFits(req[q])'
  <2>1. CallFits(req'[q])
    BY DEF CallsOK
  <2> QED BY <2>1 DEF CallFits
<1> QED BY <1>1, <1>2, <1>3 DEF CallsOK

LEMMA BanCheckKeeps ==
  ASSUME ModerationInv, NEW r \in Requests, NEW a \in Users, NEW u \in Users,
         NEW until \in Untils, NEW mute \in BOOLEAN, BanCheck(r, a, u, until, mute)
  PROVE  ModerationInv'
<1> DEFINE c == [Idle EXCEPT !.op = "ban", !.actor = a, !.user = u, !.until = until, !.mute = mute]
<1>1. c \in Calls
  BY DEF Calls, Ops, Idle
<1>2. CallFits(c)
  BY ModerationAssumption DEF CallFits, BanCheck, Permanent, Untils, Idle
<1> QED BY <1>1, <1>2, StartKeeps DEF BanCheck

LEMMA PermanentBanCheckKeeps ==
  ASSUME ModerationInv, NEW r \in Requests, NEW a \in Users, NEW u \in Users,
         PermanentBanCheck(r, a, u)
  PROVE  ModerationInv'
<1> DEFINE c == [Idle EXCEPT !.op = "permanentBan", !.actor = a, !.user = u]
<1>1. c \in Calls /\ CallFits(c)
  BY DEF Calls, Ops, Idle, CallFits
<1> QED BY <1>1, StartKeeps DEF PermanentBanCheck

LEMMA UnbanCheckKeeps ==
  ASSUME ModerationInv, NEW r \in Requests, NEW a \in Users, NEW u \in Users, UnbanCheck(r, a, u)
  PROVE  ModerationInv'
<1> DEFINE c == [Idle EXCEPT !.op = "unban", !.actor = a, !.user = u]
<1>1. c \in Calls /\ CallFits(c)
  BY DEF Calls, Ops, Idle, CallFits
<1> QED BY <1>1, StartKeeps DEF UnbanCheck

LEMMA WarnCheckKeeps ==
  ASSUME ModerationInv, NEW r \in Requests, NEW a \in Users, NEW u \in Users, WarnCheck(r, a, u)
  PROVE  ModerationInv'
<1> DEFINE c == [Idle EXCEPT !.op = "warn", !.actor = a, !.user = u]
<1>1. c \in Calls /\ CallFits(c)
  BY DEF Calls, Ops, Idle, CallFits
<1> QED BY <1>1, StartKeeps DEF WarnCheck

LEMMA RoleCheckKeeps ==
  ASSUME ModerationInv, NEW r \in Requests, NEW a \in Users, NEW u \in Users,
         NEW next \in NewRoles, RoleCheck(r, a, u, next)
  PROVE  ModerationInv'
<1> DEFINE c == [Idle EXCEPT !.op = "role", !.actor = a, !.user = u, !.roles = next]
<1>1. c \in Calls /\ CallFits(c)
  BY ModerationAssumption DEF Calls, Ops, Idle, CallFits
<1> QED BY <1>1, StartKeeps DEF RoleCheck

LEMMA DeleteCheckKeeps ==
  ASSUME ModerationInv, NEW r \in Requests, NEW a \in Users, NEW u \in Users, DeleteCheck(r, a, u)
  PROVE  ModerationInv'
<1> DEFINE c == [Idle EXCEPT !.op = "delete", !.actor = a, !.user = u]
<1>1. c \in Calls /\ CallFits(c)
  BY DEF Calls, Ops, Idle, CallFits
<1> QED BY <1>1, StartKeeps DEF DeleteCheck

LEMMA RemoveWarningCheckKeeps ==
  ASSUME ModerationInv, NEW r \in Requests, NEW a \in Users, NEW w \in WarningIds,
         RemoveWarningCheck(r, a, w)
  PROVE  ModerationInv'
<1> DEFINE c == [Idle EXCEPT !.op = "unwarn", !.actor = a, !.user = warnings[w].user, !.warning = w]
<1>1. warnings[w].user \in Users
  BY DEF RemoveWarningCheck, ModerationInv, WarningsOK, WarningRows, NoWarning
<1>2. c \in Calls /\ CallFits(c)
  BY <1>1 DEF Calls, Ops, Idle, CallFits
<1> QED BY <1>2, StartKeeps DEF RemoveWarningCheck

-----------------------------------------------------------------------------
\* The other requests when one is done: the same, and overtaken if on its user.
SameCall(c, d) == c.op = d.op /\ c.user = d.user /\ c.until = d.until /\ c.warning = d.warning
LEMMA DoneCalls ==
  ASSUME CallsOK, NEW r \in Requests, Done(r)
  PROVE  /\ req' \in [Requests -> Calls]
         /\ \A q \in Requests :
              \/ req'[q] = Idle
              \/ /\ q # r /\ req[q] # Idle /\ SameCall(req[q], req'[q])
                 /\ req[q].overtaken \/ req[q].user = req[r].user => req'[q].overtaken
<1>1. Idle \in Calls
  BY DEF Idle, Calls, Ops
<1>2. req \in [Requests -> Calls]
  BY DEF CallsOK
<1>3. ASSUME NEW q \in Requests PROVE [req[q] EXCEPT !.overtaken = TRUE] \in Calls
  BY <1>2 DEF Calls
<1>4. req' \in [Requests -> Calls]
  BY <1>1, <1>2, <1>3 DEF Done
<1>5. ASSUME NEW q \in Requests, req'[q] # Idle
      PROVE  /\ q # r /\ req[q] # Idle /\ SameCall(req[q], req'[q])
             /\ req[q].overtaken \/ req[q].user = req[r].user => req'[q].overtaken
  <2>1. q # r
    BY <1>5 DEF Done
  <2>2. CASE req[q] # Idle /\ req[q].user = req[r].user
    <3>1. req'[q] = [req[q] EXCEPT !.overtaken = TRUE]
      BY <2>1, <2>2 DEF Done
    <3>2. DOMAIN req[q] = {"op", "actor", "user", "until", "mute", "warning", "roles", "overtaken"}
      BY <1>2 DEF Calls
    <3> QED BY <3>1, <3>2, <2>1, <2>2 DEF SameCall
  <2>3. CASE ~(req[q] # Idle /\ req[q].user = req[r].user)
    <3>1. req'[q] = req[q]
      BY <2>1, <2>3 DEF Done
    <3> QED BY <3>1, <1>5, <2>1, <2>3 DEF SameCall
  <2> QED BY <2>2, <2>3
<1> QED BY <1>4, <1>5

\* So they still fit, if nobody else becomes banned for good and the warnings that
\* they are about to commit stay.
LEMMA DoneKeepsCalls ==
  ASSUME ModerationInv, NEW r \in Requests, Done(r),
         \A v \in Users : v # req[r].user /\ Permanent(v)' => Permanent(v),
         \A q \in Requests : q # r /\ req[q].op = "warned" =>
           /\ warnings'[req[q].warning] # NoWarning
           /\ warnings'[req[q].warning].user = req[q].user
  PROVE  CallsOK'
<1>1. CallsOK
  BY DEF ModerationInv
<1>2. req' \in [Requests -> Calls]
  BY <1>1, DoneCalls
<1>3. ASSUME NEW q \in Requests PROVE CallFits(req[q])'
  <2>1. CASE req'[q] = Idle
    BY <2>1 DEF CallFits, Idle
  <2>2. CASE req'[q] # Idle
    <3>1. /\ q # r /\ req[q] # Idle /\ SameCall(req[q], req'[q])
          /\ req[q].overtaken \/ req[q].user = req[r].user => req'[q].overtaken
      BY <1>1, <2>2, DoneCalls
    <3>2. CallFits(req[q])
      BY <1>1 DEF CallsOK
    <3>3. ASSUME NEW v \in Users, v = req[q].user, Permanent(v)',
                 req[q].op = "ban" \/ (req[q].op = "warned" /\ req[q].until # None)
          PROVE  req'[q].overtaken
      <4>1. CASE v = req[r].user
        BY <4>1, <3>1, <3>3
      <4>2. CASE v # req[r].user
        <5>1. Permanent(v)
          BY <4>2, <3>3
        <5> QED BY <5>1, <3>1, <3>2, <3>3 DEF CallFits
      <4> QED BY <4>1, <4>2
    <3> QED BY <3>1, <3>2, <3>3 DEF CallFits, SameCall, Permanent, Banned
  <2> QED BY <2>1, <2>2
<1> QED BY <1>2, <1>3 DEF CallsOK

\* The row of a user and its record are written together.
LEMMA PunishKeeps ==
  ASSUME ModerationInv, NEW u \in Users, Present(u),
         NEW status \in {"ACTIVE", "BANNED"}, NEW until \in Untils \union {None},
         NEW mute \in BOOLEAN, NEW type \in {"TEMP_BAN", "PERMANENT_BAN", "UNBAN"},
         NEW muted, muted = mute,
         status = "BANNED" <=> type \in {"TEMP_BAN", "PERMANENT_BAN"},
         type = "PERMANENT_BAN" <=> (status = "BANNED" /\ until = None),
         Punish(u, status, until, mute, type, muted)
  PROVE  /\ UsersOK' /\ RecordExplainsStatus'
         /\ \A v \in Users : (Present(v) => Present(v)') /\ (v # u => user'[v] = user[v])
         /\ user'[u].status = status /\ user'[u].bannedUntil = until
<1> USE DEF ModerationInv, Present
<1>1. user \in [Users -> Rows] /\ record \in [Users -> Records]
  BY DEF UsersOK
<1>2. /\ user' \in [Users -> Rows]
      /\ user'[u].status = status /\ user'[u].bannedUntil = until /\ user'[u].isMuted = mute
      /\ \A v \in Users : v # u => user'[v] = user[v]
  BY <1>1 DEF Punish, Rows
<1>3. /\ record' \in [Users -> Records]
      /\ record'[u].latest = type /\ record'[u].until = until /\ record'[u].muted = muted
      /\ \A v \in Users : v # u => record'[v] = record[v]
  BY <1>1 DEF Punish, Records
<1>4. UsersOK'
  BY <1>2, <1>3 DEF UsersOK, Gone
<1>5. ASSUME NEW v \in Users, Present(v)'
      PROVE  /\ Banned(v)' <=> record'[v].latest \in {"TEMP_BAN", "PERMANENT_BAN"}
             /\ user'[v].bannedUntil = record'[v].until
             /\ Permanent(v)' <=> record'[v].latest = "PERMANENT_BAN"
             /\ user'[v].isMuted = record'[v].muted
  <2>1. CASE v = u
    BY <2>1, <1>2, <1>3 DEF Banned, Permanent
  <2>2. CASE v # u
    BY <2>2, <1>2, <1>3, <1>5 DEF Banned, Permanent, RecordExplainsStatus
  <2> QED BY <2>1, <2>2
<1>6. RecordExplainsStatus'
  BY <1>5 DEF RecordExplainsStatus
<1> QED BY <1>2, <1>4, <1>6

\* Warnings stay, though their state may change.
WarningsStay ==
  /\ warnings' \in [WarningIds -> WarningRows \union {NoWarning}]
  /\ \A w \in WarningIds :
       /\ warnings'[w] # NoWarning <=> warnings[w] # NoWarning
       /\ warnings[w] # NoWarning => warnings'[w].user = warnings[w].user

LEMMA SetWarningState ==
  ASSUME ModerationInv, NEW w \in WarningIds, warnings[w] # NoWarning,
         NEW s \in {"live", "removed"}, warnings' = [warnings EXCEPT ![w].state = s]
  PROVE  WarningsStay
<1>1. warnings[w] \in WarningRows
  BY DEF ModerationInv, WarningsOK
<1>2. [warnings[w] EXCEPT !.state = s] \in WarningRows
  BY <1>1 DEF WarningRows
<1>3. warnings'[w] # NoWarning /\ warnings'[w].user = warnings[w].user
  <2>1. warnings'[w] = [warnings[w] EXCEPT !.state = s]
    BY DEF ModerationInv, WarningsOK
  <2>2. warnings'[w].state = s
    BY <2>1, <1>1 DEF WarningRows
  <2> QED BY <2>1, <2>2, <1>1 DEF WarningRows, NoWarning
<1> QED BY <1>1, <1>2, <1>3 DEF WarningsStay, ModerationInv, WarningsOK

\* A request that writes no user.
LEMMA OtherWriteKeeps ==
  ASSUME ModerationInv, NEW r \in Requests, Done(r), WarningsStay,
         UNCHANGED <<user, record, sweep, now, faults>>
  PROVE  ModerationInv'
<1> USE DEF ModerationInv, Present, Banned, Permanent
<1>1. UsersOK' /\ JobOK' /\ RecordExplainsStatus'
  BY DEF UsersOK, JobOK, RecordExplainsStatus
<1>2. WarningsOK'
  BY DEF WarningsOK, WarningsStay
<1>3. CallsOK'
  BY DoneKeepsCalls DEF CallsOK, CallFits, WarningsStay
<1> QED BY <1>1, <1>2, <1>3

\* A request that writes its user.
LEMMA PunishDoneKeeps ==
  ASSUME ModerationInv, NEW r \in Requests, Done(r),
         NEW u \in Users, u = req[r].user, Present(u),
         NEW status \in {"ACTIVE", "BANNED"}, NEW until \in Untils \union {None},
         NEW mute \in BOOLEAN, NEW type \in {"TEMP_BAN", "PERMANENT_BAN", "UNBAN"},
         NEW muted, muted = mute,
         status = "BANNED" <=> type \in {"TEMP_BAN", "PERMANENT_BAN"},
         type = "PERMANENT_BAN" <=> (status = "BANNED" /\ until = None),
         Punish(u, status, until, mute, type, muted),
         WarningsStay, UNCHANGED <<sweep, now, faults>>
  PROVE  ModerationInv'
<1>1. /\ UsersOK' /\ RecordExplainsStatus'
      /\ \A v \in Users : (Present(v) => Present(v)') /\ (v # u => user'[v] = user[v])
  BY PunishKeeps
<1>2. JobOK'
  BY DEF ModerationInv, JobOK
<1>3. WarningsOK'
  <2>1. ASSUME NEW w \in WarningIds, warnings'[w] # NoWarning PROVE Present(warnings[w].user)
    BY <2>1 DEF WarningsStay, ModerationInv, WarningsOK
  <2>2. ASSUME NEW w \in WarningIds, warnings'[w] # NoWarning
        PROVE  warnings[w].user \in Users /\ warnings'[w].user = warnings[w].user
    BY <2>2 DEF WarningsStay, ModerationInv, WarningsOK, WarningRows
  <2> QED BY <1>1, <2>1, <2>2 DEF WarningsOK, WarningsStay, Present
<1>4. \A v \in Users : v # u /\ Permanent(v)' => Permanent(v)
  BY <1>1 DEF Permanent, Banned
<1>5. CallsOK'
  <2>1. \A q \in Requests : q # r /\ req[q].op = "warned" =>
          /\ warnings'[req[q].warning] # NoWarning
          /\ warnings'[req[q].warning].user = req[q].user
    BY DEF ModerationInv, CallsOK, CallFits, WarningsStay
  <2> QED BY <1>4, <2>1, DoneKeepsCalls
<1> QED BY <1>1, <1>2, <1>3, <1>5 DEF ModerationInv

LEMMA BanUserKeeps ==
  ASSUME ModerationInv, NEW r \in Requests, BanUser(r) PROVE ModerationInv'
<1> DEFINE u == req[r].user
<1>1. u \in Users /\ req[r].until \in Untils \union {None} /\ req[r].until # None
      /\ req[r].mute \in BOOLEAN
  BY DEF BanUser, ModerationInv, CallsOK, CallFits, Calls
<1>2. Present(u) /\ Punish(u, "BANNED", req[r].until, req[r].mute, "TEMP_BAN", req[r].mute)
      /\ Done(r) /\ UNCHANGED <<warnings, sweep, now, faults>>
  BY DEF BanUser
<1>3. WarningsStay
  BY <1>2 DEF WarningsStay, ModerationInv, WarningsOK
<1> QED BY <1>1, <1>2, <1>3, PunishDoneKeeps

LEMMA PermanentlyBanUserKeeps ==
  ASSUME ModerationInv, NEW r \in Requests, PermanentlyBanUser(r) PROVE ModerationInv'
<1> DEFINE u == req[r].user
<1>1. u \in Users
  BY DEF PermanentlyBanUser, ModerationInv, CallsOK, CallFits
<1>2. Present(u) /\ Punish(u, "BANNED", None, FALSE, "PERMANENT_BAN", FALSE)
      /\ Done(r) /\ UNCHANGED <<warnings, sweep, now, faults>>
  BY DEF PermanentlyBanUser
<1>3. WarningsStay
  BY <1>2 DEF WarningsStay, ModerationInv, WarningsOK
<1> QED BY <1>1, <1>2, <1>3, PunishDoneKeeps

LEMMA UnbanUserKeeps ==
  ASSUME ModerationInv, NEW r \in Requests, UnbanUser(r) PROVE ModerationInv'
<1> DEFINE u == req[r].user
<1>1. u \in Users
  BY DEF UnbanUser, ModerationInv, CallsOK, CallFits
<1>2. Present(u) /\ Punish(u, "ACTIVE", None, FALSE, "UNBAN", FALSE)
      /\ Done(r) /\ UNCHANGED <<warnings, sweep, now, faults>>
  BY DEF UnbanUser
<1>3. WarningsStay
  BY <1>2 DEF WarningsStay, ModerationInv, WarningsOK
<1> QED BY <1>1, <1>2, <1>3, PunishDoneKeeps

LEMMA CreateWarningKeeps ==
  ASSUME ModerationInv, NEW r \in Requests, CreateWarning(r) PROVE ModerationInv'
<1> DEFINE u == req[r].user
           w == req[r].warning
<1>1. /\ u \in Users /\ w \in WarningIds /\ warnings[w] # NoWarning /\ warnings[w].user = u
      /\ req[r].until \in Untils \union {None}
  BY DEF CreateWarning, ModerationInv, CallsOK, CallFits, Calls
<1>2. Present(u)
  BY <1>1 DEF ModerationInv, WarningsOK
<1>3. WarningsStay
  BY <1>1, SetWarningState DEF CreateWarning
<1>4. Done(r) /\ UNCHANGED <<sweep, now, faults>>
  BY DEF CreateWarning
<1>5. CASE req[r].until = None
  <2>1. UNCHANGED <<user, record>>
    BY <1>5 DEF CreateWarning
  <2> QED BY <2>1, <1>3, <1>4, OtherWriteKeeps
<1>6. CASE req[r].until # None
  <2>1. Punish(u, "BANNED", req[r].until, user[u].isMuted, "TEMP_BAN", record[u].muted)
    BY <1>6 DEF CreateWarning
  <2>2. record[u].muted = user[u].isMuted
    BY <1>1, <1>2 DEF ModerationInv, RecordExplainsStatus
  <2>3. user[u].isMuted \in BOOLEAN
    BY <1>1 DEF ModerationInv, UsersOK, Rows
  <2> QED BY <1>1, <1>2, <1>3, <1>4, <1>6, <2>1, <2>2, <2>3, PunishDoneKeeps
<1> QED BY <1>5, <1>6

LEMMA RemoveWarningKeeps ==
  ASSUME ModerationInv, NEW r \in Requests, RemoveWarning(r) PROVE ModerationInv'
<1>1. req[r].warning \in WarningIds /\ warnings[req[r].warning] # NoWarning
  BY DEF RemoveWarning, Remains, ModerationInv, CallsOK, CallFits
<1>2. WarningsStay
  BY <1>1, SetWarningState DEF RemoveWarning
<1> QED BY <1>2, OtherWriteKeeps DEF RemoveWarning

\* The transaction of a warning decides on its ban: on none, if the user is banned
\* for good.
LEMMA WarnCountKeeps ==
  ASSUME ModerationInv, NEW r \in Requests, NEW w \in WarningIds, WarnCount(r, w)
  PROVE  ModerationInv'
<1> USE DEF ModerationInv, Present, Banned, Permanent
<1> DEFINE u == req[r].user
           row == [user |-> u, at |-> now, state |-> "open"]
           c == [req[r] EXCEPT !.op = "warned", !.warning = w, !.until = AutobanUntil(u),
                               !.overtaken = FALSE]
<1>1. u \in Users /\ Present(u) /\ warnings[w] = NoWarning
  BY DEF WarnCount, CallsOK, CallFits
<1>2. row \in WarningRows /\ row # NoWarning /\ row.user = u
  <2>1. row \in WarningRows
    BY <1>1 DEF WarningRows, JobOK
  <2>2. row.state # NoWarning.state
    BY DEF NoWarning
  <2> QED BY <2>1, <2>2
<1>3. warnings' = [warnings EXCEPT ![w] = row] /\ warnings \in [WarningIds -> WarningRows \union {NoWarning}]
  BY DEF WarnCount, WarningsOK
<1>4. /\ warnings' \in [WarningIds -> WarningRows \union {NoWarning}]
      /\ warnings'[w] = row /\ \A x \in WarningIds : x # w => warnings'[x] = warnings[x]
  BY <1>2, <1>3
<1>5. UNCHANGED <<user, record, sweep, now, faults>>
  BY DEF WarnCount
<1>6. UsersOK' /\ JobOK' /\ RecordExplainsStatus'
  BY <1>5 DEF UsersOK, JobOK, RecordExplainsStatus
<1>7. WarningsOK'
  <2>1. ASSUME NEW x \in WarningIds, warnings'[x] # NoWarning PROVE user[warnings'[x].user].status # "GONE"
    <3>1. CASE x = w
      BY <3>1, <1>1, <1>2, <1>4
    <3>2. CASE x # w
      BY <3>2, <2>1, <1>4 DEF WarningsOK
    <3> QED BY <3>1, <3>2
  <2> QED BY <2>1, <1>4, <1>5 DEF WarningsOK
<1>8. req' = [req EXCEPT ![r] = c]
  BY DEF WarnCount
<1>9. AutobanUntil(u) \in Untils \union {None} /\ (Permanent(u) => AutobanUntil(u) = None)
  BY <1>1, AutobanType DEF AutobanUntil
<1>10. c \in Calls /\ c.op = "warned" /\ c.warning = w /\ c.user = u /\ c.until = AutobanUntil(u)
  BY <1>9 DEF CallsOK, Calls, Ops
<1>11. /\ req' \in [Requests -> Calls] /\ req'[r] = c
       /\ \A q \in Requests : q # r => req'[q] = req[q]
  BY <1>8, <1>10 DEF CallsOK
<1> HIDE DEF c, row
<1>12. ASSUME NEW q \in Requests PROVE CallFits(req[q])'
  <2>1. CASE q = r
    BY <2>1, <1>1, <1>2, <1>4, <1>5, <1>9, <1>10, <1>11 DEF CallFits
  <2>2. CASE q # r
    <3>1. CallFits(req[q]) /\ req'[q] = req[q]
      BY <2>2, <1>11 DEF CallsOK
    <3>2. req[q].op = "warned" => warnings'[req[q].warning] = warnings[req[q].warning]
      BY <3>1, <1>1, <1>4 DEF CallFits
    <3> QED BY <3>1, <3>2, <1>5 DEF CallFits
  <2> QED BY <2>1, <2>2
<1> QED BY <1>6, <1>7, <1>11, <1>12 DEF CallsOK

LEMMA ChangeUserRoleKeeps ==
  ASSUME ModerationInv, NEW r \in Requests, ChangeUserRole(r) PROVE ModerationInv'
<1> DEFINE u == req[r].user
<1>1. u \in Users /\ Present(u) /\ req[r].roles \in SUBSET Roles
  BY DEF ChangeUserRole, ModerationInv, CallsOK, CallFits, Calls
<1>2. /\ user' = [user EXCEPT ![u].roles = req[r].roles] /\ Done(r)
      /\ UNCHANGED <<record, warnings, sweep, now, faults>>
  BY DEF ChangeUserRole
<1>3. user \in [Users -> Rows]
  BY DEF ModerationInv, UsersOK
<1>4. user' \in [Users -> Rows]
  BY <1>1, <1>2, <1>3 DEF Rows
<1>5. ASSUME NEW v \in Users
      PROVE  /\ user'[v].status = user[v].status /\ user'[v].bannedUntil = user[v].bannedUntil
             /\ user'[v].isMuted = user[v].isMuted /\ (v # u => user'[v] = user[v])
  BY <1>2, <1>3 DEF Rows
<1>6. UsersOK'
  BY <1>1, <1>2, <1>4, <1>5 DEF ModerationInv, UsersOK, Present
<1>7. WarningsOK'
  <2>1. ASSUME NEW w \in WarningIds, warnings[w] # NoWarning PROVE warnings[w].user \in Users
    BY <2>1 DEF ModerationInv, WarningsOK, WarningRows
  <2> QED BY <2>1, <1>2, <1>5 DEF ModerationInv, WarningsOK, Present
<1>8. RecordExplainsStatus' /\ JobOK'
  BY <1>2, <1>5 DEF ModerationInv, RecordExplainsStatus, JobOK, Present, Banned, Permanent
<1>9. CallsOK'
  <2>1. \A v \in Users : v # u /\ Permanent(v)' => Permanent(v)
    BY <1>5 DEF Permanent, Banned
  <2>2. \A q \in Requests : q # r /\ req[q].op = "warned" =>
          /\ warnings'[req[q].warning] # NoWarning
          /\ warnings'[req[q].warning].user = req[q].user
    BY <1>2 DEF ModerationInv, CallsOK, CallFits
  <2> QED BY <1>2, <2>1, <2>2, DoneKeepsCalls
<1> QED BY <1>6, <1>7, <1>8, <1>9 DEF ModerationInv

\* The rows of a user go with him; the warnings about to be committed are of others.
LEMMA DeleteKeeps ==
  ASSUME ModerationInv, NEW r \in Requests, Delete(r) PROVE ModerationInv'
<1> DEFINE u == req[r].user
<1>1. u \in Users
  BY DEF Delete, ModerationInv, CallsOK, CallFits
<1>2. /\ user' = [user EXCEPT ![u] = Gone] /\ record' = [record EXCEPT ![u] = NoRecord]
      /\ warnings' = [w \in WarningIds |->
           IF warnings[w] # NoWarning /\ warnings[w].user = u THEN NoWarning ELSE warnings[w]]
      /\ Done(r) /\ UNCHANGED <<sweep, now, faults>>
      /\ \A q \in Requests : ~(req[q].op = "warned" /\ req[q].user = u)
  BY DEF Delete
<1>3. Gone \in Rows /\ NoRecord \in Records
  BY DEF Gone, Rows, NoRecord, Records
<1>4. user \in [Users -> Rows] /\ record \in [Users -> Records]
  BY DEF ModerationInv, UsersOK
<1>5. /\ user' \in [Users -> Rows] /\ record' \in [Users -> Records]
      /\ user'[u] = Gone /\ record'[u] = NoRecord
      /\ \A v \in Users : v # u => user'[v] = user[v] /\ record'[v] = record[v]
  BY <1>1, <1>2, <1>3, <1>4
<1>6. UsersOK'
  BY <1>5 DEF ModerationInv, UsersOK, Present
<1>7. RecordExplainsStatus' /\ JobOK'
  BY <1>2, <1>5 DEF ModerationInv, RecordExplainsStatus, JobOK, Present, Banned, Permanent, Gone
<1>8. warnings' \in [WarningIds -> WarningRows \union {NoWarning}]
  BY <1>2 DEF ModerationInv, WarningsOK
<1>9. ASSUME NEW w \in WarningIds, warnings'[w] # NoWarning
      PROVE  /\ warnings'[w] = warnings[w] /\ warnings[w].user \in Users
             /\ warnings[w].user # u /\ Present(warnings[w].user)
  BY <1>2, <1>9 DEF ModerationInv, WarningsOK, WarningRows
<1>10. WarningsOK'
  BY <1>5, <1>8, <1>9 DEF WarningsOK, Present
<1>11. CallsOK'
  <2>1. \A v \in Users : v # u /\ Permanent(v)' => Permanent(v)
    BY <1>5 DEF Permanent, Banned
  <2>2. ASSUME NEW q \in Requests, q # r, req[q].op = "warned"
        PROVE  /\ warnings'[req[q].warning] # NoWarning
               /\ warnings'[req[q].warning].user = req[q].user
    <3>1. /\ req[q].warning \in WarningIds /\ warnings[req[q].warning] # NoWarning
          /\ warnings[req[q].warning].user = req[q].user
      BY <2>2 DEF ModerationInv, CallsOK, CallFits
    <3>2. req[q].user # u
      BY <1>2, <2>2
    <3>3. warnings'[req[q].warning] = warnings[req[q].warning]
      BY <1>2, <3>1, <3>2
    <3> QED BY <3>1, <3>3
  <2> QED BY <1>2, <2>1, <2>2, DoneKeepsCalls
<1> QED BY <1>6, <1>7, <1>10, <1>11 DEF ModerationInv

LEMMA FailKeeps ==
  ASSUME ModerationInv, NEW r \in Requests, Fail(r) PROVE ModerationInv'
<1>1. Idle \in Calls
  BY DEF Idle, Calls, Ops
<1>2. /\ req' = [req EXCEPT ![r] = Idle]
      /\ UNCHANGED <<user, record, warnings, sweep, now, faults>>
  BY DEF Fail, Drop
<1>3. UsersOK' /\ WarningsOK' /\ JobOK' /\ RecordExplainsStatus'
  BY <1>2 DEF ModerationInv, UsersOK, WarningsOK, JobOK, RecordExplainsStatus, Present, Banned, Permanent
<1>4. req' \in [Requests -> Calls]
  BY <1>1, <1>2 DEF ModerationInv, CallsOK
<1>5. ASSUME NEW q \in Requests PROVE CallFits(req[q])'
  <2>1. CASE q = r
    <3>1. req'[q] = Idle
      BY <1>2, <2>1 DEF ModerationInv, CallsOK
    <3> QED BY <3>1 DEF CallFits, Idle
  <2>2. CASE q # r
    <3>1. req'[q] = req[q] /\ CallFits(req[q])
      BY <1>2, <2>2 DEF ModerationInv, CallsOK
    <3> QED BY <1>2, <3>1 DEF CallFits, Permanent, Banned
  <2> QED BY <2>1, <2>2
<1> QED BY <1>3, <1>4, <1>5 DEF ModerationInv, CallsOK

-----------------------------------------------------------------------------
\* The job, the clock and a step of none: no request changes.
LEMMA AsleepType == ASSUME ModerationInv PROVE Asleep \in Sweeps /\ Asleep.at <= now
  BY ModerationAssumption DEF ModerationInv, JobOK, Asleep, Sweeps, Moments

LEMMA OnlyJobKeeps ==
  ASSUME ModerationInv, UNCHANGED <<user, record, warnings, req>>, JobOK' PROVE ModerationInv'
<1> USE DEF ModerationInv, Present, Banned, Permanent
<1>1. UsersOK' /\ WarningsOK' /\ RecordExplainsStatus'
  BY DEF UsersOK, WarningsOK, RecordExplainsStatus
<1>2. CallsOK'
  BY DEF CallsOK, CallFits
<1> QED BY <1>1, <1>2

LEMMA SweepUserKeeps ==
  ASSUME ModerationInv, NEW u \in Users, SweepUser(u) PROVE ModerationInv'
<1>1. /\ sweep' = [sweep EXCEPT !.todo = @ \ {u}]
      /\ UNCHANGED <<warnings, req, now, faults>>
  BY DEF SweepUser
<1>2. JobOK'
  <2>1. sweep \in Sweeps /\ sweep.at <= now /\ now \in Moments /\ faults \in 0..MaxFaults
    BY DEF ModerationInv, JobOK
  <2>2. sweep' \in Sweeps /\ sweep'.at = sweep.at
    BY <1>1, <2>1 DEF Sweeps
  <2> QED BY <1>1, <2>1, <2>2 DEF JobOK
<1>3. CASE Expired(u, sweep.at)
  <2>1. Punish(u, "ACTIVE", None, FALSE, "UNBAN", FALSE)
    BY <1>3 DEF SweepUser
  <2>2. Present(u)
    BY <1>3 DEF Expired, Banned, Present
  <2>3. /\ UsersOK' /\ RecordExplainsStatus'
        /\ \A v \in Users : (Present(v) => Present(v)') /\ (v # u => user'[v] = user[v])
        /\ user'[u].status = "ACTIVE"
    BY <2>1, <2>2, PunishKeeps
  <2>4. WarningsOK'
    <3>1. ASSUME NEW w \in WarningIds, warnings[w] # NoWarning PROVE warnings[w].user \in Users
      BY <3>1 DEF ModerationInv, WarningsOK, WarningRows
    <3> QED BY <1>1, <2>3, <3>1 DEF ModerationInv, WarningsOK, Present
  <2>5. CallsOK'
    <3>1. \A v \in Users : Permanent(v)' => Permanent(v)
      BY <2>3 DEF Permanent, Banned
    <3> QED BY <1>1, <3>1 DEF ModerationInv, CallsOK, CallFits, Permanent, Banned
  <2> QED BY <1>2, <2>3, <2>4, <2>5 DEF ModerationInv
<1>4. CASE ~Expired(u, sweep.at)
  <2>1. UNCHANGED <<user, record>>
    BY <1>4 DEF SweepUser
  <2> QED BY <1>1, <1>2, <2>1, OnlyJobKeeps
<1> QED BY <1>3, <1>4

LEMMA JobKeeps ==
  ASSUME ModerationInv, SweepStart \/ SweepEnd \/ SweepFail \/ Tick \/ UNCHANGED vars
  PROVE  ModerationInv'
<1> USE ModerationAssumption
<1>1. /\ sweep \in Sweeps /\ now \in Moments /\ faults \in 0..MaxFaults /\ sweep.at <= now
      /\ Asleep \in Sweeps /\ Asleep.at <= now
  BY AsleepType DEF ModerationInv, JobOK
<1>2. UNCHANGED <<user, record, warnings, req>>
  BY DEF SweepStart, SweepEnd, SweepFail, Tick, vars
<1>3. JobOK'
  <2>1. CASE SweepStart
    <3>1. /\ sweep' = [running |-> TRUE, at |-> now, todo |-> {u \in Users : Expired(u, now)}]
          /\ UNCHANGED <<now, faults>>
      BY <2>1 DEF SweepStart
    <3>2. sweep' \in Sweeps /\ sweep'.at = now
      BY <1>1, <3>1 DEF Sweeps
    <3> QED BY <1>1, <3>1, <3>2 DEF JobOK, Moments
  <2>2. CASE SweepEnd
    BY <1>1, <2>2 DEF SweepEnd, JobOK
  <2>3. CASE SweepFail
    BY <1>1, <2>3 DEF SweepFail, JobOK
  <2>4. CASE Tick
    <3>1. sweep.at \in Moments /\ now' = now + 1 /\ now < MaxTime /\ UNCHANGED <<sweep, faults>>
      BY <1>1, <2>4 DEF Tick, Sweeps
    <3>2. now' \in Moments /\ sweep.at <= now'
      BY <1>1, <3>1 DEF Moments
    <3> QED BY <1>1, <3>1, <3>2 DEF JobOK
  <2>5. CASE UNCHANGED vars
    BY <1>1, <2>5 DEF vars, JobOK
  <2> QED BY <2>1, <2>2, <2>3, <2>4, <2>5
<1> QED BY <1>2, <1>3, OnlyJobKeeps

LEMMA RestartKeeps == ASSUME ModerationInv, Restart PROVE ModerationInv'
<1>1. /\ sweep' = Asleep /\ faults' = faults + 1 /\ faults < MaxFaults
      /\ req' = [r \in Requests |-> Idle]
      /\ warnings' = [w \in WarningIds |->
           IF warnings[w].state = "open" THEN NoWarning ELSE warnings[w]]
      /\ UNCHANGED <<user, record, now>>
  BY DEF Restart
<1>2. Idle \in Calls /\ CallFits(Idle)'
  BY DEF Idle, Calls, Ops, CallFits
<1>3. CallsOK'
  BY <1>1, <1>2 DEF CallsOK, CallFits
<1>4. WarningsOK'
  BY <1>1 DEF ModerationInv, WarningsOK, Present
<1>5. UsersOK' /\ RecordExplainsStatus'
  BY <1>1 DEF ModerationInv, UsersOK, RecordExplainsStatus, Present, Banned, Permanent
<1>6. JobOK'
  BY <1>1, AsleepType, ModerationAssumption DEF ModerationInv, JobOK
<1> QED BY <1>3, <1>4, <1>5, <1>6 DEF ModerationInv

LEMMA RequestKeeps ==
  ASSUME ModerationInv, NEW r \in Requests, Request(r) PROVE ModerationInv'
<1>1. CASE \E a, u \in Users :
             \/ \E until \in Untils, mute \in BOOLEAN : BanCheck(r, a, u, until, mute)
             \/ PermanentBanCheck(r, a, u)
             \/ UnbanCheck(r, a, u)
             \/ WarnCheck(r, a, u)
             \/ \E next \in NewRoles : RoleCheck(r, a, u, next)
             \/ DeleteCheck(r, a, u)
  BY <1>1, BanCheckKeeps, PermanentBanCheckKeeps, UnbanCheckKeeps, WarnCheckKeeps,
     RoleCheckKeeps, DeleteCheckKeeps
<1>2. CASE \/ \E a \in Users, w \in WarningIds : RemoveWarningCheck(r, a, w)
           \/ \E w \in WarningIds : WarnCount(r, w)
  BY <1>2, RemoveWarningCheckKeeps, WarnCountKeeps
<1>3. CASE \/ BanUser(r) \/ PermanentlyBanUser(r) \/ UnbanUser(r) \/ CreateWarning(r)
           \/ RemoveWarning(r) \/ ChangeUserRole(r) \/ Delete(r) \/ Fail(r)
  BY <1>3, BanUserKeeps, PermanentlyBanUserKeeps, UnbanUserKeeps, CreateWarningKeeps,
     RemoveWarningKeeps, ChangeUserRoleKeeps, DeleteKeeps, FailKeeps
<1> QED BY <1>1, <1>2, <1>3 DEF Request

LEMMA InvNext == ASSUME ModerationInv, [Next]_vars PROVE ModerationInv'
<1>1. CASE \E r \in Requests : Request(r)
  BY <1>1, RequestKeeps
<1>2. CASE \E u \in Users : SweepUser(u)
  BY <1>2, SweepUserKeeps
<1>3. CASE SweepStart \/ SweepEnd \/ SweepFail \/ Tick \/ UNCHANGED vars
  BY <1>3, JobKeeps
<1>4. CASE Restart
  BY <1>4, RestartKeeps
<1> QED BY <1>1, <1>2, <1>3, <1>4 DEF Next, Sweeping

LEMMA Invariance == Spec => []ModerationInv
  BY InvInit, InvNext, PTL DEF Spec

\* The rows of users, records, warnings and requests keep their types, and no
\* warning is left of a user who is gone.
THEOREM TypeCorrectness == Spec => []ModerationTypeOK
  BY Invariance, InvTypes, PTL

\* At every moment the newest record of a user explains his status, the end of
\* his ban and whether he is muted.
THEOREM RecordsExplain == Spec => []RecordExplainsStatus
<1>1. ModerationInv => RecordExplainsStatus
  BY DEF ModerationInv
<1> QED BY <1>1, Invariance, PTL

-----------------------------------------------------------------------------
\* Who is banned for good keeps that ban in a request that is not done with him.
LEMMA RequestKeepsBan ==
  ASSUME ModerationInv, NEW r \in Requests, Request(r), NEW u \in Users,
         Permanent(u), ~(Permanent(u)')
  PROVE  /\ req[r].user = u /\ req'[r] = Idle
         /\ req[r].op \in {"unban", "delete"} \/ req[r].overtaken
<1> USE DEF Permanent, Banned
<1>1. user \in [Users -> Rows] /\ req \in [Requests -> Calls] /\ CallFits(req[r])
  BY DEF ModerationInv, UsersOK, CallsOK
<1>2. user'[u] # user[u]
  OBVIOUS
<1>4. ASSUME NEW c, Start(r, c) PROVE FALSE
  BY <1>2, <1>4 DEF Start
<1>5. CASE BanUser(r) \/ PermanentlyBanUser(r) \/ UnbanUser(r) \/ Delete(r)
  <2>1. req[r].user = u
    BY <1>1, <1>2, <1>5 DEF BanUser, PermanentlyBanUser, UnbanUser, Delete, Punish
  <2>2. req'[r] = Idle
    BY <1>5 DEF BanUser, PermanentlyBanUser, UnbanUser, Delete, Done
  <2>3. CASE BanUser(r)
    BY <1>1, <2>1, <2>2, <2>3 DEF BanUser, CallFits
  <2>4. CASE PermanentlyBanUser(r)
    <3>1. user' = [user EXCEPT ![u] = [@ EXCEPT !.status = "BANNED", !.bannedUntil = None, !.isMuted = FALSE]]
      BY <2>1, <2>4 DEF PermanentlyBanUser, Punish
    <3>2. user'[u].status = "BANNED" /\ user'[u].bannedUntil = None
      BY <1>1, <3>1 DEF Rows
    <3> QED BY <3>2
  <2>5. CASE UnbanUser(r) \/ Delete(r)
    BY <2>1, <2>2, <2>5 DEF UnbanUser, Delete
  <2> QED BY <1>5, <2>3, <2>4, <2>5
<1>6. CASE CreateWarning(r)
  <2>1. req'[r] = Idle /\ req[r].op = "warned"
    BY <1>6 DEF CreateWarning, Done
  <2>2. req[r].until # None /\ req[r].user = u
    BY <1>1, <1>2, <1>6 DEF CreateWarning, Punish
  <2> QED BY <1>1, <2>1, <2>2 DEF CallFits
<1>7. CASE ChangeUserRole(r)
  <2>1. user' = [user EXCEPT ![req[r].user].roles = req[r].roles]
    BY <1>7 DEF ChangeUserRole
  <2>2. user'[u].status = user[u].status /\ user'[u].bannedUntil = user[u].bannedUntil
    BY <1>1, <2>1 DEF Rows
  <2> QED BY <2>2
<1>8. CASE RemoveWarning(r) \/ Fail(r) \/ \E w \in WarningIds : WarnCount(r, w)
  BY <1>2, <1>8 DEF RemoveWarning, Fail, Drop, WarnCount
<1>9. CASE \/ \E a, v \in Users :
                \/ \E until \in Untils, mute \in BOOLEAN : BanCheck(r, a, v, until, mute)
                \/ PermanentBanCheck(r, a, v)
                \/ UnbanCheck(r, a, v)
                \/ WarnCheck(r, a, v)
                \/ \E next \in NewRoles : RoleCheck(r, a, v, next)
                \/ DeleteCheck(r, a, v)
           \/ \E a \in Users, w \in WarningIds : RemoveWarningCheck(r, a, w)
  BY <1>4, <1>9 DEF BanCheck, PermanentBanCheck, UnbanCheck, WarnCheck, RoleCheck,
     DeleteCheck, RemoveWarningCheck
<1> QED BY <1>5, <1>6, <1>7, <1>8, <1>9 DEF Request

\* The job lifts none.
LEMMA JobKeepsBan ==
  ASSUME ModerationInv, NEW u \in Users, Permanent(u), ~(Permanent(u)'),
         Sweeping \/ SweepFail \/ Restart \/ Tick \/ UNCHANGED vars
  PROVE  FALSE
<1> USE DEF Permanent, Banned
<1>1. user'[u] # user[u]
  OBVIOUS
<1>2. PICK v \in Users : SweepUser(v)
  BY <1>1 DEF Sweeping, SweepStart, SweepEnd, SweepFail, Restart, Tick, vars
<1>3. v = u /\ Expired(v, sweep.at)
  BY <1>1, <1>2 DEF SweepUser, Punish, ModerationInv, UsersOK
<1> QED BY <1>3 DEF Expired

\* A permanent ban ends with an unban, with the deletion of the user, or with a
\* request that had read the user before the ban.
THEOREM PermanentBansStand == Spec => PermanentBanStands
<1>1. ASSUME ModerationInv, [Next]_vars, NEW u \in Users, Permanent(u), ~(Permanent(u)')
      PROVE  \E r \in Requests :
               /\ req[r].user = u /\ req'[r] = Idle
               /\ req[r].op \in {"unban", "delete"} \/ req[r].overtaken
  <2>1. PICK r \in Requests : Request(r)
    BY <1>1, JobKeepsBan DEF Next
  <2> QED BY <1>1, <2>1, RequestKeepsBan
<1>2. ModerationInv /\ [Next]_vars =>
        [\A u \in Users : Permanent(u) /\ ~Permanent(u)' =>
           \E r \in Requests :
             /\ req[r].user = u /\ req'[r] = Idle
             /\ req[r].op \in {"unban", "delete"} \/ req[r].overtaken]_vars
  BY <1>1
<1> QED BY <1>2, Invariance, PTL DEF Spec, PermanentBanStands

\* A ban that the job lifts has expired by the clock, not only by its list.
THEOREM NewBansAreSpared == Spec => SweepSparesNewBans
<1>1. ASSUME ModerationInv, [Next]_vars, NEW u \in Users,
             u \in sweep.todo, u \notin sweep'.todo, Banned(u), ~(Banned(u)')
      PROVE  Expired(u, now)
  <2>1. sweep.at \in Moments /\ now \in Moments /\ sweep.at <= now /\ user[u] \in Rows
    BY <1>1 DEF ModerationInv, JobOK, Sweeps, UsersOK
  <2>2. user'[u] # user[u] /\ sweep' # sweep
    BY <1>1 DEF Banned
  <2>3. ASSUME NEW r \in Requests, Request(r) PROVE sweep' = sweep
    BY <2>3 DEF Request, BanCheck, PermanentBanCheck, UnbanCheck, WarnCheck, RoleCheck, DeleteCheck,
       RemoveWarningCheck, WarnCount, BanUser, PermanentlyBanUser, UnbanUser, CreateWarning,
       RemoveWarning, ChangeUserRole, Delete, Fail, Drop, Start
  <2>4. PICK v \in Users : SweepUser(v)
    BY <1>1, <2>2, <2>3 DEF Next, Sweeping, SweepStart, SweepEnd, SweepFail, Restart, Tick, vars
  <2>5. v = u /\ Expired(u, sweep.at)
    BY <2>2, <2>4, <1>1 DEF SweepUser, Punish, ModerationInv, UsersOK
  <2> QED BY <2>1, <2>5, ModerationAssumption DEF Expired, Rows, Untils, Moments
<1>2. ModerationInv /\ [Next]_vars =>
        [\A u \in Users :
           u \in sweep.todo /\ u \notin sweep'.todo /\ Banned(u) /\ ~Banned(u)' => Expired(u, now)]_vars
  BY <1>1
<1> QED BY <1>2, Invariance, PTL DEF Spec, SweepSparesNewBans
=============================================================================
