------------------------- MODULE SessionBoundAccess -------------------------
(***************************************************************************)
(* What single sign-on promises, without grants, rows or handlers: a token *)
(* belongs to the browser session it was issued from, a session that has   *)
(* ended stays ended, and an application that presents a token after its   *)
(* session has ended is refused.  (docs/sso.md: codes and tokens act only  *)
(* while the session they were issued from lives.)                         *)
(***************************************************************************)
CONSTANTS Sessions, Tokens, Calls, NoSession

VARIABLES
  ended,   \* sessions that were revoked or went with their account
  issuer,  \* the session each token was issued from
  call     \* requests of applications that present a token

vars == <<ended, issuer, call>>

States == {"idle", "asked", "accepted", "refused"}
NoCall == [state |-> "idle", late |-> FALSE]

Init ==
  /\ ended = {}
  /\ issuer = [t \in Tokens |-> NoSession]
  /\ call = [c \in Calls |-> NoCall]

EndSessions ==
  /\ ended' \in SUBSET Sessions
  /\ ended \subseteq ended'
  /\ UNCHANGED <<issuer, call>>

Issue(t, s) ==
  /\ issuer[t] = NoSession
  /\ issuer' = [issuer EXCEPT ![t] = s]
  /\ UNCHANGED <<ended, call>>

\* The call is late when the session of its token has ended by now.
Ask(c, t) ==
  /\ call[c] = NoCall
  /\ issuer[t] # NoSession
  /\ call' = [call EXCEPT ![c] = [state |-> "asked", late |-> issuer[t] \in ended]]
  /\ UNCHANGED <<ended, issuer>>

Accept(c) ==
  /\ call[c].state = "asked"
  /\ ~call[c].late
  /\ call' = [call EXCEPT ![c].state = "accepted"]
  /\ UNCHANGED <<ended, issuer>>

Refuse(c) ==
  /\ call[c].state = "asked"
  /\ call' = [call EXCEPT ![c].state = "refused"]
  /\ UNCHANGED <<ended, issuer>>

Answer(c) ==
  /\ call[c].state \in {"accepted", "refused"}
  /\ call' = [call EXCEPT ![c] = NoCall]
  /\ UNCHANGED <<ended, issuer>>

\* All calls in flight break off.
BreakOff ==
  /\ call' = [c \in Calls |-> NoCall]
  /\ UNCHANGED <<ended, issuer>>

Next ==
  \/ EndSessions
  \/ \E t \in Tokens, s \in Sessions : Issue(t, s)
  \/ \E c \in Calls, t \in Tokens : Ask(c, t)
  \/ \E c \in Calls : Accept(c) \/ Refuse(c) \/ Answer(c)
  \/ BreakOff

Spec == Init /\ [][Next]_vars
=============================================================================
