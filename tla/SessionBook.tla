----------------------------- MODULE SessionBook -----------------------------
(***************************************************************************)
(* What the refresh tokens promise their users, as one indivisible book of *)
(* sessions.  A session is opened once, in one user's name, and from then  *)
(* on it is held by one token ("open") or by one refresh between two       *)
(* tokens ("moving"), until it is over for good.  Ending a user's sessions *)
(* takes all the open ones at once, and nobody else's; one that is moving  *)
(* is told so and goes on.                                                 *)
(***************************************************************************)
CONSTANTS Users, NoUser, Sessions

VARIABLES
  durable,  \* whether the book outlives the process, and its writes can fail
  standing, \* standing[r]: "none", "open", "moving" or "over"
  owner,    \* owner[r]: who opened session r
  told      \* the sessions opened before their owner's were last ended

vars == <<durable, standing, owner, told>>

Init ==
  /\ durable \in BOOLEAN
  /\ standing = [r \in Sessions |-> "none"]
  /\ owner = [r \in Sessions |-> NoUser]
  /\ told = {}

Turns(r, from, to) ==
  /\ standing[r] = from
  /\ standing' = [standing EXCEPT ![r] = to]

Open(u, r) ==
  /\ Turns(r, "none", "open")
  /\ owner' = [owner EXCEPT ![r] = u]
  /\ UNCHANGED <<durable, told>>

\* The token is spent; the next one is issued.
Depart(r) == Turns(r, "open", "moving") /\ UNCHANGED <<durable, owner, told>>

Arrive(r) == Turns(r, "moving", "open") /\ UNCHANGED <<durable, owner, told>>

\* A write that failed.
Lose(r) ==
  /\ durable
  /\ Turns(r, "open", "over") \/ Turns(r, "moving", "over")
  /\ UNCHANGED <<durable, owner, told>>

\* A logout or a burn
EndAll(u) ==
  /\ standing' = [r \in Sessions |-> IF owner[r] = u /\ standing[r] = "open"
                                     THEN "over" ELSE standing[r]]
  /\ told' = told \cup {r \in Sessions : owner[r] = u}
  /\ UNCHANGED <<durable, owner>>

Survives(r) == standing[r] = "none" \/ (durable /\ standing[r] = "open")

Restart ==
  /\ standing' = [r \in Sessions |-> IF Survives(r) THEN standing[r] ELSE "over"]
  /\ UNCHANGED <<durable, owner, told>>

Next ==
  \/ \E u \in Users : EndAll(u) \/ \E r \in Sessions : Open(u, r)
  \/ \E r \in Sessions : Depart(r) \/ Arrive(r) \/ Lose(r)
  \/ Restart

Spec == Init /\ [][Next]_vars
=============================================================================
