------------------------------- MODULE Sessions ------------------------------
(***************************************************************************)
(* Refresh-token sessions: signup, login, refresh and logout (router.go),  *)
(* the session manager (middleware.go) and the refresh rows of the two     *)
(* stores (memory.go, postgres.go).                                        *)
(*                                                                         *)
(* A token is its jti: only the server can sign one, and what Verify turns *)
(* away (a bad signature, an access token, an expired one) never reaches   *)
(* the store.  Whoever holds a token may present it, once or again, so any *)
(* client may present any token that was ever handed out.  A session is    *)
(* the chain of tokens that one login starts and each refresh extends; it  *)
(* is named by the jti of the login, which the program itself does not     *)
(* keep.  An access token is good for 15 minutes whatever happens here, so *)
(* logout may come at any time.                                            *)
(***************************************************************************)
CONSTANTS
  Users, NoUser,
  Jtis, NoJti,   \* newJTI draws from Jtis: the bound on tokens ever issued
  Clients,       \* the refresh requests that may be in flight at once
  Stores         \* the stores main may wire: "memory", "postgres" or both

ASSUME NoUserAssumption == NoUser \notin Users
ASSUME NoJtiAssumption == NoJti \notin Jtis
ASSUME StoresAssumption == Stores \subseteq {"memory", "postgres"}

VARIABLES
  store,    \* the store main has wired
  account,  \* account[u]: whether id u is not yet given out, known, or lost
  row,      \* row[j]: the row of jti j: absent, fresh or consumed
  user,     \* user[j]: the user it was issued to
  call,     \* call[c]: the refresh client c has in flight, and how far it is
  \* What a reader knows and the program does not:
  root,     \* root[j]: the session of token j, NoJti before it is issued
  ended,    \* ended[r]: how session r came to its end, "open" when it has not
  exempt    \* sessions ended while a refresh of theirs was past its consume

ghosts == <<root, ended, exempt>>

site == <<store, account>>

vars == <<store, account, row, user, call, root, ended, exempt>>

Idle == [at |-> "idle"]

(***************************************************************************)
(* A refresh, by the step it takes next: consume the token presented; burn *)
(* the user's tokens (a statement of its own in Postgres); issue the new   *)
(* token.                                                                  *)
(***************************************************************************)
Call ==
  {Idle}
    \cup [at : {"consume"}, jti : Jtis]
    \cup [at : {"burn"}, user : Users]
    \cup [at : {"issue"}, user : Users, session : Jtis]

Init ==
  /\ store \in Stores
  /\ account \in [Users -> IF store = "memory" THEN {"new"} ELSE {"new", "known"}]
  /\ row = [j \in Jtis |-> "absent"]
  /\ user = [j \in Jtis |-> NoUser]
  /\ call = [c \in Clients |-> Idle]
  /\ root = [j \in Jtis |-> NoJti]
  /\ ended = [j \in Jtis |-> "open"]
  /\ exempt = {}

Goes(c, s) == call' = [call EXCEPT ![c] = s]

Sessions == {root[j] : j \in Jtis} \ {NoJti}

SessionsOf(u) == {r \in Sessions : user[r] = u}

Rotating(r) == {c \in Clients : call[c].at = "issue" /\ call[c].session = r}

\* Only a call of Postgres can err; the one error of Memory is ErrNotFound.
StoreFails == store = "postgres"

-----------------------------------------------------------------------------
(* The store.                                                               *)

\* Mutant: the row is saved without its user (memory.go:122).
SaveWithoutUser(j, u, r) ==
  /\ root[j] = NoJti
  /\ row' = [row EXCEPT ![j] = "fresh"]
  /\ root' = [root EXCEPT ![j] = r]
  /\ UNCHANGED user

\* SaveRefreshToken(jti, userID), with a jti never used before
SaveRefreshToken(j, u, r) ==
  /\ root[j] = NoJti
  /\ row' = [row EXCEPT ![j] = "fresh"]
  /\ user' = [user EXCEPT ![j] = u]
  /\ root' = [root EXCEPT ![j] = r]

\* What ending the sessions of a user means for the reader's record of them.
EndSessions(u, how) ==
  /\ ended' = [r \in Jtis |-> IF r \in SessionsOf(u) THEN how ELSE ended[r]]
  /\ exempt' = (exempt \ SessionsOf(u))
                 \cup {r \in SessionsOf(u) : Rotating(r) # {}}

\* The sessions of S have lost their last token, and nobody ended them.
LoseSessions(S) ==
  /\ ended' = [r \in Jtis |-> IF r \in S /\ ended[r] = "open"
                              THEN "lost" ELSE ended[r]]
  /\ exempt' = exempt \ S

\* Mutant: every user's rows are consumed (the test of the user missing,
\* memory.go:135).
RevokeEverybodys(u, how) ==
  /\ row' = [j \in Jtis |-> IF row[j] = "absent" THEN "absent" ELSE "consumed"]
  /\ EndSessions(u, how)

\* Mutant: no row is consumed (memory.go:150 missing).
RevokeNobodys(u, how) ==
  /\ UNCHANGED row
  /\ EndSessions(u, how)

\* RevokeAllRefreshTokens(userID), and the burn of ConsumeRefreshToken
RevokeAll(u, how) ==
  /\ row' = [j \in Jtis |-> IF user[j] = u /\ row[j] # "absent"
                            THEN "consumed" ELSE row[j]]
  /\ EndSessions(u, how)

-----------------------------------------------------------------------------
(* signup gives an account an id never used before.  CreateUser of Postgres *)
(* never succeeds: it inserts no id, and the column has no default          *)
(* (postgres.go:48, 001_init.sql:5), so there the accounts are those found  *)
(* in the table at the start.  login checks the password against the        *)
(* account, which does not change as long as it is there; its one other     *)
(* step is the insert of the token.                                         *)

Signup(u) ==
  /\ store = "memory"
  /\ account[u] = "new"
  /\ account' = [account EXCEPT ![u] = "known"]
  /\ UNCHANGED <<store, row, user, call, ghosts>>

Login(u, j) ==
  /\ account[u] = "known"
  /\ SaveRefreshToken(j, u, j)
  /\ UNCHANGED <<site, call, ended, exempt>>

-----------------------------------------------------------------------------
(* refresh                                                                  *)

RefreshArrives(c, j) ==
  /\ call[c] = Idle
  /\ root[j] # NoJti
  /\ Goes(c, [at |-> "consume", jti |-> j])
  /\ UNCHANGED <<site, row, user, ghosts>>

Presented(c) == call[c].jti

\* ErrNotFound (the row was lost with the process), or the store failed
RefreshUnknown(c) ==
  /\ call[c].at = "consume"
  /\ row[Presented(c)] = "absent" \/ StoreFails
  /\ Goes(c, Idle)
  /\ UNCHANGED <<site, row, user, ghosts>>

\* Mutant: the row is read and not marked (memory.go:141 missing).
RefreshReads(c) ==
  /\ call[c].at = "consume"
  /\ row[Presented(c)] = "fresh"
  /\ Goes(c, [at |-> "issue", user |-> user[Presented(c)],
              session |-> root[Presented(c)]])
  /\ UNCHANGED <<site, row, user, root, ended, exempt>>

RefreshConsumes(c) ==
  /\ call[c].at = "consume"
  /\ row[Presented(c)] = "fresh"
  /\ row' = [row EXCEPT ![Presented(c)] = "consumed"]
  /\ Goes(c, [at |-> "issue", user |-> user[Presented(c)],
              session |-> root[Presented(c)]])
  /\ UNCHANGED <<site, user, root, ended, exempt>>

\* Postgres has marked the row, and the answer is lost: 401.
RefreshConsumeLost(c) ==
  /\ StoreFails
  /\ call[c].at = "consume"
  /\ row[Presented(c)] = "fresh"
  /\ row' = [row EXCEPT ![Presented(c)] = "consumed"]
  /\ LoseSessions({root[Presented(c)]})
  /\ Goes(c, Idle)
  /\ UNCHANGED <<site, user, root>>

\* ErrTokenReplayed: Memory burns under the same lock, Postgres afterwards.
RefreshReplayed(c) ==
  /\ call[c].at = "consume"
  /\ row[Presented(c)] = "consumed"
  /\ IF store = "postgres"
       THEN /\ Goes(c, [at |-> "burn", user |-> user[Presented(c)]])
            /\ UNCHANGED <<row, ended, exempt>>
       ELSE /\ RevokeAll(user[Presented(c)], "burned")
            /\ Goes(c, Idle)
  /\ UNCHANGED <<site, user, root>>

RefreshBurns(c) ==
  /\ call[c].at = "burn"
  /\ RevokeAll(call[c].user, "burned")
  /\ Goes(c, Idle)
  /\ UNCHANGED <<site, user, root>>

\* The error of the burn is ignored (postgres.go:196).
RefreshBurnFails(c) ==
  /\ StoreFails
  /\ call[c].at = "burn"
  /\ Goes(c, Idle)
  /\ UNCHANGED <<site, row, user, ghosts>>

RefreshIssues(c, j) ==
  /\ call[c].at = "issue"
  /\ SaveRefreshToken(j, call[c].user, call[c].session)
  /\ Goes(c, Idle)
  /\ UNCHANGED <<site, ended, exempt>>

\* 500: the old token is consumed and there is no new one.
RefreshIssueFails(c) ==
  /\ StoreFails
  /\ call[c].at = "issue"
  /\ LoseSessions({call[c].session})
  /\ Goes(c, Idle)
  /\ UNCHANGED <<site, row, user, root>>

Refresh(c) ==
  \/ \E j \in Jtis : RefreshArrives(c, j) \/ RefreshIssues(c, j)
  \/ RefreshUnknown(c)
  \/ RefreshConsumes(c)
  \/ RefreshConsumeLost(c)
  \/ RefreshReplayed(c)
  \/ RefreshBurns(c)
  \/ RefreshBurnFails(c)
  \/ RefreshIssueFails(c)

-----------------------------------------------------------------------------
(* logout                                                                   *)

Logout(u) ==
  /\ RevokeAll(u, "loggedOut")
  /\ UNCHANGED <<site, user, call, root>>

-----------------------------------------------------------------------------
(* The process stops and starts again: the requests in flight are gone,     *)
(* and with store.Memory so are the rows and the accounts.                  *)

Restart ==
  /\ call' = [c \in Clients |-> Idle]
  /\ IF store = "postgres"
       THEN /\ UNCHANGED <<account, row>>
            /\ LoseSessions({r \in Sessions : Rotating(r) # {}})
       ELSE /\ account' = [u \in Users |-> IF account[u] = "known"
                                           THEN "lost" ELSE account[u]]
            /\ row' = [j \in Jtis |-> "absent"]
            /\ LoseSessions(Sessions)
  /\ UNCHANGED <<store, user, root>>

Next ==
  \/ \E u \in Users : Signup(u) \/ Logout(u) \/ \E j \in Jtis : Login(u, j)
  \/ \E c \in Clients : Refresh(c)
  \/ Restart

Spec == Init /\ [][Next]_vars

-----------------------------------------------------------------------------
(* Properties.                                                              *)

TypeOK ==
  /\ store \in Stores
  /\ account \in [Users -> {"new", "known", "lost"}]
  /\ row \in [Jtis -> {"absent", "fresh", "consumed"}]
  /\ user \in [Jtis -> Users \cup {NoUser}]
  /\ call \in [Clients -> Call]
  /\ root \in [Jtis -> Jtis \cup {NoJti}]
  /\ ended \in [Jtis -> {"open", "burned", "loggedOut", "lost"}]
  /\ exempt \subseteq Jtis
  \* the row of a token names a user, and all rows of a session the same one
  /\ \A j \in Jtis : row[j] # "absent" => user[j] \in Users /\ user[root[j]] = user[j]

\* The ways session r can go on: a token nobody used yet, or a refresh that has
\* consumed a token and is about to issue the next one (Rotating).
FreshTokens(r) == {j \in Jtis : row[j] = "fresh" /\ root[j] = r}

(***************************************************************************)
(* A refresh token is valid exactly once (router.go:176): however many     *)
(* clients present the tokens of a session at once, the session never      *)
(* forks.  At any time there is at most one way for it to go on.           *)
(***************************************************************************)
SessionNeverForks ==
  \A r \in Sessions :
    /\ \A j, k \in FreshTokens(r) : j = k
    /\ \A c, d \in Rotating(r) : c = d
    /\ FreshTokens(r) = {} \/ Rotating(r) = {}

(***************************************************************************)
(* A session nobody ended goes on: no other user's logout or replay, and   *)
(* no interleaving of refreshes, leaves its holder without a token.  Only  *)
(* three things lose it: a failing call to Postgres or a restart after the *)
(* old token was marked, and with store.Memory any restart.                *)
(***************************************************************************)
OpenSessionGoesOn ==
  \A r \in Sessions :
    ended[r] = "open" => FreshTokens(r) # {} \/ Rotating(r) # {}

(***************************************************************************)
(* A session that was burned, logged out or lost does not come back,       *)
(* except that a burn or a logout misses a refresh which had already       *)
(* consumed its token then (EndingIsFinal, below).                         *)
(***************************************************************************)
EndedSessionStaysEnded ==
  \A r \in Sessions :
    ended[r] # "open" /\ r \notin exempt =>
      FreshTokens(r) = {} /\ Rotating(r) = {}

(***************************************************************************)
(* A fresh token stops being so only when it is itself presented, or when  *)
(* its own user's sessions are ended: nobody else's calls revoke it.       *)
(***************************************************************************)
TokensRevokedByTheirUser ==
  [][ \A j \in Jtis :
        row[j] = "fresh" /\ row'[j] # "fresh" =>
          \/ \E c \in Clients : call[c] = [at |-> "consume", jti |-> j]
                                  /\ call'[c].at = "issue"
          \/ ended'[root[j]] # "open"
    ]_vars

\* How session r stands: a session with two ways to go on has forked.
Standing(r) ==
  IF r \notin Sessions THEN "none"
  ELSE CASE FreshTokens(r) = {} /\ Rotating(r) = {}   -> "over"
         [] FreshTokens(r) # {} /\ Rotating(r) = {}   -> "open"
         [] FreshTokens(r) = {} /\ Rotating(r) # {}   -> "moving"
         [] FreshTokens(r) # {} /\ Rotating(r) # {}   -> "forked"

(***************************************************************************)
(* Rows, refreshes in flight and restarts, taken together, keep an         *)
(* indivisible book of sessions (SessionBook): a session that has no way   *)
(* to go on never gets one again, nothing but a logout or a replay of its  *)
(* own user, a failed write or a restart takes the last one away, and a    *)
(* logout or a replay takes every session of the user that is between      *)
(* refreshes.                                                              *)
(***************************************************************************)
SB == INSTANCE SessionBook WITH
        Sessions <- Jtis,
        durable  <- store = "postgres",
        standing <- [r \in Jtis |-> Standing(r)],
        owner    <- [r \in Jtis |-> IF r \in Sessions THEN user[r] ELSE NoUser],
        told     <- {r \in Jtis : ended[r] \in {"burned", "loggedOut"}}

ImplementsSessionBook == SB!Spec

-----------------------------------------------------------------------------
(* Statements the repository makes which the program does not keep.         *)

Quiet == \A c \in Clients : call[c] = Idle

(***************************************************************************)
(* Replaying a consumed token burns every outstanding session for that     *)
(* user (router.go:177); logout revokes every outstanding refresh token    *)
(* for the caller (router.go:402).  So once the requests in flight are     *)
(* answered, no session that was ended has a token left.                   *)
(***************************************************************************)
EndingIsFinal ==
  Quiet => \A r \in Sessions : ended[r] # "open" => FreshTokens(r) = {}
=============================================================================
