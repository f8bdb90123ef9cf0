--------------------------- MODULE SessionsProofs ---------------------------
(***************************************************************************)
(* Proofs about refresh-token sessions: for any number of users, tokens    *)
(* and requests in flight, and whichever store is wired.                   *)
(***************************************************************************)
EXTENDS Sessions, TLAPS

(***************************************************************************)
(* The inductive invariant.  Chains ties a token to the session it belongs *)
(* to and to the session's user, and leaves a jti that was not drawn       *)
(* without a trace; Flights says the same of the refreshes in flight.  The *)
(* other three parts are the properties, said of single tokens and         *)
(* requests.  OneWay needs Chains, for a login to start a session nothing  *)
(* belongs to yet; WaysOver needs OneWay, for a session to have no second  *)
(* token when it loses one.                                                *)
(***************************************************************************)
Fresh(j) == row[j] = "fresh"

Issuing(c) == call[c].at = "issue"

Chains ==
  \A j \in Jtis :
    \/ root[j] = NoJti /\ row[j] = "absent" /\ ended[j] = "open"
    \/ /\ root[j] \in Jtis /\ root[root[j]] = root[j]
       /\ user[j] \in Users /\ user[root[j]] = user[j]

Flights ==
  \A c \in Clients :
    /\ call[c].at = "consume" => root[call[c].jti] # NoJti
    /\ Issuing(c) => /\ root[call[c].session] = call[c].session
                     /\ user[call[c].session] = call[c].user

OneWay ==
  /\ \A j, k \in Jtis : Fresh(j) /\ Fresh(k) /\ root[j] = root[k] => j = k
  /\ \A c, d \in Clients :
       Issuing(c) /\ Issuing(d) /\ call[c].session = call[d].session => c = d
  /\ \A j \in Jtis, c \in Clients :
       Fresh(j) /\ Issuing(c) => root[j] # call[c].session

WaysOpen ==
  \A r \in Jtis :
    root[r] = r /\ ended[r] = "open" =>
      \/ \E j \in Jtis : Fresh(j) /\ root[j] = r
      \/ \E c \in Clients : Issuing(c) /\ call[c].session = r

WaysOver ==
  \A r \in Jtis :
    root[r] = r /\ ended[r] # "open" /\ r \notin exempt =>
      /\ \A j \in Jtis : Fresh(j) => root[j] # r
      /\ \A c \in Clients : Issuing(c) => call[c].session # r

IInv == TypeOK /\ Chains /\ Flights /\ OneWay /\ WaysOpen /\ WaysOver

-----------------------------------------------------------------------------
(* The fields of a call are where its step says.                            *)
LEMMA CallFields ==
  ASSUME TypeOK, NEW c \in Clients
  PROVE  /\ call[c].at = "consume" =>
              call[c].jti \in Jtis /\ call[c] = [at |-> "consume", jti |-> call[c].jti]
         /\ call[c].at = "burn" => call[c].user \in Users
         /\ Issuing(c) => call[c].user \in Users /\ call[c].session \in Jtis
<1>1. call[c] \in Call
  BY DEF TypeOK
<1> QED
  BY <1>1 DEF Call, Idle, Issuing

(* A session is a jti that is its own root.                                 *)
LEMMA SessionRoots ==
  ASSUME IInv, NEW r \in Jtis
  PROVE  r \in Sessions <=> root[r] = r
BY NoJtiAssumption DEF IInv, TypeOK, Chains, Sessions

(* Nothing belongs to a jti that was not drawn, and no refresh is about it. *)
LEMMA NewJti ==
  ASSUME IInv, NEW j \in Jtis, root[j] = NoJti
  PROVE  /\ row[j] = "absent" /\ ended[j] = "open"
         /\ \A k \in Jtis : root[k] # j
         /\ \A c \in Clients : Issuing(c) => call[c].session # j
         /\ \A c \in Clients : call[c].at = "consume" => call[c].jti # j
<1>1. row[j] = "absent" /\ ended[j] = "open"
  BY NoJtiAssumption DEF IInv, Chains
<1>2. ASSUME NEW k \in Jtis PROVE root[k] # j
  BY NoJtiAssumption DEF IInv, Chains
<1>3. ASSUME NEW c \in Clients, Issuing(c) PROVE call[c].session # j
  BY <1>3, NoJtiAssumption, CallFields DEF IInv, Flights
<1>4. ASSUME NEW c \in Clients, call[c].at = "consume" PROVE call[c].jti # j
  BY <1>4 DEF IInv, Flights
<1> QED
  BY <1>1, <1>2, <1>3, <1>4

-----------------------------------------------------------------------------
(* The steps.                                                               *)

(* No session starts with the process.                                      *)
LEMMA InitIInv == Init => IInv
<1> SUFFICES ASSUME Init PROVE IInv
  OBVIOUS
<1>1. TypeOK
  BY DEF Init, TypeOK, Call
<1>2. \A c \in Clients : call[c].at = "idle"
  BY DEF Init, Idle
<1>3. Chains /\ Flights /\ OneWay
  BY <1>2 DEF Init, Chains, Flights, OneWay, Fresh, Issuing
<1>4. WaysOpen /\ WaysOver
  BY NoJtiAssumption DEF Init, WaysOpen, WaysOver
<1> QED
  BY <1>1, <1>3, <1>4 DEF IInv

(* What a new request changes, and one that ends without a trace: only its  *)
(* own step, which is not that of issuing.                                  *)
LEMMA CallOnly ==
  ASSUME IInv, NEW c \in Clients, ~Issuing(c),
         NEW s \in Call, s.at # "issue",
         s.at = "consume" => root[s.jti] # NoJti,
         Goes(c, s), UNCHANGED <<site, row, user, ghosts>>
  PROVE  IInv'
<1>1. /\ call'[c] = s
      /\ \A d \in Clients : d # c => call'[d] = call[d]
      /\ \A d \in Clients : Issuing(d)' <=> Issuing(d)
  BY DEF Goes, IInv, TypeOK, Issuing
<1>2. TypeOK'
  BY DEF IInv, TypeOK, Goes, ghosts, site
<1>3. Chains'
  BY DEF IInv, Chains, ghosts
<1>4. Flights'
  BY <1>1 DEF IInv, Flights, Issuing, ghosts
<1>5. OneWay'
  BY <1>1 DEF IInv, OneWay, Fresh, Issuing, ghosts
<1>6. WaysOpen'
  BY <1>1 DEF IInv, WaysOpen, Fresh, Issuing, ghosts
<1>7. WaysOver'
  BY <1>1 DEF IInv, WaysOver, Fresh, Issuing, ghosts
<1> QED
  BY <1>2, <1>3, <1>4, <1>5, <1>6, <1>7 DEF IInv

(* A login starts a session with one token.                                 *)
LEMMA LoginIInv ==
  ASSUME IInv, NEW u \in Users, NEW j \in Jtis, Login(u, j)
  PROVE  IInv'
<1>1. /\ root[j] = NoJti
      /\ row' = [row EXCEPT ![j] = "fresh"]
      /\ user' = [user EXCEPT ![j] = u]
      /\ root' = [root EXCEPT ![j] = j]
      /\ UNCHANGED <<store, account, call, ended, exempt>>
  BY DEF Login, SaveRefreshToken, site
<1>2. /\ row[j] = "absent" /\ ended[j] = "open"
      /\ \A k \in Jtis : root[k] # j
      /\ \A c \in Clients : Issuing(c) => call[c].session # j
      /\ \A c \in Clients : call[c].at = "consume" => call[c].jti # j
  BY <1>1, NewJti
<1>3. /\ root'[j] = j /\ user'[j] = u /\ row'[j] = "fresh"
      /\ \A k \in Jtis : k # j =>
           root'[k] = root[k] /\ user'[k] = user[k] /\ row'[k] = row[k]
  BY <1>1 DEF IInv, TypeOK
<1>4. Chains'
  BY <1>1, <1>2, <1>3, NoJtiAssumption DEF IInv, Chains
<1>5. TypeOK'
  <2>1. \A k \in Jtis :
         row'[k] # "absent" => user'[k] \in Users /\ user'[root'[k]] = user'[k]
    BY <1>4 DEF Chains
  <2> QED
    BY <1>1, <2>1 DEF IInv, TypeOK
<1>6. Flights'
  BY <1>1, <1>2, <1>3, CallFields DEF IInv, Flights, Issuing
<1>7. OneWay'
  BY <1>1, <1>2, <1>3, CallFields DEF IInv, OneWay, Fresh, Issuing
<1>8. WaysOpen'
  BY <1>1, <1>2, <1>3, CallFields DEF IInv, WaysOpen, Fresh, Issuing
<1>9. WaysOver'
  BY <1>1, <1>2, <1>3, CallFields DEF IInv, WaysOver, Fresh, Issuing
<1> QED
  BY <1>4, <1>5, <1>6, <1>7, <1>8, <1>9 DEF IInv

(* A signup touches the accounts alone.                                     *)
LEMMA SignupIInv ==
  ASSUME IInv, NEW u \in Users, Signup(u)
  PROVE  IInv'
<1>1. /\ UNCHANGED <<store, row, user, call, root, ended, exempt>>
      /\ account' \in [Users -> {"new", "known", "lost"}]
  BY DEF Signup, ghosts, IInv, TypeOK
<1>2. TypeOK'
  BY <1>1 DEF IInv, TypeOK
<1> QED
  BY <1>1, <1>2 DEF IInv, Chains, Flights, OneWay, WaysOpen, WaysOver, Fresh, Issuing

(* A consume turns a session's one token into its one refresh.              *)
LEMMA RefreshConsumesIInv ==
  ASSUME IInv, NEW c \in Clients, RefreshConsumes(c)
  PROVE  IInv'
<1> DEFINE j == call[c].jti
           s == [at |-> "issue", user |-> user[j], session |-> root[j]]
<1>1. /\ call[c].at = "consume" /\ Fresh(j)
      /\ row' = [row EXCEPT ![j] = "consumed"]
      /\ call' = [call EXCEPT ![c] = s]
      /\ UNCHANGED <<store, account, user, root, ended, exempt>>
  BY DEF RefreshConsumes, Presented, Goes, Fresh, site
<1>2. j \in Jtis
  BY <1>1, CallFields DEF IInv
<1>3. /\ root[j] \in Jtis /\ root[root[j]] = root[j]
      /\ user[j] \in Users /\ user[root[j]] = user[j]
  BY <1>1, <1>2 DEF IInv, Chains, Fresh
<1>4. /\ \A k \in Jtis : Fresh(k)' <=> Fresh(k) /\ k # j
      /\ Issuing(c)' /\ ~Issuing(c)
      /\ call'[c].session = root[j] /\ call'[c].user = user[j]
      /\ \A d \in Clients : d # c => call'[d] = call[d]
  BY <1>1, <1>2 DEF IInv, TypeOK, Fresh, Issuing
<1>5. Chains'
  BY <1>1, <1>2, <1>3 DEF IInv, TypeOK, Chains
<1>6. TypeOK'
  <2>1. s \in Call
    BY <1>3 DEF Call
  <2>2. \A k \in Jtis :
         row'[k] # "absent" => user'[k] \in Users /\ user'[root'[k]] = user'[k]
    BY <1>5 DEF Chains
  <2> QED
    BY <1>1, <1>2, <2>1, <2>2 DEF IInv, TypeOK
<1>7. Flights'
  BY <1>1, <1>3, <1>4 DEF IInv, Flights, Issuing
<1>8. OneWay'
  BY <1>1, <1>2, <1>4 DEF IInv, OneWay, Fresh, Issuing
<1>9. WaysOpen'
  BY <1>1, <1>2, <1>4 DEF IInv, WaysOpen, Fresh, Issuing
<1>10. WaysOver'
  BY <1>1, <1>2, <1>3, <1>4 DEF IInv, WaysOver, Fresh, Issuing
<1> QED
  BY <1>5, <1>6, <1>7, <1>8, <1>9, <1>10 DEF IInv

(* A consume whose answer is lost leaves the session with nothing.          *)
LEMMA RefreshConsumeLostIInv ==
  ASSUME IInv, NEW c \in Clients, RefreshConsumeLost(c)
  PROVE  IInv'
<1> DEFINE j == call[c].jti
<1>1. /\ call[c].at = "consume" /\ Fresh(j)
      /\ row' = [row EXCEPT ![j] = "consumed"]
      /\ LoseSessions({root[j]})
      /\ call' = [call EXCEPT ![c] = Idle]
      /\ UNCHANGED <<store, account, user, root>>
  BY DEF RefreshConsumeLost, Presented, Goes, Fresh, site
<1>2. j \in Jtis
  BY <1>1, CallFields DEF IInv
<1>3. root[j] \in Jtis
  BY <1>1, <1>2 DEF IInv, Chains, Fresh
<1>4. /\ \A k \in Jtis : Fresh(k)' <=> Fresh(k) /\ k # j
      /\ ~Issuing(c)' /\ ~Issuing(c)
      /\ call'[c] = Idle
      /\ \A d \in Clients : d # c => call'[d] = call[d]
  BY <1>1, <1>2 DEF IInv, TypeOK, Fresh, Issuing, Idle
<1>5. /\ exempt' = exempt \ {root[j]}
      /\ \A r \in Jtis : ended'[r] = IF r = root[j] /\ ended[r] = "open"
                                       THEN "lost" ELSE ended[r]
  BY <1>1 DEF LoseSessions
<1>6. Chains'
  BY <1>1, <1>2, <1>3, <1>5, NoJtiAssumption DEF IInv, TypeOK, Chains
<1>7. TypeOK'
  <2>1. \A k \in Jtis :
         row'[k] # "absent" => user'[k] \in Users /\ user'[root'[k]] = user'[k]
    BY <1>6 DEF Chains
  <2> QED
    BY <1>1, <1>2, <1>5, <2>1 DEF IInv, TypeOK, LoseSessions, Call
<1>8. Flights'
  BY <1>1, <1>4 DEF IInv, Flights, Issuing, Idle
<1>9. OneWay'
  BY <1>1, <1>4 DEF IInv, OneWay, Issuing
<1>10. WaysOpen'
  BY <1>1, <1>2, <1>4, <1>5 DEF IInv, WaysOpen, Issuing
<1>11. WaysOver'
  BY <1>1, <1>2, <1>4, <1>5 DEF IInv, WaysOver, OneWay, Issuing
<1> QED
  BY <1>6, <1>7, <1>8, <1>9, <1>10, <1>11 DEF IInv

(* A new token takes the place of the refresh that inserts it.              *)
LEMMA RefreshIssuesIInv ==
  ASSUME IInv, NEW c \in Clients, NEW j \in Jtis, RefreshIssues(c, j)
  PROVE  IInv'
<1> DEFINE r == call[c].session
           u == call[c].user
<1>1. /\ Issuing(c) /\ root[j] = NoJti
      /\ row' = [row EXCEPT ![j] = "fresh"]
      /\ user' = [user EXCEPT ![j] = u]
      /\ root' = [root EXCEPT ![j] = r]
      /\ call' = [call EXCEPT ![c] = Idle]
      /\ UNCHANGED <<store, account, ended, exempt>>
  BY DEF RefreshIssues, SaveRefreshToken, Goes, Issuing, site
<1>2. /\ u \in Users /\ r \in Jtis
      /\ root[r] = r /\ user[r] = u
  BY <1>1, CallFields DEF IInv, Flights
<1>3. /\ row[j] = "absent" /\ ended[j] = "open"
      /\ \A k \in Jtis : root[k] # j
      /\ \A d \in Clients : Issuing(d) => call[d].session # j
      /\ \A d \in Clients : call[d].at = "consume" => call[d].jti # j
  BY <1>1, NewJti
<1>4. /\ root'[j] = r /\ user'[j] = u /\ row'[j] = "fresh"
      /\ \A k \in Jtis : k # j =>
           root'[k] = root[k] /\ user'[k] = user[k] /\ row'[k] = row[k]
  BY <1>1 DEF IInv, TypeOK
<1>5. /\ ~Issuing(c)' /\ call'[c] = Idle
      /\ \A d \in Clients : d # c => call'[d] = call[d]
  BY <1>1 DEF IInv, TypeOK, Issuing, Idle
<1>6. Chains'
  BY <1>1, <1>2, <1>3, <1>4, NoJtiAssumption DEF IInv, Chains
<1>7. TypeOK'
  <2>1. \A k \in Jtis :
         row'[k] # "absent" => user'[k] \in Users /\ user'[root'[k]] = user'[k]
    BY <1>6 DEF Chains
  <2> QED
    BY <1>1, <1>2, <2>1 DEF IInv, TypeOK, Call
<1>8. Flights'
  <2>1. r # NoJti
    BY <1>2, NoJtiAssumption
  <2>2. ASSUME NEW d \in Clients, call'[d].at = "consume"
        PROVE  root'[call'[d].jti] # NoJti
    <3>1. d # c /\ call'[d] = call[d]
      BY <1>5, <2>2 DEF Idle
    <3>2. call[d].jti \in Jtis /\ call[d].jti # j /\ root[call[d].jti] # NoJti
      BY <1>3, <2>2, <3>1, CallFields DEF IInv, Flights
    <3> QED
      BY <1>4, <3>1, <3>2
  <2>3. ASSUME NEW d \in Clients, Issuing(d)'
        PROVE  /\ root'[call'[d].session] = call'[d].session
               /\ user'[call'[d].session] = call'[d].user
    <3>1. d # c /\ call'[d] = call[d] /\ Issuing(d)
      BY <1>5, <2>3 DEF Issuing
    <3>2. /\ call[d].session \in Jtis /\ call[d].session # j
          /\ root[call[d].session] = call[d].session
          /\ user[call[d].session] = call[d].user
      BY <1>3, <3>1, CallFields DEF IInv, Flights
    <3> QED
      BY <1>4, <3>1, <3>2
  <2> QED
    BY <2>2, <2>3 DEF Flights
<1>9. OneWay'
  BY <1>1, <1>2, <1>3, <1>4, <1>5 DEF IInv, OneWay, Fresh, Issuing
<1>10. WaysOpen'
  BY <1>1, <1>2, <1>3, <1>4, <1>5 DEF IInv, WaysOpen, Fresh, Issuing
<1>11. WaysOver'
  BY <1>1, <1>2, <1>3, <1>4, <1>5 DEF IInv, WaysOver, Fresh, Issuing
<1> QED
  BY <1>6, <1>7, <1>8, <1>9, <1>10, <1>11 DEF IInv

(* A refresh that ends without inserting its token leaves nothing either.   *)
LEMMA RefreshIssueFailsIInv ==
  ASSUME IInv, NEW c \in Clients, RefreshIssueFails(c)
  PROVE  IInv'
<1> DEFINE s == call[c].session
<1>1. /\ Issuing(c)
      /\ LoseSessions({s})
      /\ call' = [call EXCEPT ![c] = Idle]
      /\ UNCHANGED <<store, account, row, user, root>>
  BY DEF RefreshIssueFails, Goes, Issuing, site
<1>2. s \in Jtis /\ root[s] = s
  BY <1>1, CallFields DEF IInv, Flights
<1>3. /\ ~Issuing(c)' /\ call'[c] = Idle
      /\ \A d \in Clients : d # c => call'[d] = call[d]
  BY <1>1 DEF IInv, TypeOK, Issuing, Idle
<1>4. /\ exempt' = exempt \ {s}
      /\ \A r \in Jtis : ended'[r] = IF r = s /\ ended[r] = "open"
                                       THEN "lost" ELSE ended[r]
  BY <1>1 DEF LoseSessions
<1>5. TypeOK'
  BY <1>1, <1>4 DEF IInv, TypeOK, LoseSessions, Call
<1>6. Chains'
  BY <1>1, <1>2, <1>4, NoJtiAssumption DEF IInv, Chains
<1>7. Flights'
  BY <1>1, <1>3 DEF IInv, Flights, Issuing, Idle
<1>8. OneWay'
  BY <1>1, <1>3 DEF IInv, OneWay, Fresh, Issuing
<1>9. WaysOpen'
  BY <1>1, <1>3, <1>4 DEF IInv, WaysOpen, Fresh, Issuing
<1>10. WaysOver'
  BY <1>1, <1>3, <1>4 DEF IInv, WaysOver, OneWay, Fresh, Issuing
<1> QED
  BY <1>5, <1>6, <1>7, <1>8, <1>9, <1>10 DEF IInv

(* Ending the sessions of a user consumes the tokens of those sessions and  *)
(* of no other.  A call that ends with it was not issuing.                  *)
LEMMA RevokeAllIInv ==
  ASSUME IInv, NEW u \in Users, NEW how \in {"burned", "loggedOut"},
         RevokeAll(u, how),
         call' \in [Clients -> Call],
         \A c \in Clients :
           call'[c] = call[c] \/ (~Issuing(c) /\ call'[c] = Idle),
         UNCHANGED <<store, account, user, root>>
  PROVE  IInv'
<1>1. \A r \in Jtis : r \in SessionsOf(u) <=> root[r] = r /\ user[r] = u
  BY SessionRoots DEF SessionsOf, Sessions, IInv, Chains
<1>2. \A j \in Jtis :
        /\ Fresh(j)' <=> (Fresh(j) /\ user[j] # u)
        /\ row'[j] = "absent" <=> row[j] = "absent"
  BY DEF RevokeAll, Fresh, IInv, TypeOK
<1>3. \A r \in Jtis : ended'[r] = IF root[r] = r /\ user[r] = u THEN how ELSE ended[r]
  BY <1>1 DEF RevokeAll, EndSessions
<1>4. \A r \in Jtis :
        r \in exempt' <=> IF root[r] = r /\ user[r] = u
                          THEN \E c \in Clients : Issuing(c) /\ call[c].session = r
                          ELSE r \in exempt
  BY <1>1 DEF RevokeAll, EndSessions, Rotating, Issuing
<1>5. \A c \in Clients :
        /\ Issuing(c)' <=> Issuing(c)
        /\ Issuing(c) => call'[c] = call[c]
  BY DEF Issuing, Idle
<1>6. Chains'
  BY <1>2, <1>3, NoJtiAssumption DEF IInv, Chains
<1>7. TypeOK'
  <2>1. row' \in [Jtis -> {"absent", "fresh", "consumed"}]
    BY DEF RevokeAll, IInv, TypeOK
  <2>2. ended' \in [Jtis -> {"open", "burned", "loggedOut", "lost"}]
    BY DEF RevokeAll, EndSessions, IInv, TypeOK
  <2>3. exempt' \subseteq Jtis
    BY <1>1 DEF RevokeAll, EndSessions, IInv, TypeOK, SessionsOf, Sessions
  <2>4. \A k \in Jtis :
         row'[k] # "absent" => user'[k] \in Users /\ user'[root'[k]] = user'[k]
    BY <1>6 DEF Chains
  <2> QED
    BY <2>1, <2>2, <2>3, <2>4 DEF IInv, TypeOK
<1>8. Flights'
  BY <1>5 DEF IInv, Flights, Issuing, Idle
<1>9. OneWay'
  BY <1>2, <1>5 DEF IInv, OneWay
<1>10. WaysOpen'
  BY <1>2, <1>3, <1>5 DEF IInv, Chains, WaysOpen, Fresh
<1>11. WaysOver'
  BY <1>2, <1>3, <1>4, <1>5 DEF IInv, Chains, WaysOver, Fresh
<1> QED
  BY <1>6, <1>7, <1>8, <1>9, <1>10, <1>11 DEF IInv

(* A restart loses the sessions that were between two tokens, and with      *)
(* store.Memory all of them.                                                *)
LEMMA RestartIInv ==
  ASSUME IInv, Restart
  PROVE  IInv'
<1> DEFINE lost == IF store = "postgres" THEN {r \in Sessions : Rotating(r) # {}}
                                         ELSE Sessions
<1>1. /\ call' = [c \in Clients |-> Idle]
      /\ account' \in [Users -> {"new", "known", "lost"}]
      /\ IF store = "postgres" THEN row' = row ELSE row' = [j \in Jtis |-> "absent"]
      /\ LoseSessions(lost)
      /\ UNCHANGED <<store, user, root>>
  BY DEF Restart, IInv, TypeOK
<1>2. \A c \in Clients : ~Issuing(c)' /\ call'[c] = Idle
  BY <1>1 DEF Issuing, Idle
<1>3. \A j \in Jtis :
        /\ Fresh(j)' <=> (Fresh(j) /\ store = "postgres")
        /\ row[j] = "absent" => row'[j] = "absent"
  BY <1>1 DEF Fresh, IInv, TypeOK
<1>4. /\ exempt' = exempt \ lost
      /\ \A r \in Jtis : ended'[r] = IF r \in lost /\ ended[r] = "open"
                                       THEN "lost" ELSE ended[r]
  BY <1>1 DEF LoseSessions
<1>5. ASSUME NEW r \in Jtis
      PROVE  r \in lost <=>
               /\ root[r] = r
               /\ \/ store # "postgres"
                  \/ \E c \in Clients : Issuing(c) /\ call[c].session = r
  BY SessionRoots DEF Rotating, Issuing
<1>6. TypeOK'
  <2>1. ended' \in [Jtis -> {"open", "burned", "loggedOut", "lost"}]
    BY <1>1 DEF LoseSessions, IInv, TypeOK
  <2> QED
    BY <1>1, <1>4, <2>1 DEF IInv, TypeOK, Call
<1>7. Chains'
  BY <1>1, <1>3, <1>4, <1>5, NoJtiAssumption DEF IInv, Chains
<1>8. Flights'
  BY <1>2 DEF Flights, Idle
<1>9. OneWay'
  BY <1>1, <1>2, <1>3 DEF IInv, OneWay
<1>10. WaysOpen'
  BY <1>1, <1>3, <1>4, <1>5 DEF IInv, WaysOpen
<1>11. WaysOver'
  BY <1>1, <1>2, <1>3, <1>4, <1>5 DEF IInv, WaysOver, OneWay
<1> QED
  BY <1>6, <1>7, <1>8, <1>9, <1>10, <1>11 DEF IInv

-----------------------------------------------------------------------------
(* The invariant is inductive.                                              *)
LEMMA NextIInv == IInv /\ [Next]_vars => IInv'
<1> SUFFICES ASSUME IInv, [Next]_vars PROVE IInv'
  OBVIOUS
<1>1. CASE UNCHANGED vars
  BY <1>1 DEF vars, IInv, TypeOK, Chains, Flights, OneWay, WaysOpen, WaysOver,
     Fresh, Issuing
<1>2. ASSUME NEW u \in Users, Signup(u) PROVE IInv'
  BY <1>2, SignupIInv
<1>3. ASSUME NEW u \in Users, Logout(u) PROVE IInv'
  <2>1. /\ RevokeAll(u, "loggedOut")
        /\ UNCHANGED <<store, account, call, user, root>>
    BY <1>3 DEF Logout, site
  <2>2. call' \in [Clients -> Call]
    BY <2>1 DEF IInv, TypeOK
  <2> QED
    BY <2>1, <2>2, RevokeAllIInv
<1>4. ASSUME NEW u \in Users, NEW j \in Jtis, Login(u, j) PROVE IInv'
  BY <1>4, LoginIInv
<1>5. ASSUME NEW c \in Clients, Refresh(c) PROVE IInv'
  <2>1. Idle \in Call /\ Idle.at = "idle"
    BY DEF Idle, Call
  <2>2. ASSUME NEW j \in Jtis, RefreshArrives(c, j) PROVE IInv'
    <3> DEFINE s == [at |-> "consume", jti |-> j]
    <3>1. s \in Call /\ s.at = "consume" /\ s.jti = j
      BY DEF Call
    <3>2. ~Issuing(c) /\ root[j] # NoJti /\ Goes(c, s)
      BY <2>1, <2>2 DEF RefreshArrives, Issuing
    <3>3. UNCHANGED <<site, row, user, ghosts>>
      BY <2>2 DEF RefreshArrives
    <3> HIDE DEF s
    <3> QED
      BY <3>1, <3>2, <3>3, CallOnly
  <2>3. ASSUME NEW j \in Jtis, RefreshIssues(c, j) PROVE IInv'
    BY <2>3, RefreshIssuesIInv
  <2>4. ASSUME RefreshUnknown(c) \/ RefreshBurnFails(c) PROVE IInv'
    <3>1. ~Issuing(c) /\ Goes(c, Idle) /\ UNCHANGED <<site, row, user, ghosts>>
      BY <2>4 DEF RefreshUnknown, RefreshBurnFails, Issuing
    <3> QED
      BY <2>1, <3>1, CallOnly
  <2>5. ASSUME RefreshConsumes(c) PROVE IInv'
    BY <2>5, RefreshConsumesIInv
  <2>6. ASSUME RefreshConsumeLost(c) PROVE IInv'
    BY <2>6, RefreshConsumeLostIInv
  <2>7. ASSUME RefreshReplayed(c) PROVE IInv'
    <3> DEFINE j == call[c].jti
               s == [at |-> "burn", user |-> user[j]]
    <3>1. call[c].at = "consume" /\ j \in Jtis /\ row[j] = "consumed"
      BY <2>7, CallFields DEF RefreshReplayed, Presented, IInv
    <3>2. user[j] \in Users
      BY <3>1 DEF IInv, Chains
    <3>3. CASE store = "postgres"
      <4>1. s \in Call /\ s.at = "burn"
        BY <3>2 DEF Call
      <4>2. ~Issuing(c) /\ Goes(c, s) /\ UNCHANGED <<site, row, user, ghosts>>
        BY <2>7, <3>1, <3>3 DEF RefreshReplayed, Presented, Issuing, ghosts
      <4> HIDE DEF s
      <4> QED
        BY <4>1, <4>2, CallOnly
    <3>4. CASE store # "postgres"
      <4>1. /\ RevokeAll(user[j], "burned") /\ Goes(c, Idle)
            /\ UNCHANGED <<store, account, user, root>>
        BY <2>7, <3>4 DEF RefreshReplayed, Presented, site
      <4>2. /\ call' \in [Clients -> Call]
            /\ \A d \in Clients :
                 call'[d] = call[d] \/ (~Issuing(d) /\ call'[d] = Idle)
        BY <2>1, <3>1, <4>1 DEF Goes, IInv, TypeOK, Issuing
      <4> QED
        BY <3>2, <4>1, <4>2, RevokeAllIInv
    <3> QED
      BY <3>3, <3>4
  <2>8. ASSUME RefreshBurns(c) PROVE IInv'
    <3>1. /\ call[c].at = "burn"
          /\ RevokeAll(call[c].user, "burned") /\ Goes(c, Idle)
          /\ UNCHANGED <<store, account, user, root>>
      BY <2>8 DEF RefreshBurns, site
    <3>2. call[c].user \in Users
      BY <3>1, CallFields DEF IInv
    <3>3. /\ call' \in [Clients -> Call]
          /\ \A d \in Clients :
               call'[d] = call[d] \/ (~Issuing(d) /\ call'[d] = Idle)
      BY <2>1, <3>1 DEF Goes, IInv, TypeOK, Issuing
    <3> QED
      BY <3>1, <3>2, <3>3, RevokeAllIInv
  <2>9. ASSUME RefreshIssueFails(c) PROVE IInv'
    BY <2>9, RefreshIssueFailsIInv
  <2> QED
    BY <1>5, <2>2, <2>3, <2>4, <2>5, <2>6, <2>7, <2>8, <2>9 DEF Refresh
<1>6. ASSUME Restart PROVE IInv'
  BY <1>6, RestartIInv
<1> QED
  BY <1>1, <1>2, <1>3, <1>4, <1>5, <1>6 DEF Next

(* The strengthened invariant of the sessions holds.                        *)
THEOREM Invariance == Spec => []IInv
BY InitIInv, NextIInv, PTL DEF Spec

(* Accounts, rows and requests in flight keep their types; every row in the *)
(* table is a user's, and the rows of a session are all the same user's.    *)
THEOREM TypeCorrect == Spec => []TypeOK
<1>1. IInv => TypeOK
  BY DEF IInv
<1> QED
  BY Invariance, <1>1, PTL

(* A refresh token is valid exactly once (router.go:176): a session never   *)
(* has two ways to go on.                                                   *)
THEOREM NeverForks == Spec => []SessionNeverForks
<1>1. ASSUME IInv PROVE SessionNeverForks
  <2>1. Sessions \subseteq Jtis
    BY <1>1 DEF Sessions, IInv, TypeOK
  <2> QED
    BY <1>1, <2>1 DEF SessionNeverForks, FreshTokens, Rotating, IInv, OneWay, Fresh, Issuing
<1> QED
  BY Invariance, <1>1, PTL

(* A session nobody ended and nothing lost has a token or a refresh.        *)
THEOREM GoesOn == Spec => []OpenSessionGoesOn
<1>1. ASSUME IInv PROVE OpenSessionGoesOn
  <2> SUFFICES ASSUME NEW r \in Sessions, ended[r] = "open"
               PROVE  FreshTokens(r) # {} \/ Rotating(r) # {}
    BY DEF OpenSessionGoesOn
  <2>1. r \in Jtis /\ root[r] = r
    BY <1>1, SessionRoots DEF Sessions, IInv, TypeOK
  <2> QED
    BY <1>1, <2>1 DEF IInv, WaysOpen, FreshTokens, Rotating, Fresh, Issuing
<1> QED
  BY Invariance, <1>1, PTL

(* An ended session stays so, but for the refresh a burn or a logout        *)
(* missed (router.go:189-194).                                              *)
THEOREM StaysEnded == Spec => []EndedSessionStaysEnded
<1>1. ASSUME IInv PROVE EndedSessionStaysEnded
  <2> SUFFICES ASSUME NEW r \in Sessions, ended[r] # "open", r \notin exempt
               PROVE  FreshTokens(r) = {} /\ Rotating(r) = {}
    BY DEF EndedSessionStaysEnded
  <2>1. r \in Jtis /\ root[r] = r
    BY <1>1, SessionRoots DEF Sessions, IInv, TypeOK
  <2> QED
    BY <1>1, <2>1 DEF IInv, WaysOver, FreshTokens, Rotating, Fresh, Issuing
<1> QED
  BY Invariance, <1>1, PTL

-----------------------------------------------------------------------------
(* What may take a token's freshness away, in one step.                     *)
LEMMA FreshnessLost ==
  ASSUME IInv, Next, NEW j \in Jtis, Fresh(j), ~Fresh(j)'
  PROVE  \/ \E c \in Clients : call[c] = [at |-> "consume", jti |-> j]
                                 /\ call'[c].at = "issue"
         \/ ended'[root[j]] # "open"
<1> DEFINE Goal ==
      \/ \E c \in Clients : call[c] = [at |-> "consume", jti |-> j]
                              /\ call'[c].at = "issue"
      \/ ended'[root[j]] # "open"
<1>1. /\ root[j] \in Jtis /\ root[root[j]] = root[j]
      /\ user[j] \in Users /\ user[root[j]] = user[j]
  BY DEF IInv, Chains, Fresh
<1>2. root[j] \in Sessions
  BY <1>1, SessionRoots
<1>3. ASSUME NEW u \in Users, NEW how \in {"burned", "loggedOut"}, RevokeAll(u, how)
      PROVE  Goal
  <2>1. user[j] = u
    BY <1>3 DEF RevokeAll, Fresh, IInv, TypeOK
  <2>2. root[j] \in SessionsOf(u)
    BY <1>1, <1>2, <2>1 DEF SessionsOf
  <2> QED
    BY <1>1, <1>3, <2>2 DEF RevokeAll, EndSessions
<1>4. ASSUME NEW S, root[j] \in S, LoseSessions(S)
      PROVE  Goal
  BY <1>1, <1>4 DEF LoseSessions
<1>5. ASSUME NEW u \in Users, Signup(u) PROVE FALSE
  BY <1>5 DEF Signup, Fresh
<1>6. ASSUME NEW u \in Users, Logout(u) PROVE Goal
  BY <1>3, <1>6 DEF Logout
<1>7. ASSUME NEW u \in Users, NEW k \in Jtis, Login(u, k) PROVE FALSE
  BY <1>7 DEF Login, SaveRefreshToken, Fresh, IInv, TypeOK
<1>8. ASSUME NEW c \in Clients, Refresh(c) PROVE Goal
  <2>1. ASSUME NEW k \in Jtis, RefreshArrives(c, k) \/ RefreshIssues(c, k)
        PROVE  FALSE
    BY <2>1 DEF RefreshArrives, RefreshIssues, SaveRefreshToken, Fresh, IInv, TypeOK
  <2>2. ASSUME RefreshUnknown(c) \/ RefreshBurnFails(c) \/ RefreshIssueFails(c)
        PROVE  FALSE
    BY <2>2 DEF RefreshUnknown, RefreshBurnFails, RefreshIssueFails, Fresh
  <2>3. CASE RefreshConsumes(c)
    <3>1. call[c].at = "consume" /\ call[c].jti = j
      BY <2>3 DEF RefreshConsumes, Presented, Fresh, IInv, TypeOK
    <3>2. call[c] = [at |-> "consume", jti |-> j]
      BY <3>1, CallFields DEF IInv
    <3>3. call'[c].at = "issue"
      BY <2>3 DEF RefreshConsumes, Goes, IInv, TypeOK
    <3> QED
      BY <3>2, <3>3
  <2>4. CASE RefreshConsumeLost(c)
    <3>1. call[c].jti = j
      BY <2>4 DEF RefreshConsumeLost, Presented, Fresh, IInv, TypeOK
    <3> QED
      BY <1>4, <2>4, <3>1 DEF RefreshConsumeLost, Presented
  <2>5. CASE RefreshReplayed(c)
    <3>1. user[call[c].jti] \in Users
      BY <2>5, CallFields DEF RefreshReplayed, Presented, IInv, Chains
    <3> QED
      BY <1>3, <2>5, <3>1 DEF RefreshReplayed, Presented, Fresh
  <2>6. CASE RefreshBurns(c)
    <3>1. call[c].user \in Users
      BY <2>6, CallFields DEF RefreshBurns, IInv
    <3> QED
      BY <1>3, <2>6, <3>1 DEF RefreshBurns
  <2> QED
    BY <1>8, <2>1, <2>2, <2>3, <2>4, <2>5, <2>6 DEF Refresh
<1>9. ASSUME Restart PROVE Goal
  <2>1. CASE store = "postgres"
    BY <1>9, <2>1 DEF Restart, Fresh
  <2>2. CASE store # "postgres"
    BY <1>2, <1>4, <1>9, <2>2 DEF Restart
  <2> QED
    BY <2>1, <2>2
<1> QED
  BY <1>5, <1>6, <1>7, <1>8, <1>9 DEF Next

(* A fresh token is revoked only when it is itself presented, or when its   *)
(* own session is ended or lost: nobody else's calls take it away.          *)
THEOREM RevokedByOwner == Spec => TokensRevokedByTheirUser
<1> DEFINE Step == \A j \in Jtis :
        row[j] = "fresh" /\ row'[j] # "fresh" =>
          \/ \E c \in Clients : call[c] = [at |-> "consume", jti |-> j]
                                  /\ call'[c].at = "issue"
          \/ ended'[root[j]] # "open"
<1>1. ASSUME IInv, [Next]_vars PROVE [Step]_vars
  <2>1. CASE UNCHANGED vars
    BY <2>1
  <2>2. CASE Next
    BY <1>1, <2>2, FreshnessLost DEF Fresh
  <2> QED
    BY <1>1, <2>1, <2>2
<1> HIDE DEF Step
<1>2. Spec => [][Step]_vars
  BY Invariance, <1>1, PTL DEF Spec
<1> QED
  BY <1>2 DEF TokensRevokedByTheirUser, Step

-----------------------------------------------------------------------------
(* The sessions implement the session book.                                 *)

HasToken(r) == \E j \in Jtis : Fresh(j) /\ root[j] = r

HasRefresh(r) == \E c \in Clients : Issuing(c) /\ call[c].session = r

\* How a session stands, said of its tokens and refreshes.
Stands(r) == IF root[r] # r THEN "none"
             ELSE IF HasToken(r) THEN "open"
             ELSE IF HasRefresh(r) THEN "moving" ELSE "over"

(* No session has forked, so Standing and Stands agree.                     *)
LEMMA StandingRead ==
  /\ IInv => \A r \in Jtis : Standing(r) = Stands(r)
  /\ IInv' => (\A r \in Jtis : Standing(r) = Stands(r))'
<1>1. ASSUME IInv, NEW r \in Jtis PROVE Standing(r) = Stands(r)
  <2>1. r \in Sessions <=> root[r] = r
    BY <1>1, SessionRoots
  <2>2. /\ FreshTokens(r) # {} <=> HasToken(r)
        /\ Rotating(r) # {} <=> HasRefresh(r)
    BY DEF FreshTokens, Rotating, HasToken, HasRefresh, Fresh, Issuing
  <2>3. ~(HasToken(r) /\ HasRefresh(r))
    BY <1>1 DEF HasToken, HasRefresh, IInv, OneWay
  <2> QED
    BY <2>1, <2>2, <2>3 DEF Standing, Stands
<1>2. IInv => \A r \in Jtis : Standing(r) = Stands(r)
  BY <1>1
<1> QED
  BY <1>2, PTL

Stand == [r \in Jtis |-> Standing(r)]

Owner == [r \in Jtis |-> IF r \in Sessions THEN user[r] ELSE NoUser]

Told == {r \in Jtis : ended[r] \in {"burned", "loggedOut"}}

(* A session turns when it stands otherwise and every other stands as it    *)
(* did.                                                                     *)
LEMMA Turn ==
  ASSUME IInv, IInv', NEW r \in Jtis, NEW to, NEW from, Stands(r) = from, Stands(r)' = to,
         \A s \in Jtis : s # r => Stands(s)' = Stands(s)
  PROVE  SB!Turns(r, from, to)
BY StandingRead DEF SB!Turns

(* Whose the sessions are changes only with a login.                        *)
LEMMA OwnersKept ==
  ASSUME UNCHANGED <<store, user, root>>
  PROVE  UNCHANGED <<store = "postgres", Owner>>
BY DEF Owner, Sessions

(* No session stands before the first login.                                *)
LEMMA InitBook == Init => SB!Init
<1> SUFFICES ASSUME Init PROVE SB!Init
  OBVIOUS
<1>1. Sessions = {}
  BY DEF Init, Sessions
<1>2. [r \in Jtis |-> Standing(r)] = [r \in Jtis |-> "none"]
  BY <1>1 DEF Standing
<1>3. {r \in Jtis : ended[r] \in {"burned", "loggedOut"}} = {}
  BY DEF Init
<1> QED
  BY <1>1, <1>2, <1>3 DEF SB!Init

(* A session that is lost was not told to end.                              *)
LEMMA ToldKept ==
  ASSUME NEW S, LoseSessions(S)
  PROVE  UNCHANGED Told
BY DEF LoseSessions, Told

(* A login opens a session in the user's name.                              *)
LEMMA LoginBook ==
  ASSUME IInv, IInv', NEW u \in Users, NEW j \in Jtis, Login(u, j)
  PROVE  SB!Open(u, j)
<1>1. /\ root[j] = NoJti
      /\ UNCHANGED <<store, call, ended>>
      /\ root'[j] = j /\ user'[j] = u /\ row'[j] = "fresh"
      /\ \A k \in Jtis : k # j =>
           root'[k] = root[k] /\ user'[k] = user[k] /\ row'[k] = row[k]
  BY DEF Login, SaveRefreshToken, site, IInv, TypeOK
<1>2. row[j] = "absent" /\ \A k \in Jtis : root[k] # j
  BY <1>1, NewJti
<1>3. Stands(j) = "none" /\ Stands(j)' = "open"
  BY <1>1, NoJtiAssumption DEF Stands, HasToken, Fresh
<1>4. ASSUME NEW r \in Jtis, r # j PROVE Stands(r)' = Stands(r)
  BY <1>1, <1>2, <1>4 DEF Stands, HasToken, HasRefresh, Fresh, Issuing
<1>5. SB!Turns(j, "none", "open")
  BY <1>3, <1>4, Turn
<1>6. \A r \in Jtis : Owner'[r] = IF r = j THEN u ELSE Owner[r]
  <2>1. \A r \in Jtis : /\ r \in Sessions <=> root[r] = r
                        /\ r \in Sessions' <=> root'[r] = r
    BY <1>1, <1>2, NoJtiAssumption, SessionRoots DEF Sessions, IInv, Chains
  <2> QED
    BY <1>1, <2>1 DEF Owner
<1>7. Owner' = [Owner EXCEPT ![j] = u]
  BY <1>6 DEF Owner
<1> QED
  BY <1>1, <1>5, <1>7 DEF SB!Open, Owner

(* A consume sets the session moving.                                       *)
LEMMA ConsumeBook ==
  ASSUME IInv, IInv', NEW c \in Clients, RefreshConsumes(c)
  PROVE  \E s \in Jtis : SB!Depart(s)
<1>0. /\ call[c].at = "consume" /\ Fresh(call[c].jti) /\ call[c].jti \in Jtis
      /\ root[call[c].jti] \in Jtis
  BY CallFields DEF RefreshConsumes, Presented, Fresh, IInv, Chains
<1> PICK j \in Jtis, s \in Jtis : call[c].jti = j /\ root[j] = s
  BY <1>0
<1>1. /\ call[c].at = "consume" /\ Fresh(j)
      /\ UNCHANGED <<store, user, root>>
      /\ \A k \in Jtis : Fresh(k)' <=> Fresh(k) /\ k # j
      /\ Issuing(c)' /\ ~Issuing(c) /\ call'[c].session = s
      /\ \A d \in Clients : d # c => call'[d] = call[d]
  BY <1>0 DEF RefreshConsumes, Presented, Goes, Fresh, Issuing, site, IInv, TypeOK
<1>2. root[s] = s
  BY <1>1 DEF IInv, Chains, Fresh
<1>3. HasToken(s) /\ ~HasToken(s)' /\ HasRefresh(s)'
  BY <1>1 DEF HasToken, HasRefresh, IInv, OneWay
<1>4. ASSUME NEW r \in Jtis, r # s PROVE Stands(r)' = Stands(r)
  BY <1>1, <1>4 DEF Stands, HasToken, HasRefresh, Issuing
<1>5. Stands(s) = "open" /\ Stands(s)' = "moving"
  BY <1>1, <1>2, <1>3 DEF Stands
<1>6. SB!Turns(s, "open", "moving")
  BY <1>2, <1>4, <1>5, Turn
<1> QED
  BY <1>0, <1>1, <1>6, OwnersKept DEF SB!Depart, Owner, RefreshConsumes

(* A consume whose answer is lost ends it: its one token is spent.          *)
LEMMA ConsumeLostBook ==
  ASSUME IInv, IInv', NEW c \in Clients, RefreshConsumeLost(c)
  PROVE  \E s \in Jtis : SB!Lose(s)
<1>0. /\ call[c].at = "consume" /\ Fresh(call[c].jti) /\ call[c].jti \in Jtis
      /\ root[call[c].jti] \in Jtis
  BY CallFields DEF RefreshConsumeLost, Presented, Fresh, IInv, Chains
<1> PICK j \in Jtis, s \in Jtis : call[c].jti = j /\ root[j] = s
  BY <1>0
<1>1. /\ StoreFails /\ Fresh(j)
      /\ UNCHANGED <<store, user, root>>
      /\ \A k \in Jtis : Fresh(k)' <=> Fresh(k) /\ k # j
      /\ \A d \in Clients : (Issuing(d)' <=> Issuing(d)) /\ (Issuing(d) => call'[d] = call[d])
  BY <1>0 DEF RefreshConsumeLost, Presented, Goes, Fresh, Issuing, Idle, site, IInv, TypeOK
<1>2. root[s] = s
  BY <1>1 DEF IInv, Chains, Fresh
<1>3. HasToken(s) /\ ~HasRefresh(s) /\ ~HasToken(s)' /\ ~HasRefresh(s)'
  BY <1>1 DEF HasToken, HasRefresh, IInv, OneWay
<1>4. ASSUME NEW r \in Jtis, r # s PROVE Stands(r)' = Stands(r)
  BY <1>1, <1>4 DEF Stands, HasToken, HasRefresh
<1>5. Stands(s) = "open" /\ Stands(s)' = "over"
  BY <1>1, <1>2, <1>3 DEF Stands
<1>6. SB!Turns(s, "open", "over")
  BY <1>2, <1>4, <1>5, Turn
<1> QED
  BY <1>1, <1>6, OwnersKept, ToldKept DEF SB!Lose, Owner, Told, StoreFails, RefreshConsumeLost

(* The token inserted settles the session again.                            *)
LEMMA IssueBook ==
  ASSUME IInv, IInv', NEW c \in Clients, NEW j \in Jtis, RefreshIssues(c, j)
  PROVE  \E s \in Jtis : SB!Arrive(s)
<1>1. Issuing(c) /\ call[c].session \in Jtis
  BY CallFields DEF RefreshIssues, Issuing, IInv
<1> PICK s \in Jtis : call[c].session = s
  BY <1>1
<1>2. /\ root[s] = s /\ user[s] = call[c].user /\ user[s] \in Users
      /\ s # j
  BY <1>1, CallFields, NoJtiAssumption DEF RefreshIssues, SaveRefreshToken, IInv, Flights
<1>3. /\ root[j] = NoJti
      /\ UNCHANGED store
      /\ root'[j] = s /\ row'[j] = "fresh"
      /\ \A k \in Jtis : k # j =>
           root'[k] = root[k] /\ user'[k] = user[k] /\ row'[k] = row[k]
      /\ ~Issuing(c)'
      /\ \A d \in Clients : d # c => call'[d] = call[d]
  BY <1>1 DEF RefreshIssues, SaveRefreshToken, Goes, Issuing, Idle, site, IInv, TypeOK
<1>4. row[j] = "absent" /\ \A k \in Jtis : root[k] # j
  BY <1>3, NewJti
<1>5. /\ HasRefresh(s) /\ ~HasToken(s)
      /\ HasToken(s)'
  BY <1>1, <1>3 DEF HasToken, HasRefresh, Fresh, IInv, OneWay
<1>6. ASSUME NEW r \in Jtis, r # s PROVE Stands(r)' = Stands(r)
  <2>1. root'[r] = r <=> root[r] = r
    BY <1>2, <1>3, <1>6, NoJtiAssumption
  <2>2. HasToken(r)' <=> HasToken(r)
    BY <1>3, <1>4, <1>6 DEF HasToken, Fresh
  <2>3. HasRefresh(r)' <=> HasRefresh(r)
    BY <1>1, <1>3, <1>6 DEF HasRefresh, Issuing
  <2> QED
    BY <2>1, <2>2, <2>3 DEF Stands
<1>7. Stands(s) = "moving" /\ Stands(s)' = "open"
  BY <1>2, <1>3, <1>5 DEF Stands
<1>8. SB!Turns(s, "moving", "open")
  BY <1>6, <1>7, Turn
<1>9. Owner' = Owner
  <2>1. ASSUME NEW r \in Jtis PROVE (r \in Sessions <=> root[r] = r) /\ (r \in Sessions' <=> root'[r] = r)
    BY <1>2, <1>3, <1>4, NoJtiAssumption, SessionRoots DEF Sessions, IInv, Chains
  <2>2. ASSUME NEW r \in Jtis PROVE Owner'[r] = Owner[r]
    BY <1>2, <1>3, <1>4, <2>1, NoJtiAssumption DEF Owner
  <2> QED
    BY <2>2 DEF Owner
<1> QED
  BY <1>3, <1>8, <1>9 DEF SB!Arrive, Owner, RefreshIssues

(* A refresh that cannot insert its token is the end of its session.        *)
LEMMA IssueFailsBook ==
  ASSUME IInv, IInv', NEW c \in Clients, RefreshIssueFails(c)
  PROVE  \E s \in Jtis : SB!Lose(s)
<1>1. Issuing(c) /\ call[c].session \in Jtis
  BY CallFields DEF RefreshIssueFails, Issuing, IInv
<1> PICK s \in Jtis : call[c].session = s
  BY <1>1
<1>2. root[s] = s
  BY <1>1 DEF IInv, Flights
<1>3. /\ StoreFails /\ ~Issuing(c)'
      /\ UNCHANGED <<store, row, user, root>>
      /\ \A d \in Clients : d # c => call'[d] = call[d]
  BY DEF RefreshIssueFails, Goes, Issuing, Idle, site, IInv, TypeOK
<1>4. HasRefresh(s) /\ ~HasToken(s) /\ ~HasToken(s)' /\ ~HasRefresh(s)'
  BY <1>1, <1>3 DEF HasToken, HasRefresh, Fresh, Issuing, IInv, OneWay
<1>5. ASSUME NEW r \in Jtis, r # s PROVE Stands(r)' = Stands(r)
  BY <1>1, <1>3, <1>5 DEF Stands, HasToken, HasRefresh, Fresh, Issuing
<1>6. Stands(s) = "moving" /\ Stands(s)' = "over"
  BY <1>2, <1>3, <1>4 DEF Stands
<1>7. SB!Turns(s, "moving", "over")
  BY <1>5, <1>6, Turn
<1> QED
  BY <1>3, <1>7, OwnersKept, ToldKept DEF SB!Lose, Owner, Told, StoreFails, RefreshIssueFails

(* A logout or a burn ends the open sessions of its user, and no other.     *)
LEMMA RevokeAllBook ==
  ASSUME IInv, IInv', NEW u \in Users, NEW how \in {"burned", "loggedOut"},
         RevokeAll(u, how),
         \A c \in Clients : (Issuing(c)' <=> Issuing(c)) /\ (Issuing(c) => call'[c] = call[c]),
         UNCHANGED <<store, user, root>>
  PROVE  SB!EndAll(u)
<1>1. \A j \in Jtis : Fresh(j)' <=> (Fresh(j) /\ user[j] # u)
  BY DEF RevokeAll, Fresh, IInv, TypeOK
<1>2. ASSUME NEW r \in Jtis
      PROVE  Stands(r)' = IF Owner[r] = u /\ Stands(r) = "open" THEN "over" ELSE Stands(r)
  <2>1. HasRefresh(r)' <=> HasRefresh(r)
    BY DEF HasRefresh
  <2>2. HasToken(r)' <=> HasToken(r) /\ user[r] # u
    BY <1>1 DEF HasToken, IInv, Chains, Fresh
  <2>3. ~(HasToken(r) /\ HasRefresh(r))
    BY DEF HasToken, HasRefresh, IInv, OneWay
  <2>4. root[r] = r => Owner[r] = user[r]
    BY SessionRoots DEF Owner
  <2> QED
    BY <2>1, <2>2, <2>3, <2>4 DEF Stands
<1>3. ASSUME NEW r \in Jtis
      PROVE  r \in Told' <=> Owner[r] = u \/ r \in Told
  <2>1. r \in SessionsOf(u) <=> Owner[r] = u
    BY NoUserAssumption DEF SessionsOf, Owner
  <2> QED
    BY <2>1 DEF RevokeAll, EndSessions, Told
<1>4. Told' = Told \cup {r \in Jtis : Owner[r] = u}
  BY <1>3 DEF Told
<1>5. Stand' = [r \in Jtis |-> IF Owner[r] = u /\ Stand[r] = "open" THEN "over" ELSE Stand[r]]
  BY <1>2, StandingRead DEF Stand
<1> QED
  BY <1>4, <1>5, OwnersKept DEF SB!EndAll, Stand, Owner, Told

(* A restart ends what was moving, and with store.Memory everything.        *)
LEMMA RestartBook ==
  ASSUME IInv, IInv', Restart
  PROVE  SB!Restart
<1>1. /\ \A c \in Clients : ~Issuing(c)'
      /\ \A j \in Jtis : Fresh(j)' <=> (Fresh(j) /\ store = "postgres")
      /\ UNCHANGED <<store, user, root>>
  BY DEF Restart, Fresh, Issuing, Idle
<1>2. ASSUME NEW r \in Jtis
      PROVE  Stands(r)' = IF Stands(r) = "none" \/ (store = "postgres" /\ Stands(r) = "open")
                          THEN Stands(r) ELSE "over"
  BY <1>1 DEF Stands, HasToken, HasRefresh
<1>3. UNCHANGED Told
  BY ToldKept DEF Restart
<1> QED
  BY <1>1, <1>2, <1>3, StandingRead, OwnersKept DEF SB!Restart, SB!Survives, Owner, Told

(* What changes no row and no refresh that is issuing changes no session.   *)
LEMMA QuietBook ==
  ASSUME IInv, IInv', UNCHANGED <<store, row, user, root, ended>>,
         \A c \in Clients : (Issuing(c)' <=> Issuing(c)) /\ (Issuing(c) => call'[c] = call[c])
  PROVE  UNCHANGED SB!vars
<1>1. ASSUME NEW r \in Jtis PROVE Stands(r)' = Stands(r)
  BY DEF Stands, HasToken, HasRefresh, Fresh
<1> QED
  BY <1>1, StandingRead, OwnersKept DEF SB!vars, Owner

(* Each step of the handlers is one of the session book, or none.           *)
LEMMA NextBook == IInv /\ IInv' /\ [Next]_vars => [SB!Next]_SB!vars
<1> SUFFICES ASSUME IInv, IInv', [Next]_vars PROVE [SB!Next]_SB!vars
  OBVIOUS
<1>1. CASE UNCHANGED vars
  BY <1>1, QuietBook DEF vars, Issuing
<1>2. ASSUME NEW u \in Users, Signup(u) PROVE UNCHANGED SB!vars
  BY <1>2, QuietBook DEF Signup, ghosts, Issuing
<1>3. ASSUME NEW u \in Users, Logout(u) PROVE SB!Next
  <2>1. SB!EndAll(u)
    BY <1>3, RevokeAllBook DEF Logout, site, Issuing
  <2> QED
    BY <2>1 DEF SB!Next
<1>4. ASSUME NEW u \in Users, NEW j \in Jtis, Login(u, j) PROVE SB!Next
  BY <1>4, LoginBook DEF SB!Next
<1>5. ASSUME NEW c \in Clients, Refresh(c) PROVE [SB!Next]_SB!vars
  <2>1. ASSUME NEW s, ~Issuing(c), s.at # "issue", Goes(c, s)
        PROVE  \A d \in Clients : (Issuing(d)' <=> Issuing(d)) /\ (Issuing(d) => call'[d] = call[d])
    BY <2>1 DEF Goes, Issuing, IInv, TypeOK
  <2>2. ASSUME NEW j \in Jtis, RefreshArrives(c, j) PROVE UNCHANGED SB!vars
    <3>1. ~Issuing(c) /\ Goes(c, [at |-> "consume", jti |-> j])
      BY <2>2 DEF RefreshArrives, Issuing, Idle
    <3> QED
      BY <2>1, <2>2, <3>1, QuietBook DEF RefreshArrives, site, ghosts
  <2>3. ASSUME NEW j \in Jtis, RefreshIssues(c, j) PROVE SB!Next
    BY <2>3, IssueBook DEF SB!Next
  <2>4. ASSUME RefreshUnknown(c) \/ RefreshBurnFails(c) PROVE UNCHANGED SB!vars
    <3>1. ~Issuing(c) /\ Goes(c, Idle) /\ Idle.at # "issue"
      BY <2>4 DEF RefreshUnknown, RefreshBurnFails, Issuing, Idle
    <3> QED
      BY <2>1, <2>4, <3>1, QuietBook DEF RefreshUnknown, RefreshBurnFails, site, ghosts
  <2>5. ASSUME RefreshConsumes(c) PROVE SB!Next
    BY <2>5, ConsumeBook DEF SB!Next
  <2>6. ASSUME RefreshConsumeLost(c) PROVE SB!Next
    BY <2>6, ConsumeLostBook DEF SB!Next
  <2>7. ASSUME RefreshReplayed(c) PROVE [SB!Next]_SB!vars
    <3>1. /\ ~Issuing(c) /\ user[call[c].jti] \in Users
          /\ UNCHANGED <<store, user, root>>
      BY <2>7, CallFields DEF RefreshReplayed, Presented, Issuing, site, IInv, Chains
    <3>2. CASE store = "postgres"
      <4>1. Goes(c, [at |-> "burn", user |-> user[call[c].jti]]) /\ UNCHANGED <<row, ended>>
        BY <2>7, <3>2 DEF RefreshReplayed, Presented
      <4> QED
        BY <2>1, <3>1, <4>1, QuietBook
    <3>3. CASE store # "postgres"
      <4>1. RevokeAll(user[call[c].jti], "burned") /\ Goes(c, Idle) /\ Idle.at # "issue"
        BY <2>7, <3>3 DEF RefreshReplayed, Presented, Idle
      <4> PICK u \in Users : u = user[call[c].jti]
        BY <3>1
      <4>2. SB!EndAll(u)
        BY <2>1, <3>1, <4>1, RevokeAllBook
      <4> QED
        BY <4>2 DEF SB!Next
    <3> QED
      BY <3>2, <3>3
  <2>8. ASSUME RefreshBurns(c) PROVE SB!Next
    <3>1. /\ ~Issuing(c) /\ call[c].user \in Users
          /\ RevokeAll(call[c].user, "burned") /\ Goes(c, Idle) /\ Idle.at # "issue"
          /\ UNCHANGED <<store, user, root>>
      BY <2>8, CallFields DEF RefreshBurns, Issuing, Idle, site, IInv
    <3> PICK u \in Users : u = call[c].user
      BY <3>1
    <3>2. SB!EndAll(u)
      BY <2>1, <3>1, RevokeAllBook
    <3> QED
      BY <3>2 DEF SB!Next
  <2>9. ASSUME RefreshIssueFails(c) PROVE SB!Next
    BY <2>9, IssueFailsBook DEF SB!Next
  <2> QED
    BY <1>5, <2>2, <2>3, <2>4, <2>5, <2>6, <2>7, <2>8, <2>9 DEF Refresh
<1>6. ASSUME Restart PROVE SB!Next
  BY <1>6, RestartBook DEF SB!Next
<1> QED
  BY <1>1, <1>2, <1>3, <1>4, <1>5, <1>6 DEF Next

(* The rows, the refreshes in flight and the restarts keep an indivisible   *)
(* book of sessions: every step of theirs opens, moves, settles or ends     *)
(* sessions as the book does, or leaves them all as they stand.             *)
THEOREM Implements == Spec => ImplementsSessionBook
<1>1. Spec => SB!Init /\ [][SB!Next]_SB!vars
  BY InitBook, NextBook, Invariance, PTL DEF Spec
<1> QED
  BY <1>1 DEF ImplementsSessionBook, SB!Spec

-----------------------------------------------------------------------------
(* What it takes for an end of sessions to be final.                        *)

(* A call that revokes the tokens of user u: a logout, or a burn, which is  *)
(* a step of its own in Postgres.                                           *)
Ending(u) ==
  \/ Logout(u)
  \/ \E c \in Clients : RefreshBurns(c) /\ call[c].user = u
  \/ \E c \in Clients :
       RefreshReplayed(c) /\ store # "postgres" /\ user[Presented(c)] = u

(* No such call finds a refresh of the user between its two store calls.    *)
NoneMoving == \A u \in Users : Ending(u) => \A c \in Clients :
                Issuing(c) => call[c].user # u

(* Then no ended session is left for a refresh to go on with.               *)
LEMMA EndLeavesNone ==
  ASSUME IInv, NEW u \in Users, NEW how, RevokeAll(u, how), exempt = {},
         \A c \in Clients : Issuing(c) => call[c].user # u
  PROVE  exempt' = {}
<1>1. ASSUME NEW r \in SessionsOf(u), NEW c \in Rotating(r) PROVE FALSE
  <2>1. user[r] = u /\ c \in Clients /\ Issuing(c) /\ call[c].session = r
    BY <1>1 DEF SessionsOf, Rotating, Issuing
  <2> QED
    BY <2>1 DEF IInv, Flights
<1> QED
  BY <1>1 DEF RevokeAll, EndSessions

(* So no session is ever exempt from its end: every other step leaves those *)
(* that are alone, or takes some away.                                      *)
LEMMA ExemptStays ==
  ASSUME IInv, [Next]_vars, [NoneMoving]_vars, exempt = {}
  PROVE  exempt' = {}
<1>1. CASE UNCHANGED vars
  BY <1>1 DEF vars
<1>2. CASE Next /\ NoneMoving
  <2>1. ASSUME NEW u \in Users, Logout(u) PROVE exempt' = {}
    BY <1>2, <2>1, EndLeavesNone DEF NoneMoving, Ending, Logout
  <2>2. ASSUME NEW c \in Clients, RefreshBurns(c) PROVE exempt' = {}
    <3>1. call[c].user \in Users /\ RevokeAll(call[c].user, "burned")
      BY <2>2, CallFields DEF RefreshBurns, IInv
    <3> QED
      BY <1>2, <2>2, <3>1, EndLeavesNone DEF NoneMoving, Ending
  <2>3. ASSUME NEW c \in Clients, RefreshReplayed(c) PROVE exempt' = {}
    <3>1. user[Presented(c)] \in Users
      BY <2>3, CallFields DEF RefreshReplayed, Presented, IInv, Chains
    <3>2. CASE store = "postgres"
      BY <2>3, <3>2 DEF RefreshReplayed
    <3>3. CASE store # "postgres"
      <4>1. RevokeAll(user[Presented(c)], "burned")
        BY <2>3, <3>3 DEF RefreshReplayed
      <4> QED
        BY <1>2, <2>3, <3>1, <3>3, <4>1, EndLeavesNone DEF NoneMoving, Ending
    <3> QED
      BY <3>2, <3>3
  <2>4. ASSUME NEW c \in Clients, RefreshConsumeLost(c) \/ RefreshIssueFails(c)
        PROVE  exempt' = {}
    BY <2>4 DEF RefreshConsumeLost, RefreshIssueFails, LoseSessions
  <2>5. ASSUME Restart PROVE exempt' = {}
    BY <2>5 DEF Restart, LoseSessions
  <2> QED
    BY <1>2, <2>1, <2>2, <2>3, <2>4, <2>5 DEF Next, Refresh, Signup, Login, RefreshArrives,
       RefreshUnknown, RefreshConsumes, RefreshBurnFails, RefreshIssues, ghosts
<1> QED
  BY <1>1, <1>2

(***************************************************************************)
(* A logout or a replay is final (router.go:177, :402) whenever it finds   *)
(* no refresh of the user between consume and issue: that overlap is the   *)
(* only way for an ended session to have a token, over either store and    *)
(* whatever else overlaps, fails or restarts.                              *)
(***************************************************************************)
THEOREM FinalUnlessMoving == Spec /\ [][NoneMoving]_vars => []EndingIsFinal
<1> DEFINE NoneExempt == exempt = {}
<1>1. Init => NoneExempt
  BY DEF Init
<1>2. IInv /\ [Next]_vars /\ [NoneMoving]_vars /\ NoneExempt => NoneExempt'
  BY ExemptStays
<1>3. IInv /\ NoneExempt => EndingIsFinal
  <2> SUFFICES ASSUME IInv, NoneExempt,
                      NEW r \in Sessions, ended[r] # "open"
               PROVE  FreshTokens(r) = {}
    BY DEF EndingIsFinal
  <2>1. r \in Jtis /\ root[r] = r
    BY SessionRoots DEF IInv, TypeOK, Sessions
  <2> QED
    BY <2>1 DEF IInv, WaysOver, FreshTokens, Fresh
<1> HIDE DEF NoneExempt
<1> QED
  BY <1>1, <1>2, <1>3, Invariance, PTL DEF Spec
=============================================================================
