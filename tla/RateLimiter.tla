----------------------------- MODULE RateLimiter -----------------------------
(***************************************************************************)
(* The fixed-window limiter in front of signup, login and refresh          *)
(* (rateLimit, middleware.go).  One mutex and one table of windows serve   *)
(* the three routes; a window belongs to the remote address of a request.  *)
(*                                                                         *)
(* rateLimit unlocks the mutex on its way out, not in a defer.  For an     *)
(* address without a window the local w is nil when its count is read, so  *)
(* the handler panics there: gin.Recovery (router.go:86) answers 500 and   *)
(* the mutex stays locked.                                                 *)
(***************************************************************************)
EXTENDS Naturals, FiniteSets

CONSTANTS
  Clients,      \* the requests that may be in flight at once
  Addresses,    \* what RemoteAddr yields
  Per,          \* the length of a window, in ticks
  GCThreshold,  \* 10000
  LastTick,     \* the bound on the clock
  NoWindow, NoClient

VARIABLES
  visitors,  \* visitors[a]: the window of address a, or NoWindow
  mu,        \* who holds the mutex, or NoClient
  call,      \* call[c]: the request of client c
  clock

vars == <<visitors, mu, call, clock>>

Idle == [at |-> "idle"]

Init ==
  /\ visitors = [a \in Addresses |-> NoWindow]
  /\ mu = NoClient
  /\ call = [c \in Clients |-> Idle]
  /\ clock = 0

Goes(c, s) == call' = [call EXCEPT ![c] = s]

Tick ==
  /\ clock < LastTick
  /\ clock' = clock + 1
  /\ UNCHANGED <<visitors, mu, call>>

\* The time is read before the mutex is taken.
Arrives(c, a) ==
  /\ call[c] = Idle
  /\ Goes(c, [at |-> "lock", addr |-> a, now |-> clock])
  /\ UNCHANGED <<visitors, mu, clock>>

Locks(c) ==
  /\ call[c].at = "lock"
  /\ mu = NoClient
  /\ mu' = c
  /\ Goes(c, [call[c] EXCEPT !.at = "count"])
  /\ UNCHANGED <<visitors, clock>>

Window(c) == visitors[call[c].addr]

Expired(w, now) == w # NoWindow /\ now > w.start + Per

\* A new window, after a sweep of the expired ones when there are many.
Opens(c) ==
  LET now == call[c].now
      many == Cardinality({a \in Addresses : visitors[a] # NoWindow}) > GCThreshold
  IN  visitors' =
        [a \in Addresses |->
           CASE a = call[c].addr -> [count |-> 1, start |-> now]
             [] a # call[c].addr /\ many /\ Expired(visitors[a], now) -> NoWindow
             [] OTHER -> visitors[a]]

\* No window: the panic at w.count, with the mutex held.
Panics(c) ==
  /\ call[c].at = "count"
  /\ Window(c) = NoWindow
  /\ Opens(c)
  /\ Goes(c, Idle)
  /\ UNCHANGED <<mu, clock>>

\* An expired window: the request passes whatever the old count.
Reopens(c) ==
  /\ call[c].at = "count"
  /\ Expired(Window(c), call[c].now)
  /\ Opens(c)
  /\ mu' = NoClient
  /\ Goes(c, Idle)
  /\ UNCHANGED clock

\* A running window: the request is counted, and answered by the handler
\* behind the limiter or, above the route's limit, with 429.
Counts(c) ==
  /\ call[c].at = "count"
  /\ Window(c) # NoWindow /\ ~Expired(Window(c), call[c].now)
  /\ visitors' = [visitors EXCEPT ![call[c].addr].count = @ + 1]
  /\ mu' = NoClient
  /\ Goes(c, Idle)
  /\ UNCHANGED clock

Proceeds(c) == Locks(c) \/ Panics(c) \/ Reopens(c) \/ Counts(c)

Next ==
  \/ Tick
  \/ \E c \in Clients :
       \/ \E a \in Addresses : Arrives(c, a)
       \/ Proceeds(c)

(***************************************************************************)
(* Each request runs in a goroutine of its own, which the scheduler does   *)
(* not starve; sync.Mutex hands the lock to a waiter that has been passed  *)
(* over for a millisecond, hence strong fairness.                          *)
(***************************************************************************)
Fairness == \A c \in Clients : SF_vars(Proceeds(c))

Spec == Init /\ [][Next]_vars /\ Fairness

-----------------------------------------------------------------------------
(***************************************************************************)
(* The limiter is adequate for a single-instance control plane             *)
(* (middleware.go:15): a request that reaches it is answered.              *)
(***************************************************************************)
EveryRequestAnswered == \A c \in Clients : call[c] # Idle ~> call[c] = Idle
=============================================================================
