-------------------------- MODULE RateLimiterProofs --------------------------
(***************************************************************************)
(* How far the limiter's unlock (middleware.go) reaches: for any number of *)
(* requests and addresses, any window and any sweep threshold.  That no    *)
(* request is answered after the first is a liveness property, which the   *)
(* model checker refutes; here is why.                                     *)
(***************************************************************************)
EXTENDS RateLimiter, TLAPS

NoWindows == \A a \in Addresses : visitors[a] = NoWindow

Counting(c) == call[c].at = "count"

(***************************************************************************)
(* Until the mutex is first taken there is no window.  Whoever takes it is *)
(* the only one to read the table, and finds no window either; and nobody  *)
(* takes it after that.                                                    *)
(***************************************************************************)
MutexInv ==
  /\ call \in [Clients -> {Idle} \cup [at : {"lock", "count"}, addr : Addresses, now : Nat]]
  /\ clock \in Nat
  /\ mu = NoClient => NoWindows
  /\ \A c \in Clients : Counting(c) => mu = c /\ NoWindows

(* The mutex is held, and its holder will not come back to unlock it.       *)
Poisoned == mu # NoClient /\ \A c \in Clients : ~Counting(c)

(* No request and no window at the start.                                   *)
LEMMA InitMutexInv == Init => MutexInv
BY DEF Init, MutexInv, NoWindows, Counting, Idle

(* Neither branch that unlocks is ever reached.                             *)
LEMMA NoneUnlocks ==
  ASSUME MutexInv, NEW c \in Clients
  PROVE  ~Counts(c) /\ ~Reopens(c)
<1>1. Counting(c) => call[c].addr \in Addresses
  BY DEF MutexInv, Counting, Idle
<1> QED
  BY <1>1 DEF MutexInv, NoWindows, Counting, Counts, Reopens, Expired, Window

(* The first to lock leaves by the panic, and the mutex stays locked.       *)
LEMMA NextMutexInv ==
  ASSUME NoClient \notin Clients, MutexInv, [Next]_vars
  PROVE  MutexInv' /\ (Poisoned => Poisoned')
<1>1. ASSUME Tick PROVE MutexInv' /\ (Poisoned => Poisoned')
  BY <1>1 DEF Tick, MutexInv, NoWindows, Counting, Poisoned
<1>2. ASSUME NEW c \in Clients, NEW a \in Addresses, Arrives(c, a)
      PROVE  MutexInv' /\ (Poisoned => Poisoned')
  <2> DEFINE s == [at |-> "lock", addr |-> a, now |-> clock]
  <2>1. /\ s \in [at : {"lock", "count"}, addr : Addresses, now : Nat] /\ s.at = "lock"
        /\ call' = [call EXCEPT ![c] = s] /\ UNCHANGED <<visitors, mu, clock>>
    BY <1>2 DEF Arrives, Goes, MutexInv
  <2> HIDE DEF s
  <2>2. call' \in [Clients -> {Idle} \cup [at : {"lock", "count"}, addr : Addresses, now : Nat]]
    BY <2>1 DEF MutexInv
  <2>3. \A d \in Clients : Counting(d)' => Counting(d)
    BY <2>1 DEF MutexInv, Counting
  <2> QED
    BY <2>1, <2>2, <2>3 DEF MutexInv, NoWindows, Poisoned
<1>3. ASSUME NEW c \in Clients, Locks(c) PROVE MutexInv' /\ (Poisoned => Poisoned')
  <2> DEFINE s == [call[c] EXCEPT !.at = "count"]
  <2>1. call[c] \in [at : {"lock", "count"}, addr : Addresses, now : Nat]
    BY <1>3 DEF Locks, MutexInv, Idle
  <2>2. s \in [at : {"lock", "count"}, addr : Addresses, now : Nat] /\ s.at = "count"
    BY <2>1
  <2>3. /\ mu = NoClient /\ mu' = c
        /\ call' = [call EXCEPT ![c] = s] /\ UNCHANGED <<visitors, clock>>
    BY <1>3 DEF Locks, Goes
  <2> HIDE DEF s
  <2>4. call' \in [Clients -> {Idle} \cup [at : {"lock", "count"}, addr : Addresses, now : Nat]]
    BY <2>2, <2>3 DEF MutexInv
  <2>5. NoWindows' /\ \A d \in Clients : ~Counting(d)
    BY <2>3 DEF MutexInv, NoWindows
  <2>6. \A d \in Clients : Counting(d)' => d = c
    BY <2>3, <2>5 DEF MutexInv, Counting
  <2> QED
    BY <2>3, <2>4, <2>5, <2>6 DEF MutexInv, Poisoned
<1>4. ASSUME NEW c \in Clients, Panics(c) PROVE MutexInv' /\ (Poisoned => Poisoned')
  <2>1. /\ Counting(c) /\ mu = c /\ mu' = c /\ clock' = clock
        /\ call' = [call EXCEPT ![c] = Idle]
    BY <1>4 DEF Panics, Goes, MutexInv, Counting
  <2>2. \A d \in Clients : ~Counting(d)'
    BY <2>1 DEF MutexInv, Counting, Idle
  <2> QED
    BY <2>1, <2>2 DEF MutexInv, Poisoned
<1>5. CASE UNCHANGED vars
  BY <1>5 DEF vars, MutexInv, NoWindows, Counting, Poisoned
<1> QED
  BY <1>1, <1>2, <1>3, <1>4, <1>5, NoneUnlocks DEF Next, Proceeds

(***************************************************************************)
(* No request ever gets past the limiter: the two branches that go on to   *)
(* the unlock (middleware.go:66), a running window and an expired one, are *)
(* taken by no request, in any interleaving.                               *)
(***************************************************************************)
THEOREM NobodyPasses ==
  ASSUME NoClient \notin Clients
  PROVE  Spec => [][\A c \in Clients : ~Counts(c) /\ ~Reopens(c)]_vars
<1>1. MutexInv /\ [Next]_vars => MutexInv'
  BY NextMutexInv
<1>2. MutexInv => \A c \in Clients : ~Counts(c) /\ ~Reopens(c)
  BY NoneUnlocks
<1> QED
  BY <1>1, <1>2, InitMutexInv, PTL DEF Spec

(***************************************************************************)
(* Once the request that holds the mutex is gone, the mutex stays locked,  *)
(* and nobody is left who could unlock it.                                 *)
(***************************************************************************)
THEOREM PoisonStays ==
  ASSUME NoClient \notin Clients
  PROVE  Spec => [](Poisoned => []Poisoned)
<1>1. MutexInv /\ [Next]_vars => MutexInv' /\ (Poisoned => Poisoned')
  BY NextMutexInv
<1> QED
  BY <1>1, InitMutexInv, PTL DEF Spec
=============================================================================
