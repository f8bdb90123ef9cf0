--------------------------- MODULE NetallocProofs ----------------------------
(***************************************************************************)
(* Theorems about the address allocators, for pools of any size, any       *)
(* number of pools and any set of owners.                                  *)
(***************************************************************************)
EXTENDS Netalloc, TLAPS

-----------------------------------------------------------------------------
(* Facts about the free list as a sequence.                                 *)

(* Reusing the last released address shortens the free list by one.         *)
LEMMA PopFacts ==
  ASSUME NEW S, NEW s \in Seq(S), s # <<>>
  PROVE  /\ Front(s) \in Seq(S)
         /\ DOMAIN Front(s) = 1 .. Len(s) - 1
         /\ \A i \in DOMAIN Front(s) : Front(s)[i] = s[i]
         /\ Len(s) \in DOMAIN s
         /\ Last(s) = s[Len(s)]
         /\ Last(s) \in S
<1>1. Len(s) \in Nat /\ Len(s) > 0 /\ DOMAIN s = 1 .. Len(s)
  OBVIOUS
<1>2. Last(s) = s[Len(s)] /\ Last(s) \in S /\ Len(s) \in DOMAIN s
  BY <1>1 DEF Last
<1>3. /\ SubSeq(s, 1, Len(s) - 1) \in Seq(S)
      /\ Len(SubSeq(s, 1, Len(s) - 1)) = Len(s) - 1
      /\ \A i \in 1 .. Len(s) - 1 : SubSeq(s, 1, Len(s) - 1)[i] = s[i]
  BY <1>1
<1>4. Front(s) = SubSeq(s, 1, Len(s) - 1)
  BY DEF Front
<1>5. DOMAIN Front(s) = 1 .. Len(s) - 1
  BY <1>1, <1>3, <1>4
<1> QED
  BY <1>2, <1>3, <1>4, <1>5

(* The addresses on the free list are the last one and those below it.      *)
LEMMA PopRange ==
  ASSUME NEW S, NEW s \in Seq(S), s # <<>>
  PROVE  ToSet(s) = ToSet(Front(s)) \cup {Last(s)}
<1>1. Len(s) \in Nat /\ Len(s) > 0 /\ DOMAIN s = 1 .. Len(s)
  OBVIOUS
<1>2. DOMAIN s = DOMAIN Front(s) \cup {Len(s)}
  BY <1>1, PopFacts
<1> QED
  BY <1>2, PopFacts DEF ToSet

(* Releasing an address adds it at the end of the free list.                *)
LEMMA PushFacts ==
  ASSUME NEW S, NEW s \in Seq(S), NEW x \in S
  PROVE  /\ Append(s, x) \in Seq(S)
         /\ DOMAIN Append(s, x) = DOMAIN s \cup {Len(s) + 1}
         /\ Len(s) + 1 \notin DOMAIN s
         /\ \A i \in DOMAIN s : Append(s, x)[i] = s[i]
         /\ Append(s, x)[Len(s) + 1] = x
         /\ ToSet(Append(s, x)) = ToSet(s) \cup {x}
<1>1. Len(s) \in Nat /\ DOMAIN s = 1 .. Len(s)
  OBVIOUS
<1>2. /\ Append(s, x) \in Seq(S)
      /\ Len(Append(s, x)) = Len(s) + 1
      /\ \A i \in 1 .. Len(s) : Append(s, x)[i] = s[i]
      /\ Append(s, x)[Len(s) + 1] = x
  OBVIOUS
<1>3. DOMAIN Append(s, x) = DOMAIN s \cup {Len(s) + 1}
  BY <1>1, <1>2
<1> QED
  BY <1>1, <1>2, <1>3 DEF ToSet

-----------------------------------------------------------------------------
(* The sweep's arithmetic.                                                  *)

(* The cursor stays in the pool, advances by one with wrap-around, and is   *)
(* back where it was after Tries steps.                                     *)
LEMMA CursorFacts ==
  ASSUME NEW n \in Octets
  PROVE  /\ Tries \in Nat \ {0}
         /\ \A i \in 0 .. Tries : Cursor(n, i) \in Octets
         /\ Cursor(n, 0) = n
         /\ Cursor(n, 1) = IF n = LastHost THEN FirstHost ELSE n + 1
         /\ Cursor(n, Tries) = n
BY HostAssumption DEF Octets, Cursor, Tries

(* Tries steps of the sweep visit every address of the pool.                *)
LEMMA SweepCovers ==
  ASSUME NEW n \in Octets, NEW x \in Octets
  PROVE  \E i \in 0 .. Tries - 1 : Cursor(n, i) = x
<1>1. CASE n <= x
  <2>1. x - n \in 0 .. Tries - 1 /\ Cursor(n, x - n) = x
    BY <1>1, HostAssumption DEF Octets, Cursor, Tries
  <2> QED
    BY <2>1
<1>2. CASE x < n
  <2>1. /\ x + Tries - n \in 0 .. Tries - 1
        /\ Cursor(n, x + Tries - n) = x
    BY <1>2, HostAssumption DEF Octets, Cursor, Tries
  <2> QED
    BY <2>1
<1> QED
  BY <1>1, <1>2, HostAssumption DEF Octets

-----------------------------------------------------------------------------
(***************************************************************************)
(* The inductive invariant.  FreeListSound alone is inductive with the     *)
(* types; CursorAtFrontier is what makes the sweep predictable, and needs  *)
(* it to know that a popped address leaves the free list.                  *)
(***************************************************************************)
IInv == TypeOK /\ FreeListSound /\ CursorAtFrontier

(* No pool starts with a lease or a released address.                       *)
LEMMA InitIInv == Init => IInv
<1> SUFFICES ASSUME Init PROVE IInv
  OBVIOUS
<1>1. FirstHost \in Octets
  BY HostAssumption DEF Octets
<1>2. TypeOK
  BY <1>1 DEF Init, TypeOK
<1>3. \A p \in Pools : Leased(p) = {} /\ ToSet(free[p]) = {} /\ DOMAIN free[p] = {}
  BY DEF Init, Leased, ToSet
<1>4. FreeListSound
  BY <1>3 DEF FreeListSound
<1>5. CursorAtFrontier
  BY <1>3, HostAssumption DEF CursorAtFrontier, Touched, Init
<1> QED
  BY <1>2, <1>4, <1>5 DEF IInv

(* Reusing a released address moves it from the free list to held.          *)
LEMMA AllocateReleasedIInv ==
  ASSUME IInv, NEW p \in Pools, NEW o \in Owners, NEW x \in Octets,
         AllocateReleased(p, o, x)
  PROVE  IInv'
<1> DEFINE s == free[p]
<1>1. /\ s \in Seq(Octets) /\ s # <<>> /\ x = Last(s)
      /\ free' = [free EXCEPT ![p] = Front(s)]
      /\ held' = [held EXCEPT ![p][x] = o]
      /\ next' = next
  BY DEF IInv, TypeOK, AllocateReleased
<1>2. Front(s) \in Seq(Octets)
  BY <1>1, PopFacts
<1>3. TypeOK'
  BY <1>1, <1>2 DEF IInv, TypeOK
<1>4. /\ \A q \in Pools \ {p} : free'[q] = free[q] /\ Leased(q)' = Leased(q)
      /\ free'[p] = Front(s)
      /\ Leased(p)' = Leased(p) \cup {x}
  <2>1. \A q \in Pools \ {p} : free'[q] = free[q] /\ held'[q] = held[q]
    BY <1>1 DEF IInv, TypeOK
  <2>2. free'[p] = Front(s)
    BY <1>1 DEF IInv, TypeOK
  <2>3. \A y \in Octets : held'[p][y] = IF y = x THEN o ELSE held[p][y]
    BY <1>1 DEF IInv, TypeOK
  <2>4. Leased(p)' = Leased(p) \cup {x}
    BY <2>3, NoOwnerAssumption DEF Leased
  <2> QED
    BY <2>1, <2>2, <2>4 DEF Leased
<1>5. FreeListSound'
  <2> SUFFICES ASSUME NEW q \in Pools
               PROVE  /\ \A i \in DOMAIN free'[q] : free'[q][i] \notin Leased(q)'
                      /\ \A i, j \in DOMAIN free'[q] :
                           free'[q][i] = free'[q][j] => i = j
    BY DEF FreeListSound
  <2>1. CASE q # p
    BY <2>1, <1>4 DEF IInv, FreeListSound
  <2>2. CASE q = p
    <3>1. \A i \in 1 .. Len(s) - 1 :
            i \in DOMAIN s /\ i # Len(s) /\ Front(s)[i] = s[i]
      BY <1>1, PopFacts
    <3>2. DOMAIN Front(s) = 1 .. Len(s) - 1 /\ x = s[Len(s)] /\ Len(s) \in DOMAIN s
      BY <1>1, PopFacts
    <3>3. \A i \in DOMAIN s : s[i] \notin Leased(p)
      BY DEF IInv, FreeListSound
    <3>4. \A i, j \in DOMAIN s : s[i] = s[j] => i = j
      BY DEF IInv, FreeListSound
    <3> QED
      BY <2>2, <1>4, <3>1, <3>2, <3>3, <3>4
  <2> QED
    BY <2>1, <2>2
<1>6. CursorAtFrontier'
  <2>1. \A q \in Pools : Touched(q)' = Touched(q)
    <3>1. ToSet(s) = ToSet(Front(s)) \cup {x}
      BY <1>1, PopRange
    <3> QED
      BY <3>1, <1>4 DEF Touched
  <2> QED
    BY <2>1, <1>1 DEF IInv, CursorAtFrontier
<1> QED
  BY <1>3, <1>5, <1>6 DEF IInv

(* When the free list is empty the sweep succeeds at its first octet, or    *)
(* not at all: every leased address is below the cursor, or all are leased. *)
LEMMA FrontierSweep ==
  ASSUME IInv, NEW p \in Pools, free[p] = <<>>
  PROVE  Leased(p) = Octets \/ (Leased(p) = FirstHost .. next[p] - 1 /\ ~Taken(p, 0))
<1>1. next[p] \in Octets
  BY DEF IInv, TypeOK
<1>2. ToSet(free[p]) = {}
  BY DEF ToSet
<1>3. Leased(p) = Touched(p)
  BY <1>2 DEF Touched
<1>4. CASE Leased(p) = FirstHost .. next[p] - 1
  <2>1. next[p] \notin Leased(p)
    BY <1>4, <1>1, HostAssumption DEF Octets
  <2> QED
    BY <1>4, <2>1, <1>1, CursorFacts DEF Leased, Taken
<1>5. CASE Leased(p) = Octets
  BY <1>5
<1> QED
  BY <1>3, <1>4, <1>5 DEF IInv, CursorAtFrontier

(* A fresh address is the one at the cursor, and the cursor moves past it.  *)
LEMMA AllocateFreshIInv ==
  ASSUME IInv, NEW p \in Pools, NEW o \in Owners, NEW x \in Octets,
         AllocateFresh(p, o, x)
  PROVE  IInv'
<1> DEFINE n == next[p]
<1>0. n \in Octets /\ free[p] = <<>>
  BY DEF IInv, TypeOK, AllocateFresh
<1>1. PICK i \in 0 .. Tries - 1 :
        /\ ~Taken(p, i)
        /\ \A j \in 0 .. i - 1 : Taken(p, j)
        /\ x = Cursor(n, i)
        /\ next' = [next EXCEPT ![p] = Cursor(n, i + 1)]
  BY DEF AllocateFresh
<1>2. i = 0 /\ x = n /\ Leased(p) = FirstHost .. n - 1
  <2>1. x \notin Leased(p)
    BY <1>1 DEF Taken, Leased
  <2>2. Leased(p) = FirstHost .. n - 1 /\ ~Taken(p, 0)
    BY <2>1, <1>0, FrontierSweep
  <2>3. i = 0
    BY <2>2, <1>1, <1>0, CursorFacts
  <2> QED
    BY <2>2, <2>3, <1>1, <1>0, CursorFacts
<1>3. /\ next' = [next EXCEPT ![p] = IF n = LastHost THEN FirstHost ELSE n + 1]
      /\ held' = [held EXCEPT ![p][x] = o]
      /\ free' = free
  <2>1. Cursor(n, i + 1) = IF n = LastHost THEN FirstHost ELSE n + 1
    BY <1>0, <1>2, HostAssumption DEF Cursor, Octets, Tries
  <2> QED
    BY <2>1, <1>1 DEF AllocateFresh
<1>4. TypeOK'
  <2>1. (IF n = LastHost THEN FirstHost ELSE n + 1) \in Octets
    BY <1>0, HostAssumption DEF Octets
  <2> QED
    BY <2>1, <1>3 DEF IInv, TypeOK
<1>5. /\ \A q \in Pools \ {p} : Leased(q)' = Leased(q) /\ next'[q] = next[q]
      /\ Leased(p)' = Leased(p) \cup {x}
  <2>1. \A q \in Pools \ {p} : held'[q] = held[q] /\ next'[q] = next[q]
    BY <1>3 DEF IInv, TypeOK
  <2>2. \A y \in Octets : held'[p][y] = IF y = x THEN o ELSE held[p][y]
    BY <1>3 DEF IInv, TypeOK
  <2>3. Leased(p)' = Leased(p) \cup {x}
    BY <2>2, NoOwnerAssumption DEF Leased
  <2> QED
    BY <2>1, <2>3 DEF Leased
<1>6. DOMAIN free[p] = {} /\ ToSet(free[p]) = {}
  BY <1>0 DEF ToSet
<1>7. FreeListSound'
  BY <1>3, <1>5, <1>6 DEF IInv, FreeListSound
<1>8. CursorAtFrontier'
  <2> SUFFICES ASSUME NEW q \in Pools
               PROVE  \/ Touched(q)' = FirstHost .. next'[q] - 1
                      \/ next'[q] = FirstHost /\ Touched(q)' = Octets
    BY DEF CursorAtFrontier
  <2>1. CASE q # p
    BY <2>1, <1>3, <1>5 DEF IInv, CursorAtFrontier, Touched
  <2>2. CASE q = p
    <3>1. Touched(p)' = (FirstHost .. n - 1) \cup {n}
      BY <1>2, <1>3, <1>5, <1>6 DEF Touched
    <3>2. Touched(p)' = FirstHost .. n
      BY <3>1, <1>0, HostAssumption DEF Octets
    <3>3. next'[p] = IF n = LastHost THEN FirstHost ELSE n + 1
      BY <1>3 DEF IInv, TypeOK
    <3> QED
      BY <2>2, <3>2, <3>3, <1>0, HostAssumption DEF Octets
  <2> QED
    BY <2>1, <2>2
<1> QED
  BY <1>4, <1>7, <1>8 DEF IInv

(* A release moves the address from held to the end of the free list.       *)
LEMMA ReleaseHeldIInv ==
  ASSUME IInv, NEW p \in Pools, NEW o \in Owners, NEW x \in Octets,
         ReleaseHeld(p, x, o)
  PROVE  IInv'
<1> DEFINE s == free[p]
<1>1. /\ s \in Seq(Octets) /\ held[p][x] = o
      /\ free' = [free EXCEPT ![p] = Append(s, x)]
      /\ held' = [held EXCEPT ![p][x] = NoOwner]
      /\ next' = next
  BY DEF IInv, TypeOK, ReleaseHeld
<1>2. x \in Leased(p)
  BY <1>1, NoOwnerAssumption DEF Leased
<1>3. TypeOK'
  <2>1. Append(s, x) \in Seq(Octets)
    BY <1>1, PushFacts
  <2> QED
    BY <2>1, <1>1 DEF IInv, TypeOK
<1>4. /\ \A q \in Pools \ {p} : free'[q] = free[q] /\ Leased(q)' = Leased(q)
      /\ free'[p] = Append(s, x)
      /\ Leased(p)' = Leased(p) \ {x}
  <2>1. \A q \in Pools \ {p} : free'[q] = free[q] /\ held'[q] = held[q]
    BY <1>1 DEF IInv, TypeOK
  <2>2. free'[p] = Append(s, x)
    BY <1>1 DEF IInv, TypeOK
  <2>3. \A y \in Octets : held'[p][y] = IF y = x THEN NoOwner ELSE held[p][y]
    BY <1>1 DEF IInv, TypeOK
  <2>4. Leased(p)' = Leased(p) \ {x}
    BY <2>3 DEF Leased
  <2> QED
    BY <2>1, <2>2, <2>4 DEF Leased
<1>5. FreeListSound'
  <2> SUFFICES ASSUME NEW q \in Pools
               PROVE  /\ \A i \in DOMAIN free'[q] : free'[q][i] \notin Leased(q)'
                      /\ \A i, j \in DOMAIN free'[q] :
                           free'[q][i] = free'[q][j] => i = j
    BY DEF FreeListSound
  <2>1. CASE q # p
    BY <2>1, <1>4 DEF IInv, FreeListSound
  <2>2. CASE q = p
    <3>1. /\ DOMAIN Append(s, x) = DOMAIN s \cup {Len(s) + 1}
          /\ Len(s) + 1 \notin DOMAIN s
          /\ \A i \in DOMAIN s : Append(s, x)[i] = s[i]
          /\ Append(s, x)[Len(s) + 1] = x
      BY <1>1, PushFacts
    <3>2. \A i \in DOMAIN s : s[i] \notin Leased(p)
      BY DEF IInv, FreeListSound
    <3>3. \A i, j \in DOMAIN s : s[i] = s[j] => i = j
      BY DEF IInv, FreeListSound
    <3>4. \A i \in DOMAIN s : s[i] # x
      BY <3>2, <1>2
    <3> QED
      BY <2>2, <1>4, <3>1, <3>2, <3>3, <3>4
  <2> QED
    BY <2>1, <2>2
<1>6. CursorAtFrontier'
  <2>1. \A q \in Pools : Touched(q)' = Touched(q)
    <3>1. ToSet(Append(s, x)) = ToSet(s) \cup {x}
      BY <1>1, PushFacts
    <3>2. ASSUME NEW q \in Pools, q # p
          PROVE  Touched(q)' = Touched(q)
      BY <3>2, <1>4 DEF Touched
    <3>3. Touched(p)' = (Leased(p) \ {x}) \cup (ToSet(s) \cup {x})
      BY <3>1, <1>4 DEF Touched
    <3>4. Touched(p)' = Touched(p)
      BY <3>3, <1>2 DEF Touched
    <3> QED
      BY <3>2, <3>4
  <2> QED
    BY <2>1, <1>1 DEF IInv, CursorAtFrontier
<1> QED
  BY <1>3, <1>5, <1>6 DEF IInv

(* A failed sweep leaves the allocator as it found it.                      *)
LEMMA AllocateFailsUnchanged ==
  ASSUME IInv, NEW p \in Pools, AllocateFails(p)
  PROVE  UNCHANGED vars
<1>1. Cursor(next[p], Tries) = next[p]
  BY CursorFacts DEF IInv, TypeOK
<1> QED
  BY <1>1 DEF AllocateFails, IInv, TypeOK, vars

(* A stutter keeps the invariant.                                           *)
LEMMA UnchangedIInv == IInv /\ UNCHANGED vars => IInv'
BY DEF vars, IInv, TypeOK, FreeListSound, CursorAtFrontier, Touched, Leased

(* The invariant is inductive.                                              *)
LEMMA NextIInv == IInv /\ [Next]_vars => IInv'
<1> SUFFICES ASSUME IInv, [Next]_vars PROVE IInv'
  OBVIOUS
<1>1. CASE UNCHANGED vars
  BY <1>1, UnchangedIInv
<1>2. ASSUME NEW p \in Pools, NEW o \in Owners, NEW x \in Octets, Allocate(p, o, x)
      PROVE  IInv'
  BY <1>2, AllocateReleasedIInv, AllocateFreshIInv DEF Allocate
<1>3. ASSUME NEW p \in Pools, NEW o \in Owners, NEW x \in Octets, Release(p, x, o)
      PROVE  IInv'
  BY <1>3, ReleaseHeldIInv, UnchangedIInv DEF Release, ReleaseRefused
<1>4. ASSUME NEW p \in Pools, AllocateFails(p)
      PROVE  IInv'
  BY <1>4, AllocateFailsUnchanged, UnchangedIInv
<1> QED
  BY <1>1, <1>2, <1>3, <1>4 DEF Next

-----------------------------------------------------------------------------
(* Every reachable allocator state satisfies the invariant.                 *)
THEOREM Invariance == Spec => []IInv
BY InitIInv, NextIInv, PTL DEF Spec

(* The held map, free list and cursor keep their types: the cursor never    *)
(* leaves 2..254.                                                           *)
THEOREM TypeCorrect == Spec => []TypeOK
<1>1. IInv => TypeOK
  BY DEF IInv
<1> QED
  BY Invariance, <1>1, PTL

(* The fast path of Allocate never hands out a leased address, nor one      *)
(* address twice.                                                           *)
THEOREM FreeListCorrect == Spec => []FreeListSound
<1>1. IInv => FreeListSound
  BY DEF IInv
<1> QED
  BY Invariance, <1>1, PTL

(* No address is ever lost to the pool, and the cursor sits at the frontier.*)
THEOREM FrontierCorrect == Spec => []CursorAtFrontier
<1>1. IInv => CursorAtFrontier
  BY DEF IInv
<1> QED
  BY Invariance, <1>1, PTL

(* ErrPoolExhausted is returned exactly when every address is leased.       *)
THEOREM ExhaustionIsExact ==
  Spec => [](\A p \in Pools : SweepFails(p) <=> Leased(p) = Octets)
<1>1. ASSUME IInv, NEW p \in Pools
      PROVE  SweepFails(p) <=> Leased(p) = Octets
  <2>0. next[p] \in Octets /\ free[p] \in Seq(Octets)
    BY <1>1 DEF IInv, TypeOK
  <2>1. ASSUME SweepFails(p), NEW x \in Octets
        PROVE  x \in Leased(p)
    <3>1. PICK i \in 0 .. Tries - 1 : Cursor(next[p], i) = x
      BY <2>0, SweepCovers
    <3> QED
      BY <3>1, <2>1 DEF SweepFails, Taken, Leased
  <2>2. ASSUME Leased(p) = Octets
        PROVE  SweepFails(p)
    <3>1. free[p] = <<>>
      <4>1. \A i \in DOMAIN free[p] : free[p][i] \in Octets /\ free[p][i] \notin Octets
        BY <1>1, <2>0, <2>2 DEF IInv, FreeListSound
      <4>2. DOMAIN free[p] = 1 .. Len(free[p]) /\ Len(free[p]) \in Nat
        BY <2>0
      <4>3. ASSUME Len(free[p]) # 0 PROVE FALSE
        <5>1. 1 \in DOMAIN free[p]
          BY <4>2, <4>3
        <5> QED
          BY <5>1, <4>1
      <4> QED
        BY <4>3, <2>0
    <3>2. \A i \in 0 .. Tries - 1 : Cursor(next[p], i) \in Octets
      BY <2>0, CursorFacts
    <3> QED
      BY <3>1, <3>2, <2>2 DEF SweepFails, Taken, Leased
  <2>3. Leased(p) \subseteq Octets
    BY DEF Leased
  <2> QED
    BY <2>1, <2>2, <2>3
<1>2. IInv => \A p \in Pools : SweepFails(p) <=> Leased(p) = Octets
  BY <1>1
<1> QED
  BY Invariance, <1>2, PTL

-----------------------------------------------------------------------------
(* The allocator implements the abstract pool.                              *)

(* Each step of the allocator is one of the lease pool, or none.            *)
LEMMA StepRefines == IInv /\ [Next]_vars => [LP!Next]_held
<1> SUFFICES ASSUME IInv, [Next]_vars PROVE [LP!Next]_held
  OBVIOUS
<1>1. CASE UNCHANGED vars
  BY <1>1 DEF vars
<1>2. ASSUME NEW p \in Pools, NEW o \in Owners, NEW x \in Octets,
             AllocateReleased(p, o, x)
      PROVE  LP!Next
  <2>1. free[p] \in Seq(Octets) /\ free[p] # <<>> /\ x = Last(free[p])
    BY <1>2 DEF IInv, TypeOK, AllocateReleased
  <2>2. x \notin Leased(p)
    BY <2>1, PopFacts DEF IInv, FreeListSound
  <2>3. LP!Grant(p, x, o)
    BY <1>2, <2>2 DEF AllocateReleased, LP!Grant, Leased
  <2> QED
    BY <2>3 DEF LP!Next
<1>3. ASSUME NEW p \in Pools, NEW o \in Owners, NEW x \in Octets,
             AllocateFresh(p, o, x)
      PROVE  LP!Next
  <2>1. LP!Grant(p, x, o)
    BY <1>3 DEF AllocateFresh, Taken, LP!Grant
  <2> QED
    BY <2>1 DEF LP!Next
<1>4. ASSUME NEW p \in Pools, NEW o \in Owners, NEW x \in Octets,
             ReleaseHeld(p, x, o)
      PROVE  LP!Next
  <2>1. LP!Return(p, x)
    BY <1>4, NoOwnerAssumption DEF ReleaseHeld, LP!Return
  <2> QED
    BY <2>1 DEF LP!Next
<1>5. ASSUME NEW p \in Pools, NEW o \in Owners, NEW x \in Octets,
             ReleaseRefused(p, x, o)
      PROVE  UNCHANGED held
  BY <1>5 DEF ReleaseRefused, vars
<1>6. ASSUME NEW p \in Pools, AllocateFails(p)
      PROVE  UNCHANGED held
  BY <1>6 DEF AllocateFails
<1> QED
  BY <1>1, <1>2, <1>3, <1>4, <1>5, <1>6 DEF Next, Allocate, Release

(* Every behaviour of the allocators is one of the abstract pool: leases    *)
(* are granted only on free addresses and end only when they are released.  *)
THEOREM Implementation == Spec => ImplementsLeasePool
<1>1. Init => LP!Init
  BY DEF Init, LP!Init
<1> QED
  BY <1>1, StepRefines, Invariance, PTL DEF Spec, ImplementsLeasePool, LP!Spec
=============================================================================
