-------------------------- MODULE BatchFlushProofs --------------------------
(***************************************************************************)
(* What the scoring pool and the semaphore keep, for any number of batches,*)
(* slots, threads and permits.                                             *)
(***************************************************************************)
EXTENDS BatchFlush, FiniteSetTheorems, SequenceTheorems, TLAPS

-----------------------------------------------------------------------------
(***************************************************************************)
(* dispatch.                                                               *)
(***************************************************************************)
\* The free slots up to position p, of slots s and current batches c.
FreeUpTo(s, c, p) == {x \in 1..p : c[s[x]] = None}

\* The same as dispatch counts them, for each free position.
FreeIn(s, c) == {x \in Positions : c[s[x]] = None}
RankIn(s, c) == [p \in FreeIn(s, c) |-> Cardinality(FreeUpTo(s, c, p))]

LEMMA FreeFinite ==
  ASSUME NEW s, NEW c
  PROVE  /\ IsFiniteSet(FreeIn(s, c)) /\ Cardinality(FreeIn(s, c)) \in Nat
         /\ \A p \in Positions :
              /\ FreeUpTo(s, c, p) \subseteq FreeIn(s, c)
              /\ IsFiniteSet(FreeUpTo(s, c, p))
              /\ Cardinality(FreeUpTo(s, c, p)) \in 0..Cardinality(FreeIn(s, c))
<1>1. IsFiniteSet(Positions)
  BY PoolAssumption, FS_Interval DEF Positions
<1>2. FreeIn(s, c) \in SUBSET Positions
  BY DEF FreeIn
<1>3. IsFiniteSet(FreeIn(s, c)) /\ Cardinality(FreeIn(s, c)) \in Nat
  BY <1>1, <1>2, FS_Subset, FS_CardinalityType
<1>4. ASSUME NEW p \in Positions
      PROVE  /\ FreeUpTo(s, c, p) \subseteq FreeIn(s, c)
             /\ IsFiniteSet(FreeUpTo(s, c, p))
             /\ Cardinality(FreeUpTo(s, c, p)) \in 0..Cardinality(FreeIn(s, c))
  <2>1. FreeUpTo(s, c, p) \in SUBSET FreeIn(s, c)
    BY PoolAssumption DEF FreeUpTo, FreeIn, Positions
  <2>2. /\ IsFiniteSet(FreeUpTo(s, c, p))
        /\ Cardinality(FreeUpTo(s, c, p)) <= Cardinality(FreeIn(s, c))
    BY <1>3, <2>1, FS_Subset
  <2>3. Cardinality(FreeUpTo(s, c, p)) \in Nat
    BY <2>2, FS_CardinalityType
  <2>4. QED
    BY <1>3, <2>1, <2>2, <2>3
<1>5. QED
  BY <1>3, <1>4

\* The free positions are numbered 1, 2, 3, ... in order.
LEMMA RanksNumberFree ==
  ASSUME NEW s, NEW c
  PROVE  RankIn(s, c) \in Bijection(FreeIn(s, c), 1..Cardinality(FreeIn(s, c)))
<1>. DEFINE F == FreeIn(s, c)
            R == RankIn(s, c)
<1>1. /\ IsFiniteSet(F) /\ Cardinality(F) \in Nat
      /\ \A p \in Positions :
           /\ FreeUpTo(s, c, p) \subseteq F
           /\ IsFiniteSet(FreeUpTo(s, c, p))
           /\ Cardinality(FreeUpTo(s, c, p)) \in 0..Cardinality(F)
  BY FreeFinite
<1>2. \A p \in F : p \in Positions /\ p \in Nat
  BY DEF FreeIn, Positions
<1>. HIDE DEF F, R
<1>3. ASSUME NEW p \in F
      PROVE  R[p] = Cardinality(FreeUpTo(s, c, p)) /\ R[p] \in 1..Cardinality(F)
  <2>1. p \in FreeUpTo(s, c, p)
    BY DEF FreeUpTo, F, FreeIn, Positions
  <2>2. Cardinality(FreeUpTo(s, c, p)) # 0
    BY <1>1, <1>2, <2>1, FS_EmptySet
  <2>3. R[p] = Cardinality(FreeUpTo(s, c, p))
    BY DEF R, F, RankIn
  <2>4. Cardinality(FreeUpTo(s, c, p)) \in 0..Cardinality(F)
    BY <1>1, <1>2
  <2>5. QED
    BY <1>1, <2>2, <2>3, <2>4
<1>4. ASSUME NEW p \in F, NEW q \in F, p < q
      PROVE  R[p] # R[q]
  <2>. p \in Nat /\ q \in Nat /\ q \in Positions
    BY <1>2
  <2>1. FreeUpTo(s, c, p) \in SUBSET FreeUpTo(s, c, q)
    BY <1>4 DEF FreeUpTo
  <2>2. FreeUpTo(s, c, p) # FreeUpTo(s, c, q)
    <3>1. q \in FreeUpTo(s, c, q) /\ q \notin FreeUpTo(s, c, p)
      BY <1>4 DEF FreeUpTo, F, FreeIn, Positions
    <3>2. QED
      BY <3>1
  <2>3. Cardinality(FreeUpTo(s, c, q)) # Cardinality(FreeUpTo(s, c, p))
    BY <1>1, <2>1, <2>2, FS_Subset
  <2>4. QED
    BY <1>3, <2>3
<1>5. R \in Injection(F, 1..Cardinality(F))
  <2>1. R \in [F -> 1..Cardinality(F)]
    BY <1>3 DEF R, RankIn, F
  <2>2. ASSUME NEW p \in F, NEW q \in F, R[p] = R[q] PROVE p = q
    BY <1>2, <1>4, <2>2
  <2>3. QED
    BY <2>1, <2>2 DEF Injection, IsInjective
<1>6. IsFiniteSet(1..Cardinality(F)) /\ Cardinality(1..Cardinality(F)) = Cardinality(F)
  <2>1. 1 \in Int /\ Cardinality(F) \in Int
    BY <1>1
  <2>2. /\ IsFiniteSet(1..Cardinality(F))
        /\ Cardinality(1..Cardinality(F)) =
             IF 1 > Cardinality(F) THEN 0 ELSE Cardinality(F) - 1 + 1
    BY <2>1, FS_Interval, Zenon
  <2>3. QED
    BY <1>1, <2>2
<1>7. R \in Surjection(F, 1..Cardinality(F))
  BY <1>5, <1>6, FS_Injection
<1>8. QED
  BY <1>5, <1>7 DEF Bijection, F, R

\* As many slots take a batch as there are free slots and queued batches: the n first.
LEMMA TakersCount ==
  ASSUME NEW q \in Seq(Tasks), NEW s, NEW c
  PROVE  \E n \in 0..Len(q) :
           /\ Cardinality(Takers(q, s, c)) = n
           /\ \A p \in Takers(q, s, c) : Rank(s, c, p) \in 1..n
           /\ \A m \in 1..n : \E p \in Takers(q, s, c) : Rank(s, c, p) = m
           /\ \A p, r \in Takers(q, s, c) : Rank(s, c, p) = Rank(s, c, r) => p = r
           /\ n < Len(q) => Takers(q, s, c) = FreeIn(s, c)
<1>. DEFINE F == FreeIn(s, c)
            R == RankIn(s, c)
            T == Takers(q, s, c)
            n == IF Cardinality(F) <= Len(q) THEN Cardinality(F) ELSE Len(q)
<1>1. IsFiniteSet(F) /\ Cardinality(F) \in Nat
  BY FreeFinite
<1>2. /\ R \in [F -> 1..Cardinality(F)]
      /\ \A p, r \in F : R[p] = R[r] => p = r
      /\ \A m \in 1..Cardinality(F) : \E p \in F : R[p] = m
  <2>1. R \in Bijection(F, 1..Cardinality(F))
    BY RanksNumberFree
  <2>. HIDE DEF F, R
  <2>2. QED
    BY <2>1 DEF Bijection, Injection, Surjection, IsInjective
<1>3. n \in 0..Len(q)
  BY <1>1
<1>4. T = {p \in F : R[p] <= Len(q)} /\ \A p \in F : R[p] = Rank(s, c, p)
  BY DEF Takers, FreeIn, RankIn, Rank, FreeUpTo
<1>. HIDE DEF F, R, T
<1>5. \A p \in T : p \in F /\ R[p] \in 1..n /\ R[p] = Rank(s, c, p)
  BY <1>1, <1>2, <1>4
<1>6. \A m \in 1..n : \E p \in T : R[p] = m
  BY <1>1, <1>2, <1>4
<1>7. n < Len(q) => T = F
  BY <1>1, <1>2, <1>4
<1>. HIDE DEF n
<1>8. Cardinality(T) = n
  <2>1. [p \in T |-> R[p]] \in Bijection(T, 1..n)
    BY <1>2, <1>5, <1>6 DEF Bijection, Injection, Surjection, IsInjective
  <2>2. IsFiniteSet(T)
    BY <1>1, <1>4, FS_Subset
  <2>3. Cardinality(1..n) = Cardinality(T)
    BY <2>1, <2>2, FS_Bijection DEF ExistsBijection
  <2>4. Cardinality(1..n) = n
    <3>1. 1 \in Int /\ n \in Int
      BY <1>3
    <3>2. Cardinality(1..n) = IF 1 > n THEN 0 ELSE n - 1 + 1
      BY <3>1, FS_Interval, Zenon
    <3>3. QED
      BY <1>3, <3>2
  <2>5. QED
    BY <2>3, <2>4
<1>9. \A p, r \in T : Rank(s, c, p) = Rank(s, c, r) => p = r
  BY <1>2, <1>5
<1>10. \A m \in 1..n : \E p \in T : Rank(s, c, p) = m
  BY <1>5, <1>6
<1>11. QED
  BY <1>3, <1>5, <1>7, <1>8, <1>9, <1>10 DEF T, F

\* What dispatch does, for slots with a thread each: the first n batches go to n free
\* slots, one to each, and a batch stays in the queue only when no slot is free.
Given(n, taker, q, s, c) ==
    /\ taker \in [1..n -> Positions]
    /\ \A m, l \in 1..n : taker[m] = taker[l] => m = l
    /\ \A m \in 1..n : c[s[taker[m]]] = None /\ current'[s[taker[m]]] = q[m]
    /\ \A t \in Threads : (\A m \in 1..n : s[taker[m]] # t) => current'[t] = c[t]
    /\ queue' = SubSeq(q, n + 1, Len(q))
    /\ n < Len(q) => \A p \in Positions : current'[s[p]] # None

LEMMA DispatchGives ==
  ASSUME NEW q \in Seq(Tasks), NEW s \in [Positions -> Threads],
         NEW c \in [Threads -> Tasks \cup {None}],
         \A p, r \in Positions : s[p] = s[r] => p = r,
         inbox \in [Threads -> Tasks \cup {None}],
         Dispatch(q, s, c)
  PROVE  /\ \E n \in 0..Len(q) : \E taker : Given(n, taker, q, s, c)
         /\ current' \in [Threads -> Tasks \cup {None}]
         /\ inbox' \in [Threads -> Tasks \cup {None}]
         /\ queue' \in Seq(Tasks)
<1>. DEFINE T == Takers(q, s, c)
            taking(t) == {p \in T : s[p] = t}
<1>1. PICK n \in 0..Len(q) :
         /\ Cardinality(T) = n
         /\ \A p \in T : Rank(s, c, p) \in 1..n
         /\ \A m \in 1..n : \E p \in T : Rank(s, c, p) = m
         /\ \A p, r \in T : Rank(s, c, p) = Rank(s, c, r) => p = r
         /\ n < Len(q) => T = FreeIn(s, c)
  BY TakersCount
<1>2. \A p \in T : p \in Positions /\ c[s[p]] = None
  BY DEF Takers
<1>3. /\ current' = [t \in Threads |->
           IF taking(t) = {} THEN c[t] ELSE q[Rank(s, c, CHOOSE p \in taking(t) : TRUE)]]
      /\ inbox' = [t \in Threads |->
           IF taking(t) = {} THEN inbox[t]
           ELSE q[Rank(s, c, CHOOSE p \in taking(t) : TRUE)]]
      /\ queue' = SubSeq(q, n + 1, Len(q))
  BY <1>1 DEF Dispatch
<1>. HIDE DEF T
<1>4. ASSUME NEW p \in T
      PROVE  /\ s[p] \in Threads /\ Rank(s, c, p) \in 1..Len(q)
             /\ current'[s[p]] = q[Rank(s, c, p)] /\ inbox'[s[p]] = q[Rank(s, c, p)]
  <2>1. taking(s[p]) = {p} /\ s[p] \in Threads
    BY <1>2
  <2>2. (CHOOSE r \in taking(s[p]) : TRUE) = p
    BY <2>1
  <2>3. Rank(s, c, p) \in 1..Len(q)
    BY <1>1
  <2>. HIDE DEF taking
  <2>4. taking(s[p]) # {}
    BY <2>1
  <2>5. QED
    BY <1>3, <2>1, <2>2, <2>3, <2>4
<1>5. ASSUME NEW t \in Threads
      PROVE  \/ taking(t) = {} /\ current'[t] = c[t] /\ inbox'[t] = inbox[t]
             \/ \E p \in T : /\ s[p] = t /\ Rank(s, c, p) \in 1..Len(q)
                            /\ current'[t] = q[Rank(s, c, p)]
                            /\ inbox'[t] = q[Rank(s, c, p)]
  <2>1. CASE taking(t) = {}
    BY <1>3, <2>1
  <2>2. CASE taking(t) # {}
    <3>1. PICK p \in T : s[p] = t
      BY <2>2
    <3>2. QED
      BY <1>4, <3>1
  <2>3. QED
    BY <2>1, <2>2
<1>. DEFINE taker == [m \in 1..n |-> CHOOSE p \in T : Rank(s, c, p) = m]
<1>6. \A m \in 1..n : taker[m] \in T /\ Rank(s, c, taker[m]) = m
  BY <1>1
<1>7. \A p \in T : Rank(s, c, p) \in 1..n /\ taker[Rank(s, c, p)] = p
  BY <1>1, <1>6
<1>8. DOMAIN taker = 1..n
  OBVIOUS
<1>9. taker \in [1..n -> Positions]
  BY <1>2, <1>6
<1>. HIDE DEF taker
<1>10. \A m \in 1..n : current'[s[taker[m]]] = q[m]
  BY <1>4, <1>6
<1>11. \A t \in Threads : (\A m \in 1..n : s[taker[m]] # t) => current'[t] = c[t]
  BY <1>5, <1>7
<1>12. n < Len(q) => \A p \in Positions : current'[s[p]] # None
  <2>1. SUFFICES ASSUME n < Len(q), NEW p \in Positions PROVE current'[s[p]] # None
    OBVIOUS
  <2>2. CASE p \in T
    <3>1. current'[s[p]] = q[Rank(s, c, p)] /\ Rank(s, c, p) \in 1..Len(q)
      BY <1>4, <2>2
    <3>2. q[Rank(s, c, p)] \in Tasks
      BY <3>1, ElementOfSeq
    <3>3. QED
      BY <3>1, <3>2, PoolAssumption DEF Tasks
  <2>3. CASE p \notin T
    <3>1. c[s[p]] # None
      BY <1>1, <2>1, <2>3 DEF FreeIn
    <3>2. taking(s[p]) = {}
      BY <1>2, <2>3
    <3>3. QED
      BY <1>3, <3>1, <3>2
  <2>4. QED
    BY <2>2, <2>3
<1>13. Given(n, taker, q, s, c)
  <2>1. \A m, l \in 1..n : taker[m] = taker[l] => m = l
    BY <1>6
  <2>2. \A m \in 1..n : c[s[taker[m]]] = None
    BY <1>2, <1>6
  <2>3. QED
    BY <1>3, <1>9, <1>10, <1>11, <1>12, <2>1, <2>2 DEF Given
<1>14. /\ current' \in [Threads -> Tasks \cup {None}]
       /\ inbox' \in [Threads -> Tasks \cup {None}]
  <2>1. \A t \in Threads : current'[t] \in Tasks \cup {None} /\ inbox'[t] \in Tasks \cup {None}
    BY <1>5, ElementOfSeq
  <2>2. QED
    BY <1>3, <2>1
<1>15. queue' \in Seq(Tasks)
  BY <1>1, <1>3
<1>16. QED
  BY <1>13, <1>14, <1>15

-----------------------------------------------------------------------------
(***************************************************************************)
(* The pool.                                                               *)
(***************************************************************************)
\* A batch is in queue q or with a thread, by c.
Holds(q, c, k) ==
    \/ \E n \in 1..Len(q) : q[n] = k
    \/ \E t \in Threads : c[t] = k

\* No batch is held twice.
Once(q, c) ==
    /\ \A m, n \in 1..Len(q) : q[m] = q[n] => m = n
    /\ \A t, u \in Threads : c[t] = c[u] /\ c[t] # None => t = u
    /\ \A n \in 1..Len(q) : \A t \in Threads : c[t] # q[n]

\* Each slot has a thread of its own, and only a slot's thread has a batch.
SlotsOK ==
    /\ \A p, r \in Positions : slots[p] = slots[r] => p = r
    /\ \A p \in Positions : /\ thread[slots[p]] # "spare"
                            /\ ~shuttingDown => thread[slots[p]] # "gone"
    /\ \A t \in Threads : ~Pooled(t) => current[t] = None

PlaceInv ==
    /\ TypeOK
    /\ SlotsOK
    /\ Once(queue, current)
    /\ \A k \in Tasks : outcome[k] = "waiting" <=> Holds(queue, current, k)
    /\ shuttingDown => queue = <<>>
    /\ NoIdleWhileQueued

LEMMA NoneIsNoTask == None \notin Tasks
  BY PoolAssumption DEF Tasks

\* dispatch moves batches from the queue to slots, and neither drops nor doubles one.
LEMMA DispatchMoves ==
  ASSUME NEW q \in Seq(Tasks), NEW s \in [Positions -> Threads],
         NEW c \in [Threads -> Tasks \cup {None}],
         \A p, r \in Positions : s[p] = s[r] => p = r,
         inbox \in [Threads -> Tasks \cup {None}],
         Once(q, c), Dispatch(q, s, c)
  PROVE  /\ current' \in [Threads -> Tasks \cup {None}]
         /\ inbox' \in [Threads -> Tasks \cup {None}]
         /\ queue' \in Seq(Tasks)
         /\ Once(queue', current')
         /\ \A k \in Tasks : Holds(queue', current', k) <=> Holds(q, c, k)
         /\ \A t \in Threads : (\A p \in Positions : s[p] # t) => current'[t] = c[t]
         /\ queue' # <<>> => \A p \in Positions : current'[s[p]] # None
<1>1. /\ \E n \in 0..Len(q) : \E taker : Given(n, taker, q, s, c)
      /\ current' \in [Threads -> Tasks \cup {None}]
      /\ inbox' \in [Threads -> Tasks \cup {None}]
      /\ queue' \in Seq(Tasks)
  BY DispatchGives
<1>2. PICK n \in 0..Len(q) : \E taker : Given(n, taker, q, s, c)
  BY <1>1
<1>3. PICK taker : Given(n, taker, q, s, c)
  BY <1>2
<1>4. /\ Len(q) \in Nat /\ n \in Nat /\ Len(queue') = Len(q) - n
      /\ \A i \in 1..(Len(q) - n) : n + i \in 1..Len(q) /\ queue'[i] = q[n + i]
  BY <1>3, SubSeqProperties DEF Given
<1>5. \A m \in 1..n : /\ s[taker[m]] \in Threads
                      /\ c[s[taker[m]]] = None /\ current'[s[taker[m]]] = q[m]
                      /\ m \in 1..Len(q)
  BY <1>3 DEF Given
<1>6. \A t \in Threads :
         \/ current'[t] = c[t]
         \/ \E m \in 1..n : t = s[taker[m]] /\ c[t] = None /\ current'[t] = q[m]
  BY <1>3, <1>5 DEF Given
<1>7. \A m \in 1..Len(q) : q[m] \in Tasks /\ q[m] # None
  BY NoneIsNoTask, ElementOfSeq
<1>8. Once(queue', current')
  <2>1. ASSUME NEW t \in Threads, NEW u \in Threads,
               current'[t] = current'[u], current'[t] # None
        PROVE  t = u
    BY <1>5, <1>6, <2>1 DEF Once
  <2>2. \A i, j \in 1..Len(queue') : queue'[i] = queue'[j] => i = j
    BY <1>4 DEF Once
  <2>3. ASSUME NEW i \in 1..Len(queue'), NEW t \in Threads PROVE current'[t] # queue'[i]
    <3>1. /\ n + i \in 1..Len(q) /\ queue'[i] = q[n + i]
          /\ \A m \in 1..n : m \in 1..Len(q) /\ m # n + i
      BY <1>4, <1>5
    <3>2. QED
      BY <1>6, <3>1 DEF Once
  <2>4. QED
    BY <2>1, <2>2, <2>3 DEF Once
<1>9. ASSUME NEW k \in Tasks PROVE Holds(queue', current', k) <=> Holds(q, c, k)
  <2>1. ASSUME NEW m \in 1..Len(q), q[m] = k PROVE Holds(queue', current', k)
    <3>1. CASE m <= n
      BY <1>5, <2>1, <3>1 DEF Holds
    <3>2. CASE ~(m <= n)
      <4>1. m - n \in 1..Len(queue') /\ queue'[m - n] = q[m]
        BY <1>4, <3>2
      <4>2. QED
        BY <2>1, <4>1 DEF Holds
    <3>3. QED
      BY <3>1, <3>2
  <2>2. ASSUME NEW t \in Threads, c[t] = k PROVE Holds(queue', current', k)
    BY <1>6, <2>2, NoneIsNoTask DEF Holds
  <2>3. ASSUME Holds(queue', current', k) PROVE Holds(q, c, k)
    BY <1>4, <1>5, <1>6, <2>3 DEF Holds
  <2>4. QED
    BY <2>1, <2>2, <2>3 DEF Holds
<1>10. \A t \in Threads : (\A p \in Positions : s[p] # t) => current'[t] = c[t]
  BY <1>3, <1>6 DEF Given
<1>11. queue' # <<>> => \A p \in Positions : current'[s[p]] # None
  <2>1. queue' # <<>> => n < Len(q)
    BY <1>1, <1>4, EmptySeq
  <2>2. QED
    BY <1>3, <2>1 DEF Given
<1>12. QED
  BY <1>1, <1>8, <1>9, <1>10, <1>11

LEMMA InitPlaceInv == Init => PlaceInv
<1>. SUFFICES ASSUME Init PROVE PlaceInv
  OBVIOUS
<1>1. Positions \subseteq Threads
  BY PoolAssumption DEF Positions, Threads
<1>2. TypeOK
  <2>1. slots \in [Positions -> Threads]
    BY <1>1 DEF Init
  <2>2. queue \in Seq(Tasks)
    BY EmptySeq DEF Init
  <2>3. thread \in [Threads -> ThreadStates]
    BY DEF Init, ThreadStates
  <2>4. QED
    BY <2>1, <2>2, <2>3 DEF Init, TypeOK
<1>3. SlotsOK
  BY <1>1 DEF Init, SlotsOK
<1>4. Once(queue, current)
  BY DEF Init, Once
<1>5. \A k \in Tasks : ~Holds(queue, current, k)
  BY NoneIsNoTask DEF Init, Holds
<1>6. NoIdleWhileQueued
  BY DEF Init, NoIdleWhileQueued
<1>7. QED
  BY <1>2, <1>3, <1>4, <1>5, <1>6 DEF Init, PlaceInv

\* One step's worth of what a settled promise does: nothing.
Unsettled == \A k \in Tasks : outcome[k] \in Settled => outcome'[k] = outcome[k]

LEMMA SubmitStep ==
  ASSUME PlaceInv, NEW k \in Tasks, Submit(k)
  PROVE  PlaceInv' /\ Unsettled
<1>. USE DEF PlaceInv, TypeOK
<1>1. outcome[k] = "new" /\ UNCHANGED <<slots, shuttingDown, thread, answer>>
  BY DEF Submit
<1>2. Unsettled
  BY <1>1 DEF Submit, Unsettled, Settled
<1>3. CASE shuttingDown
  <2>1. /\ outcome' = [outcome EXCEPT ![k] = "rejected"]
        /\ UNCHANGED <<queue, current, inbox>>
    BY <1>3 DEF Submit
  <2>2. TypeOK'
    BY <1>1, <2>1 DEF Settled
  <2>3. SlotsOK' /\ Once(queue, current)' /\ NoIdleWhileQueued'
    BY <1>1, <2>1 DEF SlotsOK, Pooled, NoIdleWhileQueued
  <2>4. \A j \in Tasks : outcome'[j] = "waiting" <=> Holds(queue, current, j)
    BY <1>1, <2>1
  <2>5. QED
    BY <1>1, <1>2, <2>1, <2>2, <2>3, <2>4
<1>4. CASE ~shuttingDown
  <2>. DEFINE q == Append(queue, k)
  <2>1. /\ outcome' = [outcome EXCEPT ![k] = "waiting"]
        /\ Dispatch(q, slots, current)
    BY <1>4 DEF Submit
  <2>2. /\ q \in Seq(Tasks) /\ Len(q) = Len(queue) + 1 /\ Len(queue) \in Nat
        /\ \A i \in 1..Len(queue) : q[i] = queue[i]
        /\ q[Len(queue) + 1] = k
    BY AppendProperties
  <2>. HIDE DEF q
  <2>3. ~Holds(queue, current, k)
    BY <1>1
  <2>4. Once(q, current)
    <3>1. \A n \in 1..Len(q) : \/ n \in 1..Len(queue) /\ q[n] = queue[n]
                               \/ n = Len(queue) + 1 /\ q[n] = k
      BY <2>2
    <3>2. /\ \A n \in 1..Len(queue) : queue[n] # k
          /\ \A t \in Threads : current[t] # k
      BY <2>3 DEF Holds
    <3>3. QED
      BY <3>1, <3>2 DEF Once
  <2>5. \A j \in Tasks : Holds(q, current, j) <=> Holds(queue, current, j) \/ j = k
    BY <2>2 DEF Holds
  <2>6. /\ current' \in [Threads -> Tasks \cup {None}]
        /\ inbox' \in [Threads -> Tasks \cup {None}]
        /\ queue' \in Seq(Tasks)
        /\ Once(queue', current')
        /\ \A j \in Tasks : Holds(queue', current', j) <=> Holds(q, current, j)
        /\ \A t \in Threads : (\A p \in Positions : slots[p] # t) => current'[t] = current[t]
        /\ queue' # <<>> => \A p \in Positions : current'[slots[p]] # None
    BY <2>1, <2>2, <2>4, DispatchMoves DEF SlotsOK
  <2>7. TypeOK'
    BY <1>1, <2>1, <2>6
  <2>8. SlotsOK' /\ NoIdleWhileQueued'
    BY <1>1, <2>6 DEF SlotsOK, Pooled, NoIdleWhileQueued
  <2>9. \A j \in Tasks : outcome'[j] = "waiting" <=> Holds(queue', current', j)
    BY <2>1, <2>5, <2>6
  <2>10. QED
    BY <1>1, <1>2, <1>4, <2>6, <2>7, <2>8, <2>9
<1>5. QED
  BY <1>3, <1>4

\* When a slot is free again, its batch is held no more.
LEMMA FreedOnce ==
  ASSUME PlaceInv, NEW t \in Threads
  PROVE  /\ Freed(t) \in [Threads -> Tasks \cup {None}]
         /\ \A u \in Threads : Freed(t)[u] = IF u = t THEN None ELSE current[u]
         /\ Once(queue, Freed(t))
         /\ \A k \in Tasks :
              Holds(queue, Freed(t), k) <=> Holds(queue, current, k) /\ k # current[t]
<1>1. /\ Freed(t) \in [Threads -> Tasks \cup {None}]
      /\ \A u \in Threads : Freed(t)[u] = IF u = t THEN None ELSE current[u]
  BY DEF Freed, PlaceInv, TypeOK
<1>2. \A n \in 1..Len(queue) : queue[n] # None
  BY NoneIsNoTask, ElementOfSeq DEF PlaceInv, TypeOK
<1>3. Once(queue, Freed(t))
  BY <1>1, <1>2 DEF PlaceInv, Once
<1>4. ASSUME NEW k \in Tasks
      PROVE  Holds(queue, Freed(t), k) <=> Holds(queue, current, k) /\ k # current[t]
  BY <1>1, NoneIsNoTask DEF PlaceInv, Once, Holds
<1>5. QED
  BY <1>1, <1>3, <1>4

LEMMA MessageStep ==
  ASSUME PlaceInv, NEW t \in Threads, OnMessage(t)
  PROVE  PlaceInv' /\ Unsettled
<1>. USE DEF PlaceInv, TypeOK
<1>1. /\ UNCHANGED <<slots, shuttingDown, thread>>
      /\ answer[t] \in Answers /\ answer' = [answer EXCEPT ![t] = None]
      /\ answer' \in [Threads -> Answers \cup {None}]
  BY DEF OnMessage
<1>2. CASE current[t] # answer[t].task
  <2>1. UNCHANGED <<queue, current, inbox, outcome>>
    BY <1>2 DEF OnMessage
  <2>2. QED
    BY <1>1, <2>1 DEF SlotsOK, Pooled, Once, Holds, NoIdleWhileQueued, Unsettled
<1>3. CASE current[t] = answer[t].task
  <2>. DEFINE k == current[t]
  <2>1. k \in Tasks /\ answer[t].outcome \in Settled
    BY <1>1, <1>3 DEF Answers
  <2>2. outcome' = [outcome EXCEPT ![k] = answer[t].outcome]
    BY <1>3 DEF OnMessage
  <2>3. outcome[k] = "waiting"
    BY <2>1 DEF Holds
  <2>4. Unsettled
    BY <2>2, <2>3 DEF Unsettled, Settled
  <2>5. /\ outcome' \in [Tasks -> {"new", "waiting"} \cup Settled]
        /\ \A j \in Tasks : outcome'[j] = "waiting" <=> outcome[j] = "waiting" /\ j # k
    BY <2>1, <2>2 DEF Settled
  <2>6. /\ Freed(t) \in [Threads -> Tasks \cup {None}]
        /\ \A u \in Threads : Freed(t)[u] = IF u = t THEN None ELSE current[u]
        /\ Once(queue, Freed(t))
        /\ \A j \in Tasks :
             Holds(queue, Freed(t), j) <=> Holds(queue, current, j) /\ j # k
    BY FreedOnce
  <2>. HIDE DEF k
  <2>7. CASE shuttingDown
    <3>1. current' = Freed(t) /\ UNCHANGED <<queue, inbox>>
      BY <1>3, <2>7 DEF OnMessage
    <3>2. TypeOK'
      BY <1>1, <2>5, <2>6, <3>1
    <3>3. SlotsOK' /\ NoIdleWhileQueued'
      BY <1>1, <2>6, <2>7, <3>1 DEF SlotsOK, Pooled, NoIdleWhileQueued
    <3>4. QED
      BY <1>1, <2>4, <2>5, <2>6, <3>1, <3>2, <3>3
  <2>8. CASE ~shuttingDown
    <3>1. Dispatch(queue, slots, Freed(t))
      BY <1>3, <2>8 DEF OnMessage
    <3>2. /\ current' \in [Threads -> Tasks \cup {None}]
          /\ inbox' \in [Threads -> Tasks \cup {None}]
          /\ queue' \in Seq(Tasks)
          /\ Once(queue', current')
          /\ \A j \in Tasks : Holds(queue', current', j) <=> Holds(queue, Freed(t), j)
          /\ \A u \in Threads : (\A p \in Positions : slots[p] # u) => current'[u] = Freed(t)[u]
          /\ queue' # <<>> => \A p \in Positions : current'[slots[p]] # None
      BY <2>6, <3>1, DispatchMoves DEF SlotsOK
    <3>3. TypeOK'
      BY <1>1, <2>5, <3>2
    <3>4. SlotsOK' /\ NoIdleWhileQueued'
      BY <1>1, <2>6, <3>2 DEF SlotsOK, Pooled, NoIdleWhileQueued
    <3>5. QED
      BY <1>1, <2>4, <2>5, <2>6, <2>8, <3>2, <3>3, <3>4
  <2>9. QED
    BY <2>7, <2>8
<1>4. QED
  BY <1>2, <1>3

\* A thread that died: its batch is rejected, its slot given to a new thread.
LEMMA ReplaceStep ==
  ASSUME PlaceInv, NEW t \in Threads, thread[t] \in {"failed", "quit"},
         NEW state \in {"quit", "gone"},
         RejectCurrent(t), ReplaceSlot(t, state), UNCHANGED <<shuttingDown, answer>>
  PROVE  PlaceInv' /\ Unsettled
<1>. USE DEF PlaceInv, TypeOK
<1>1. /\ \A k \in Tasks : outcome'[k] = IF k = current[t] THEN "rejected" ELSE outcome[k]
      /\ outcome' \in [Tasks -> {"new", "waiting"} \cup Settled]
  BY DEF RejectCurrent, Settled
<1>2. /\ Freed(t) \in [Threads -> Tasks \cup {None}]
      /\ \A u \in Threads : Freed(t)[u] = IF u = t THEN None ELSE current[u]
      /\ Once(queue, Freed(t))
      /\ \A j \in Tasks :
           Holds(queue, Freed(t), j) <=> Holds(queue, current, j) /\ j # current[t]
  BY FreedOnce
<1>3. Unsettled
  <2>1. \A k \in Tasks : k = current[t] => outcome[k] = "waiting"
    BY DEF Holds
  <2>2. QED
    BY <1>1, <2>1 DEF Unsettled, Settled
<1>4. CASE shuttingDown \/ ~Pooled(t)
  <2>1. /\ thread' = [thread EXCEPT ![t] = state]
        /\ current' = Freed(t)
        /\ UNCHANGED <<queue, slots, inbox>>
    BY <1>4 DEF ReplaceSlot
  <2>2. TypeOK'
    BY <1>1, <1>2, <2>1 DEF ThreadStates
  <2>3. SlotsOK'
    BY <1>2, <1>4, <2>1 DEF SlotsOK, Pooled
  <2>4. NoIdleWhileQueued'
    BY <1>2, <1>4, <2>1 DEF NoIdleWhileQueued, Pooled
  <2>5. QED
    BY <1>1, <1>2, <1>3, <2>1, <2>2, <2>3, <2>4
<1>5. CASE ~(shuttingDown \/ ~Pooled(t))
  <2>1. PICK n \in Threads :
           /\ thread[n] = "spare"
           /\ slots' = [p \in Positions |-> IF slots[p] = t THEN n ELSE slots[p]]
           /\ thread' = [thread EXCEPT ![t] = state, ![n] = "up"]
           /\ Dispatch(queue, slots', Freed(t))
    BY <1>5 DEF ReplaceSlot
  <2>2. n # t /\ \A p \in Positions : slots[p] # n
    BY <2>1 DEF SlotsOK
  <2>3. /\ slots' \in [Positions -> Threads]
        /\ \A p, r \in Positions : slots'[p] = slots'[r] => p = r
        /\ \A p \in Positions : slots'[p] # t
    BY <2>1, <2>2 DEF SlotsOK
  <2>4. /\ current' \in [Threads -> Tasks \cup {None}]
        /\ inbox' \in [Threads -> Tasks \cup {None}]
        /\ queue' \in Seq(Tasks)
        /\ Once(queue', current')
        /\ \A j \in Tasks : Holds(queue', current', j) <=> Holds(queue, Freed(t), j)
        /\ \A u \in Threads : (\A p \in Positions : slots'[p] # u) => current'[u] = Freed(t)[u]
        /\ queue' # <<>> => \A p \in Positions : current'[slots'[p]] # None
    BY <1>2, <2>1, <2>3, DispatchMoves
  <2>5. thread' \in [Threads -> ThreadStates]
    BY <2>1 DEF ThreadStates
  <2>6. TypeOK'
    BY <1>1, <2>3, <2>4, <2>5
  <2>7. SlotsOK'
    <3>1. \A p \in Positions : thread'[slots'[p]] # "spare" /\ thread'[slots'[p]] # "gone"
      BY <1>5, <2>1, <2>2, <2>3 DEF SlotsOK
    <3>2. ASSUME NEW u \in Threads, \A p \in Positions : slots'[p] # u
          PROVE  current'[u] = None
      BY <1>2, <2>1, <2>4, <3>2 DEF SlotsOK, Pooled
    <3>3. QED
      BY <2>3, <3>1, <3>2 DEF SlotsOK, Pooled
  <2>8. NoIdleWhileQueued'
    BY <2>4 DEF NoIdleWhileQueued
  <2>9. QED
    BY <1>1, <1>2, <1>3, <1>5, <2>4, <2>6, <2>7, <2>8
<1>6. QED
  BY <1>4, <1>5

LEMMA ExitStep ==
  ASSUME PlaceInv, NEW t \in Threads, OnExit(t)
  PROVE  PlaceInv' /\ Unsettled
<1>1. CASE shuttingDown
  <2>1. /\ thread' = [thread EXCEPT ![t] = "gone"]
        /\ UNCHANGED <<queue, slots, current, inbox, outcome, shuttingDown, answer>>
        /\ thread[t] = "quit"
    BY <1>1 DEF OnExit
  <2>2. thread' \in [Threads -> ThreadStates]
    BY <2>1 DEF PlaceInv, TypeOK, ThreadStates
  <2>3. QED
    BY <1>1, <2>1, <2>2
       DEF PlaceInv, TypeOK, SlotsOK, Pooled, Once, Holds, NoIdleWhileQueued, Unsettled
<1>2. CASE ~shuttingDown
  BY <1>2, ReplaceStep DEF OnExit
<1>3. QED
  BY <1>1, <1>2

LEMMA ShutdownStep ==
  ASSUME PlaceInv, Shutdown
  PROVE  PlaceInv' /\ Unsettled
<1>. USE DEF PlaceInv, TypeOK
<1>1. /\ queue' = <<>> /\ Len(queue') = 0 /\ queue' \in Seq(Tasks)
      /\ shuttingDown' = TRUE /\ UNCHANGED <<slots, current, thread, inbox, answer>>
      /\ \A k \in Tasks : outcome'[k] =
            IF \E n \in 1..Len(queue) : queue[n] = k THEN "rejected" ELSE outcome[k]
      /\ outcome' \in [Tasks -> {"new", "waiting"} \cup Settled]
  BY DEF Shutdown, Settled
<1>2. Unsettled
  BY <1>1 DEF Unsettled, Settled, Holds
<1>3. SlotsOK' /\ NoIdleWhileQueued' /\ TypeOK' /\ Once(queue, current)'
  BY <1>1 DEF SlotsOK, Pooled, NoIdleWhileQueued, Once
<1>4. \A k \in Tasks : outcome'[k] = "waiting" <=> Holds(queue', current', k)
  BY <1>1 DEF Holds, Once
<1>5. QED
  BY <1>1, <1>2, <1>3, <1>4

LEMMA ThreadStep ==
  ASSUME PlaceInv, NEW t \in Threads, Compute(t) \/ Fail(t) \/ Quit(t)
  PROVE  PlaceInv' /\ Unsettled
<1>. USE DEF PlaceInv, TypeOK
<1>1. UNCHANGED <<queue, slots, current, shuttingDown, outcome>>
  BY DEF Compute, Fail, Quit
<1>2. /\ inbox' \in [Threads -> Tasks \cup {None}]
      /\ answer' \in [Threads -> Answers \cup {None}]
      /\ thread' \in [Threads -> ThreadStates]
      /\ \A u \in Threads : thread'[u] # thread[u] => thread'[u] \in {"failed", "quit"}
  <2>1. CASE Compute(t)
    <3>1. inbox[t] \in Tasks
      BY <2>1 DEF Compute
    <3>2. QED
      BY <2>1, <3>1 DEF Compute, Answers
  <2>2. CASE Fail(t) \/ Quit(t)
    BY <2>2 DEF Fail, Quit, ThreadStates
  <2>3. QED
    BY <2>1, <2>2
<1>3. SlotsOK'
  BY <1>1, <1>2 DEF SlotsOK, Pooled
<1>4. QED
  BY <1>1, <1>2, <1>3 DEF Once, Holds, NoIdleWhileQueued, Unsettled

LEMMA PlaceInvStep ==
  PlaceInv /\ [Next]_vars => PlaceInv' /\ (Unsettled \/ UNCHANGED vars)
<1>. SUFFICES ASSUME PlaceInv, [Next]_vars
              PROVE  PlaceInv' /\ (Unsettled \/ UNCHANGED vars)
  OBVIOUS
<1>1. CASE UNCHANGED vars
  BY <1>1 DEF vars, PlaceInv, TypeOK, SlotsOK, Pooled, Once, Holds, NoIdleWhileQueued
<1>2. ASSUME NEW t \in Threads, OnError(t) PROVE PlaceInv' /\ Unsettled
  BY <1>2, ReplaceStep DEF OnError
<1>3. QED
  BY <1>1, <1>2, SubmitStep, MessageStep, ExitStep, ShutdownStep, ThreadStep DEF Next, Event

LEMMA PlaceInvariant == Spec => []PlaceInv
  BY InitPlaceInv, PlaceInvStep, PTL DEF Spec

\* Until it shuts down the pool keeps a thread in each slot whose death, if it died, is
\* still to be reported: errors and exits, in any order, respawn it exactly once.
THEOREM PoolIsFull == Spec => []PoolStaysFull
<1>1. PlaceInv => PoolStaysFull
  BY DEF PlaceInv, SlotsOK, PoolStaysFull
<1>2. QED
  BY <1>1, PlaceInvariant, PTL

\* No batch waits beside a free slot, after any handler.
THEOREM NothingIdles == Spec => []NoIdleWhileQueued
<1>1. PlaceInv => NoIdleWhileQueued
  BY DEF PlaceInv
<1>2. QED
  BY <1>1, PlaceInvariant, PTL

\* A batch is in exactly one place while its promise is pending, and in none afterwards:
\* dispatch, deaths, replacements and shutdown neither lose nor double one.
THEOREM TasksAreInOnePlace == Spec => []TaskInOnePlace
<1>1. PlaceInv => TaskInOnePlace
  <2>. SUFFICES ASSUME PlaceInv, NEW k \in Tasks
                PROVE  Copies(k) = IF outcome[k] = "waiting" THEN 1 ELSE 0
    BY DEF TaskInOnePlace
  <2>. DEFINE inQueue == {n \in 1..Len(queue) : queue[n] = k}
              inSlots == {p \in Positions : current[slots[p]] = k}
  <2>1. /\ Cardinality({}) = 0 /\ \A x : Cardinality({x}) = 1
        /\ Copies(k) = Cardinality(inQueue) + Cardinality(inSlots)
    BY FS_EmptySet, FS_Singleton DEF Copies
  <2>2. ASSUME NEW t \in Threads, current[t] = k PROVE \E p \in Positions : slots[p] = t
    BY <2>2, NoneIsNoTask DEF PlaceInv, SlotsOK, Pooled
  <2>3. CASE \E n \in 1..Len(queue) : queue[n] = k
    <3>1. PICK n \in 1..Len(queue) : queue[n] = k
      BY <2>3
    <3>2. inQueue = {n} /\ inSlots = {}
      BY <3>1 DEF PlaceInv, TypeOK, Once
    <3>3. outcome[k] = "waiting"
      BY <3>1 DEF PlaceInv, Holds
    <3>. HIDE DEF inQueue, inSlots
    <3>4. Cardinality(inQueue) = 1 /\ Cardinality(inSlots) = 0
      BY <2>1, <3>2, Zenon
    <3>5. QED
      BY <2>1, <3>3, <3>4
  <2>4. CASE \E t \in Threads : current[t] = k
    <3>1. PICK t \in Threads : current[t] = k
      BY <2>4
    <3>2. PICK p \in Positions : slots[p] = t
      BY <2>2, <3>1
    <3>3. inQueue = {}
      BY <3>1 DEF PlaceInv, Once
    <3>4. inSlots = {p}
      BY <3>1, <3>2, NoneIsNoTask DEF PlaceInv, TypeOK, Once, SlotsOK
    <3>5. outcome[k] = "waiting"
      BY <3>1 DEF PlaceInv, Holds
    <3>. HIDE DEF inQueue, inSlots
    <3>6. Cardinality(inQueue) = 0 /\ Cardinality(inSlots) = 1
      BY <2>1, <3>3, <3>4, Zenon
    <3>7. QED
      BY <2>1, <3>5, <3>6
  <2>5. CASE ~Holds(queue, current, k)
    <3>1. inQueue = {} /\ inSlots = {}
      BY <2>5 DEF Holds, PlaceInv, TypeOK
    <3>2. outcome[k] # "waiting"
      BY <2>5 DEF PlaceInv
    <3>. HIDE DEF inQueue, inSlots
    <3>3. QED
      BY <2>1, <3>1, <3>2
  <2>6. QED
    BY <2>3, <2>4, <2>5 DEF Holds
<1>2. QED
  BY <1>1, PlaceInvariant, PTL

\* A promise is settled once: no answer, death or shutdown that comes later changes it.
THEOREM SettledOnce ==
  Spec => [][\A k \in Tasks : outcome[k] \in Settled => outcome'[k] = outcome[k]]_vars
<1>1. PlaceInv /\ [Next]_vars =>
        [\A k \in Tasks : outcome[k] \in Settled => outcome'[k] = outcome[k]]_vars
  BY PlaceInvStep DEF Unsettled
<1>2. QED
  BY <1>1, PlaceInvariant, PTL DEF Spec

-----------------------------------------------------------------------------
(***************************************************************************)
(* The semaphore.                                                          *)
(***************************************************************************)
\* What a flush does with its permit is no step of the pool's.
THEOREM FlushImplementsPool == FlushSpec => Spec
<1>1. FlushInit => Init
  BY DEF FlushInit
<1>2. [FlushNext]_flushVars => [Next]_vars
  BY DEF FlushNext, EndPersist, flushVars
<1>3. QED
  BY <1>1, <1>2, PTL DEF FlushSpec, Spec

Running == {k \in Tasks : persist[k] = "running"}

\* Those who wait are each waiting once, and only scored batches are on their way.
PermitInv ==
    /\ FlushTypeOK
    /\ \A m, n \in 1..Len(waiters) : waiters[m] = waiters[n] => m = n
    /\ \A n \in 1..Len(waiters) : persist[waiters[n]] = "waiting"
    /\ \A k \in Tasks : persist[k] # "before" => outcome[k] = "resolved"
    /\ PermitsAccounted

LEMMA RunningFinite == IsFiniteSet(Running) /\ Cardinality(Running) \in Nat
<1>1. IsFiniteSet(Tasks)
  BY PoolAssumption, FS_Interval DEF Tasks
<1>2. Running \in SUBSET Tasks
  BY DEF Running
<1>3. QED
  BY <1>1, <1>2, FS_Subset, FS_CardinalityType

LEMMA InitPermitInv == FlushInit => PermitInv
<1>. SUFFICES ASSUME FlushInit PROVE PermitInv
  OBVIOUS
<1>1. TypeOK
  BY InitPlaceInv DEF FlushInit, PlaceInv
<1>2. waiters = <<>> /\ waiters \in Seq(Tasks) /\ Len(waiters) = 0
  BY EmptySeq DEF FlushInit
<1>3. FlushTypeOK
  BY <1>1, <1>2, FlushAssumption DEF FlushInit, FlushTypeOK
<1>4. {k \in Tasks : persist[k] = "running"} = {}
  BY DEF FlushInit
<1>5. PermitsAccounted
  BY <1>2, <1>4, FS_EmptySet, FlushAssumption DEF FlushInit, PermitsAccounted
<1>6. QED
  BY <1>2, <1>3, <1>5 DEF FlushInit, PermitInv

\* A permit is taken, or waited for, by a batch whose promise has just resolved.
LEMMA AcquireStep ==
  ASSUME PermitInv, NEW k \in Tasks, persist[k] = "before", Acquire(k)
  PROVE  /\ available' \in 0..MAX_CONCURRENT_PERSISTS
         /\ waiters' \in Seq(Tasks)
         /\ persist' \in [Tasks -> {"before", "waiting", "running", "done"}]
         /\ \A m, n \in 1..Len(waiters') : waiters'[m] = waiters'[n] => m = n
         /\ \A n \in 1..Len(waiters') : persist'[waiters'[n]] = "waiting"
         /\ \A j \in Tasks : j # k => persist'[j] = persist[j]
         /\ PermitsAccounted'
<1>. USE DEF PermitInv, FlushTypeOK
<1>1. IsFiniteSet(Running) /\ Cardinality(Running) \in Nat
  BY RunningFinite
<1>2. /\ available + Cardinality(Running) = MAX_CONCURRENT_PERSISTS
      /\ waiters # <<>> => available = 0
      /\ MAX_CONCURRENT_PERSISTS \in Nat /\ available \in Nat
  BY FlushAssumption DEF PermitsAccounted, Running
<1>3. CASE available > 0
  <2>1. /\ available' = available - 1 /\ waiters' = waiters
        /\ persist' = [persist EXCEPT ![k] = "running"]
    BY <1>2, <1>3 DEF Acquire
  <2>2. waiters' = <<>> /\ Len(waiters') = 0
    BY <1>2, <1>3, <2>1, EmptySeq
  <2>3. Running' = Running \cup {k} /\ k \notin Running
    BY <2>1 DEF Running
  <2>4. Cardinality(Running') = Cardinality(Running) + 1
    BY <1>1, <2>3, FS_AddElement
  <2>5. PermitsAccounted'
    BY <1>1, <1>2, <2>1, <2>2, <2>4 DEF PermitsAccounted, Running
  <2>6. QED
    BY <1>2, <1>3, <2>1, <2>2, <2>5
<1>4. CASE available = 0
  <2>1. /\ available' = available /\ waiters' = Append(waiters, k)
        /\ persist' = [persist EXCEPT ![k] = "waiting"]
    BY <1>4 DEF Acquire
  <2>2. /\ waiters' \in Seq(Tasks) /\ Len(waiters') = Len(waiters) + 1
        /\ Len(waiters) \in Nat
        /\ \A n \in 1..Len(waiters) : waiters'[n] = waiters[n]
        /\ waiters'[Len(waiters) + 1] = k
    BY <2>1, AppendProperties
  <2>3. \A n \in 1..Len(waiters') :
           \/ n \in 1..Len(waiters) /\ waiters'[n] = waiters[n]
           \/ n = Len(waiters) + 1 /\ waiters'[n] = k
    BY <2>2
  <2>4. \A n \in 1..Len(waiters) : waiters[n] # k /\ waiters[n] \in Tasks
    BY ElementOfSeq
  <2>5. \A m, n \in 1..Len(waiters') : waiters'[m] = waiters'[n] => m = n
    BY <2>3, <2>4
  <2>6. \A n \in 1..Len(waiters') : persist'[waiters'[n]] = "waiting"
    BY <2>1, <2>3, <2>4
  <2>7. Running' = Running
    BY <2>1 DEF Running
  <2>8. PermitsAccounted'
    BY <1>2, <1>4, <2>1, <2>7 DEF PermitsAccounted, Running
  <2>9. QED
    BY <2>1, <2>2, <2>5, <2>6, <2>8
<1>5. QED
  BY <1>2, <1>3, <1>4

LEMMA QueueOrAcquire ==
  ASSUME PlaceInv, PlaceInv', PermitInv, Next, ContinueScored
  PROVE  PermitInv'
<1>1. Unsettled
  BY PlaceInvStep DEF Unsettled, vars
<1>2. CASE UNCHANGED permitVars
  BY <1>1, <1>2
     DEF permitVars, PermitInv, FlushTypeOK, PlaceInv, PermitsAccounted, Unsettled, Settled
<1>3. CASE \E k \in Tasks : /\ outcome[k] = "waiting" /\ outcome'[k] = "resolved"
                            /\ Acquire(k)
  <2>1. PICK k \in Tasks : /\ outcome[k] = "waiting" /\ outcome'[k] = "resolved"
                           /\ Acquire(k)
    BY <1>3
  <2>2. persist[k] = "before"
    BY <2>1 DEF PermitInv
  <2>3. /\ available' \in 0..MAX_CONCURRENT_PERSISTS
        /\ waiters' \in Seq(Tasks)
        /\ persist' \in [Tasks -> {"before", "waiting", "running", "done"}]
        /\ \A m, n \in 1..Len(waiters') : waiters'[m] = waiters'[n] => m = n
        /\ \A n \in 1..Len(waiters') : persist'[waiters'[n]] = "waiting"
        /\ \A j \in Tasks : j # k => persist'[j] = persist[j]
        /\ PermitsAccounted'
    BY <2>1, <2>2, AcquireStep
  <2>4. \A j \in Tasks : persist'[j] # "before" => outcome'[j] = "resolved"
    BY <1>1, <2>1, <2>3 DEF PermitInv, Unsettled, Settled
  <2>5. QED
    BY <2>3, <2>4 DEF PermitInv, FlushTypeOK, PlaceInv
<1>4. QED
  BY <1>2, <1>3 DEF ContinueScored

\* A permit given back goes to the first that waits.
LEMMA ReleaseStep ==
  ASSUME PermitInv, NEW k \in Tasks, EndPersist(k)
  PROVE  PermitInv'
<1>. USE DEF PermitInv, FlushTypeOK
<1>1. IsFiniteSet(Running) /\ Cardinality(Running) \in Nat
  BY RunningFinite
<1>2. /\ available + Cardinality(Running) = MAX_CONCURRENT_PERSISTS
      /\ waiters # <<>> => available = 0
      /\ MAX_CONCURRENT_PERSISTS \in Nat /\ available \in Nat
  BY FlushAssumption DEF PermitsAccounted, Running
<1>3. persist[k] = "running" /\ k \in Running /\ TypeOK' /\ UNCHANGED outcome
  BY DEF EndPersist, vars, TypeOK, Running
<1>4. IsFiniteSet(Running \ {k}) /\ Cardinality(Running \ {k}) = Cardinality(Running) - 1
  BY <1>1, <1>3, FS_RemoveElement
<1>5. CASE waiters # <<>>
  <2>. DEFINE h == Head(waiters)
  <2>1. /\ persist' = [persist EXCEPT ![k] = "done", ![h] = "running"]
        /\ waiters' = Tail(waiters) /\ available' = available
    BY <1>5 DEF EndPersist, Release
  <2>2. /\ Len(waiters) \in Nat \ {0} /\ h = waiters[1]
        /\ waiters' \in Seq(Tasks) /\ Len(waiters') = Len(waiters) - 1
        /\ \A n \in 1..Len(waiters') : waiters'[n] = waiters[n + 1]
    BY <1>5, <2>1, HeadTailProperties, EmptySeq
  <2>3. \A n \in 1..Len(waiters') : n \in Nat /\ n + 1 \in 1..Len(waiters) /\ n + 1 # 1
    BY <2>2
  <2>4. /\ h \in Tasks /\ persist[h] = "waiting" /\ h # k
        /\ \A n \in 1..Len(waiters) : waiters[n] \in Tasks
        /\ 1 \in 1..Len(waiters)
    BY <1>3, <2>2, ElementOfSeq
  <2>. HIDE DEF h
  <2>5. \A n \in 1..Len(waiters') : persist'[waiters'[n]] = "waiting"
    <3>1. ASSUME NEW n \in 1..Len(waiters')
          PROVE  waiters'[n] \in Tasks /\ waiters'[n] # h /\ persist[waiters'[n]] = "waiting"
      BY <2>2, <2>3, <2>4
    <3>2. QED
      BY <1>3, <2>1, <3>1
  <2>6. \A m, n \in 1..Len(waiters') : waiters'[m] = waiters'[n] => m = n
    BY <2>2, <2>3
  <2>7. Running' = (Running \ {k}) \cup {h} /\ h \notin Running \ {k}
    BY <1>3, <2>1, <2>4 DEF Running
  <2>8. Cardinality(Running') = Cardinality(Running)
    <3>1. Cardinality(Running') = Cardinality(Running \ {k}) + 1
      BY <1>4, <2>7, FS_AddElement
    <3>2. QED
      BY <1>1, <1>4, <3>1
  <2>9. PermitsAccounted'
    BY <1>2, <1>5, <2>1, <2>8 DEF PermitsAccounted, Running
  <2>10. /\ persist' \in [Tasks -> {"before", "waiting", "running", "done"}]
         /\ \A j \in Tasks : persist'[j] # "before" => outcome'[j] = "resolved"
    BY <1>3, <2>1, <2>4
  <2>11. QED
    BY <1>3, <2>1, <2>2, <2>5, <2>6, <2>9, <2>10
<1>6. CASE waiters = <<>>
  <2>1. /\ persist' = [persist EXCEPT ![k] = "done"]
        /\ waiters' = waiters /\ available' = available + 1
    BY <1>6 DEF EndPersist, Release
  <2>2. Running' = Running \ {k}
    BY <1>3, <2>1 DEF Running
  <2>3. PermitsAccounted'
    <3>1. Cardinality(Running') = Cardinality(Running) - 1
      BY <1>4, <2>2
    <3>2. available' + Cardinality(Running') = MAX_CONCURRENT_PERSISTS
      BY <1>1, <1>2, <2>1, <3>1
    <3>3. QED
      BY <1>6, <2>1, <3>2 DEF PermitsAccounted, Running
  <2>4. Cardinality(Running') \in Nat
    BY <1>4, <2>2, FS_CardinalityType
  <2>5. available' \in 0..MAX_CONCURRENT_PERSISTS
    BY <1>1, <1>2, <1>4, <2>1, <2>2, <2>4
  <2>6. Len(waiters) = 0
    BY <1>6, EmptySeq
  <2>7. QED
    BY <1>3, <2>1, <2>3, <2>5, <2>6
<1>7. QED
  BY <1>5, <1>6

LEMMA PermitInvStep ==
  PlaceInv' /\ PlaceInv /\ PermitInv /\ [FlushNext]_flushVars => PermitInv'
<1>1. ASSUME PermitInv, UNCHANGED flushVars PROVE PermitInv'
  BY <1>1 DEF flushVars, vars, permitVars, PermitInv, FlushTypeOK, TypeOK, PermitsAccounted
<1>2. QED
  BY <1>1, QueueOrAcquire, ReleaseStep DEF FlushNext

\* The permits out and the permits left are always the limit, and nobody waits beside
\* one that is left, whether persisting succeeds or throws.
THEOREM PermitsAreAccounted == FlushSpec => []PermitsAccounted
<1>1. FlushSpec => []PlaceInv
  BY FlushImplementsPool, PlaceInvariant, PTL
<1>2. PermitInv => PermitsAccounted
  BY DEF PermitInv
<1>3. QED
  BY <1>1, <1>2, InitPermitInv, PermitInvStep, PTL DEF FlushSpec
=============================================================================
