--------------------------- MODULE ImportFileProofs ---------------------------
(***************************************************************************)
(* Proofs about ImportPipeline and ImportFile, for any files, keys and     *)
(* runs: what persistBatch and its retries keep, and what the bytes of a   *)
(* file have to do with the counters and the rows of its import.           *)
(***************************************************************************)
EXTENDS ImportFile, FiniteSetTheorems, TLAPS

-----------------------------------------------------------------------------
(***************************************************************************)
(* The sets a batch is made of.                                            *)
(***************************************************************************)
LEMMA LineType ==
  ASSUME TypeOK, NEW r \in Runs, NEW n \in 1..Len(file[importOf[r]])
  PROVE  Line(r, n) \in Lines
<1>1. file[importOf[r]] \in Seq(Lines)
  BY PipelineAssumption DEF TypeOK, StoreTypeOK, RunTypeOK
<1>2. QED
  BY <1>1 DEF Line

LEMMA PendingFinite ==
  ASSUME TypeOK, NEW r \in Runs, NEW n \in Nat
  PROVE  /\ IsFiniteSet(PendingUpTo(r, n))
         /\ Cardinality(PendingUpTo(r, n)) \in Nat
<1>1. flushed[r] + 1 \in Int
  BY DEF TypeOK, StoreTypeOK, RunTypeOK
<1>2. IsFiniteSet((flushed[r] + 1)..n)
  BY <1>1, FS_Interval
<1>3. PendingUpTo(r, n) \in SUBSET ((flushed[r] + 1)..n)
  BY DEF PendingUpTo
<1>4. IsFiniteSet(PendingUpTo(r, n))
  BY <1>2, <1>3, FS_Subset
<1>5. QED
  BY <1>4, FS_CardinalityType

\* A batch grows by at most one line at a time.
LEMMA PendingGrows ==
  ASSUME TypeOK, NEW r \in Runs
  PROVE  Cardinality(PendingUpTo(r, line[r] + 1)) <= Cardinality(Pending(r)) + 1
<1>1. line[r] \in Nat /\ flushed[r] \in Nat /\ flushed[r] <= line[r]
  BY DEF TypeOK, StoreTypeOK, RunTypeOK
<1>2. IsFiniteSet(Pending(r)) /\ Cardinality(Pending(r)) \in Nat
  BY <1>1, PendingFinite DEF Pending
<1>3. CASE Line(r, line[r] + 1) = Blank
  <2>1. ASSUME NEW m PROVE m \in PendingUpTo(r, line[r] + 1) <=> m \in Pending(r)
    BY <1>1, <1>3 DEF PendingUpTo, Pending
  <2>2. PendingUpTo(r, line[r] + 1) = Pending(r)
    BY <2>1 DEF PendingUpTo, Pending
  <2>3. QED
    BY <1>2, <2>2
<1>4. CASE Line(r, line[r] + 1) # Blank
  <2>1. ASSUME NEW m
        PROVE  m \in PendingUpTo(r, line[r] + 1) <=> m \in Pending(r) \cup {line[r] + 1}
    BY <1>1, <1>4 DEF PendingUpTo, Pending
  <2>2. PendingUpTo(r, line[r] + 1) = Pending(r) \cup {line[r] + 1}
    BY <2>1 DEF PendingUpTo, Pending
  <2>3. \/ Cardinality(Pending(r) \cup {line[r] + 1}) = Cardinality(Pending(r))
        \/ Cardinality(Pending(r) \cup {line[r] + 1}) = Cardinality(Pending(r)) + 1
    BY <1>2, FS_AddElement, Zenon
  <2>4. \/ Cardinality(PendingUpTo(r, line[r] + 1)) = Cardinality(Pending(r))
        \/ Cardinality(PendingUpTo(r, line[r] + 1)) = Cardinality(Pending(r)) + 1
    BY <2>2, <2>3, Zenon
  <2>5. QED
    BY <1>2, <2>4
<1>5. QED
  BY <1>3, <1>4

\* A batch is made of its valid and its bad lines.
LEMMA BatchSplits ==
  ASSUME TypeOK, NEW r \in Runs
  PROVE  /\ Cardinality(ScoringBatch(r)) \in Nat
         /\ Cardinality(RejectedBatch(r)) \in Nat
         /\ IsFiniteSet(ScoringBatch(r))
         /\ Cardinality(Pending(r)) =
              Cardinality(ScoringBatch(r)) + Cardinality(RejectedBatch(r))
<1>1. IsFiniteSet(Pending(r))
  BY PendingFinite DEF Pending, TypeOK, StoreTypeOK, RunTypeOK
<1>2. ScoringBatch(r) \in SUBSET Pending(r) /\ RejectedBatch(r) \in SUBSET Pending(r)
  BY DEF ScoringBatch, RejectedBatch
<1>3. IsFiniteSet(ScoringBatch(r)) /\ IsFiniteSet(RejectedBatch(r))
  BY <1>1, <1>2, FS_Subset
<1>4. /\ Pending(r) = ScoringBatch(r) \cup RejectedBatch(r)
      /\ ScoringBatch(r) \cap RejectedBatch(r) = {}
  BY DEF ScoringBatch, RejectedBatch
<1>5. /\ Cardinality(ScoringBatch(r)) \in Nat
      /\ Cardinality(RejectedBatch(r)) \in Nat
  BY <1>3, FS_CardinalityType
<1>6. Cardinality(Pending(r)) = Cardinality(ScoringBatch(r))
         + Cardinality(RejectedBatch(r)) - Cardinality({})
  BY <1>3, <1>4, FS_Union
<1>7. QED
  BY <1>3, <1>5, <1>6, FS_EmptySet

\* An INSERT never returns more rows than it was given lines: two lines with the
\* same key count once.
LEMMA InsertedBound ==
  ASSUME TypeOK, NEW r \in Runs
  PROVE  /\ IsFiniteSet(NewKeys(r))
         /\ InsertedCount(r) \in Nat
         /\ InsertedCount(r) <= Cardinality(ScoringBatch(r))
<1>. DEFINE g == [k \in NewKeys(r) |-> CHOOSE m \in ScoringBatch(r) : Line(r, m) = k]
<1>1. \A k \in NewKeys(r) : g[k] \in ScoringBatch(r) /\ Line(r, g[k]) = k
  BY DEF NewKeys
<1>2. g \in [NewKeys(r) -> ScoringBatch(r)]
  BY <1>1
<1>3. g \in Injection(NewKeys(r), ScoringBatch(r))
  BY <1>1, <1>2 DEF Injection, IsInjective
<1>4. QED
  BY <1>3, BatchSplits, FS_Injection, FS_CardinalityType DEF InsertedCount

-----------------------------------------------------------------------------
(***************************************************************************)
(* One persistBatch.                                                       *)
(***************************************************************************)
Owned(i) == {k \in Keys : owner[k] = i}

LEMMA OwnedFinite ==
  ASSUME NEW i PROVE IsFiniteSet(Owned(i)) /\ Cardinality(Owned(i)) \in Nat
<1>1. Owned(i) \in SUBSET Keys
  BY DEF Owned
<1>2. QED
  BY <1>1, PipelineAssumption, FS_Subset, FS_CardinalityType

LEMMA BatchKeepsTypes ==
  ASSUME TypeOK, NEW r \in Runs, PersistBatch(r), UNCHANGED <<file, importOf>>
  PROVE  /\ owner' \in [Keys -> Imports \cup {None}]
         /\ \A i \in Imports : rejectedRows'[i] \in [1..Len(file[i]) -> Nat]
         /\ processed' \in [Imports -> Nat] /\ accepted' \in [Imports -> Nat]
         /\ duplicates' \in [Imports -> Nat] /\ rejected' \in [Imports -> Nat]
<1>. DEFINE i == importOf[r]
<1>1. i \in Imports
  BY DEF TypeOK, StoreTypeOK, RunTypeOK
<1>2. owner' \in [Keys -> Imports \cup {None}]
  BY <1>1 DEF PersistBatch, TypeOK, StoreTypeOK, RunTypeOK
<1>3. /\ ProcessedDelta(r) \in Nat /\ InsertedCount(r) \in Nat
      /\ Cardinality(RejectedBatch(r)) \in Nat
      /\ Cardinality(ScoringBatch(r)) \in Nat
      /\ InsertedCount(r) <= Cardinality(ScoringBatch(r))
  BY BatchSplits, InsertedBound DEF ProcessedDelta
<1>4. Cardinality(ScoringBatch(r)) - InsertedCount(r) \in Nat
  BY <1>3
<1>5. /\ processed \in [Imports -> Nat] /\ accepted \in [Imports -> Nat]
      /\ duplicates \in [Imports -> Nat] /\ rejected \in [Imports -> Nat]
  BY DEF TypeOK, StoreTypeOK, RunTypeOK
<1>6. /\ processed' \in [Imports -> Nat] /\ accepted' \in [Imports -> Nat]
      /\ duplicates' \in [Imports -> Nat] /\ rejected' \in [Imports -> Nat]
  <2>1. processed' = [processed EXCEPT ![i] = @ + ProcessedDelta(r)]
    BY DEF PersistBatch
  <2>2. accepted' = [accepted EXCEPT ![i] = @ + InsertedCount(r)]
    BY DEF PersistBatch
  <2>3. duplicates' = [duplicates EXCEPT
                         ![i] = @ + (Cardinality(ScoringBatch(r)) - InsertedCount(r))]
    BY DEF PersistBatch
  <2>4. rejected' = [rejected EXCEPT ![i] = @ + Cardinality(RejectedBatch(r))]
    BY DEF PersistBatch
  <2>. HIDE DEF i
  <2>5. processed' \in [Imports -> Nat] /\ accepted' \in [Imports -> Nat]
    BY <1>1, <1>3, <1>5, <2>1, <2>2
  <2>6. duplicates' \in [Imports -> Nat]
    BY <1>1, <1>4, <1>5, <2>3
  <2>7. rejected' \in [Imports -> Nat]
    BY <1>1, <1>3, <1>5, <2>4
  <2>8. QED
    BY <2>5, <2>6, <2>7
<1>7. ASSUME NEW j \in Imports PROVE rejectedRows'[j] \in [1..Len(file[j]) -> Nat]
  <2>1. rejectedRows'[j] = [n \in 1..Len(file[j]) |->
           IF j = i /\ n \in RejectedBatch(r) THEN rejectedRows[j][n] + 1
                                             ELSE rejectedRows[j][n]]
    BY <1>1 DEF PersistBatch
  <2>2. \A n \in 1..Len(file[j]) : rejectedRows[j][n] \in Nat
    BY DEF TypeOK, StoreTypeOK, RunTypeOK
  <2>3. QED
    BY <2>1, <2>2
<1>8. QED
  BY <1>2, <1>6, <1>7

\* After the transaction nothing of the batch, and nothing stored before, is missing.
LEMMA BatchIsStored ==
  ASSUME TypeOK, NEW r \in Runs, PersistBatch(r), UNCHANGED <<file, importOf>>
  PROVE  /\ \A k \in Keys : owner[k] # None => owner'[k] = owner[k]
         /\ \A m \in Pending(r) : Line(r, m) \in Keys => owner'[Line(r, m)] # None
         /\ \A i \in Imports : \A n \in 1..Len(file[i]) :
               rejectedRows[i][n] > 0 => rejectedRows'[i][n] > 0
         /\ \A m \in Pending(r) :
               Line(r, m) = Bad => rejectedRows'[importOf[r]][m] > 0
<1>1. importOf[r] \in Imports /\ None \notin Imports
  BY PipelineAssumption DEF TypeOK, StoreTypeOK, RunTypeOK
<1>2. \A k \in Keys : owner[k] # None => owner'[k] = owner[k]
  BY DEF PersistBatch, NewKeys
<1>3. ASSUME NEW m \in Pending(r), Line(r, m) \in Keys
      PROVE  owner'[Line(r, m)] # None
  <2>1. Line(r, m) \in NewKeys(r) \/ owner[Line(r, m)] # None
    BY <1>3, PipelineAssumption DEF NewKeys, ScoringBatch
  <2>2. QED
    BY <1>1, <1>2, <1>3, <2>1 DEF PersistBatch
<1>4. \A i \in Imports : \A n \in 1..Len(file[i]) :
         /\ rejectedRows[i][n] \in Nat
         /\ rejectedRows'[i][n] =
              IF i = importOf[r] /\ n \in RejectedBatch(r)
                THEN rejectedRows[i][n] + 1 ELSE rejectedRows[i][n]
  BY <1>1 DEF PersistBatch, TypeOK, StoreTypeOK, RunTypeOK
<1>5. \A i \in Imports : \A n \in 1..Len(file[i]) :
         rejectedRows[i][n] > 0 => rejectedRows'[i][n] > 0
  BY <1>4
<1>6. ASSUME NEW m \in Pending(r), Line(r, m) = Bad
      PROVE  rejectedRows'[importOf[r]][m] > 0
  <2>1. m \in RejectedBatch(r)
    BY <1>6 DEF RejectedBatch
  <2>2. m \in 1..Len(file[importOf[r]])
    BY <1>1 DEF Pending, PendingUpTo, TypeOK, StoreTypeOK, RunTypeOK
  <2>3. QED
    BY <1>1, <1>4, <2>1, <2>2
<1>7. QED
  BY <1>2, <1>3, <1>5, <1>6

LEMMA BatchCounts ==
  ASSUME TypeOK, NEW r \in Runs, PersistBatch(r), UNCHANGED <<file, importOf>>
  PROVE  /\ AcceptedIsOwned => AcceptedIsOwned'
         /\ CountersAddUp => CountersAddUp'
<1>. DEFINE i == importOf[r]
<1>1. i \in Imports /\ None \notin Imports
  BY PipelineAssumption DEF TypeOK, StoreTypeOK, RunTypeOK
<1>2. ASSUME AcceptedIsOwned, NEW j \in Imports
      PROVE  accepted'[j] = Cardinality({k \in Keys : owner'[k] = j})
  <2>. DEFINE owned == {k \in Keys : owner'[k] = j}
  <2>1. CASE j # i
    <3>1. owned = Owned(j)
      BY <1>1, <2>1 DEF PersistBatch, NewKeys, Owned
    <3>2. accepted'[j] = accepted[j]
      BY <2>1 DEF PersistBatch, TypeOK, StoreTypeOK, RunTypeOK
    <3>3. QED
      BY <1>2, <3>1, <3>2 DEF AcceptedIsOwned, Owned
  <2>2. CASE j = i
    <3>1. owned = Owned(j) \cup NewKeys(r)
      BY <1>1, <2>2 DEF PersistBatch, NewKeys, Owned
    <3>2. Owned(j) \cap NewKeys(r) = {}
      BY <1>1, <2>2 DEF NewKeys, Owned
    <3>3. Cardinality(Owned(j) \cup NewKeys(r)) =
            Cardinality(Owned(j)) + Cardinality(NewKeys(r)) - 0
      BY <3>2, OwnedFinite, InsertedBound, FS_Union, FS_EmptySet
    <3>4. accepted'[j] = accepted[j] + InsertedCount(r)
      BY <1>1, <2>2 DEF PersistBatch, TypeOK, StoreTypeOK, RunTypeOK
    <3>5. accepted[j] = Cardinality(Owned(j))
      BY <1>2 DEF AcceptedIsOwned, Owned
    <3>6. accepted'[j] = Cardinality(Owned(j) \cup NewKeys(r))
      BY <3>3, <3>4, <3>5, OwnedFinite, InsertedBound DEF InsertedCount
    <3>7. QED
      BY <3>1, <3>6
  <2>3. QED
    BY <2>1, <2>2
<1>3. ASSUME CountersAddUp, NEW j \in Imports
      PROVE  processed'[j] = accepted'[j] + duplicates'[j] + rejected'[j]
  <2>1. processed[j] = accepted[j] + duplicates[j] + rejected[j]
    BY <1>3 DEF CountersAddUp
  <2>2. /\ processed[j] \in Nat /\ accepted[j] \in Nat
        /\ duplicates[j] \in Nat /\ rejected[j] \in Nat
    BY DEF TypeOK, StoreTypeOK, RunTypeOK
  <2>3. CASE j # i
    BY <2>1, <2>3 DEF PersistBatch, TypeOK, StoreTypeOK, RunTypeOK
  <2>4. CASE j = i
    <3>1. /\ processed'[j] = processed[j] + ProcessedDelta(r)
          /\ accepted'[j] = accepted[j] + InsertedCount(r)
          /\ duplicates'[j] = duplicates[j]
                + (Cardinality(ScoringBatch(r)) - InsertedCount(r))
          /\ rejected'[j] = rejected[j] + Cardinality(RejectedBatch(r))
      BY <1>1, <2>4 DEF PersistBatch, TypeOK, StoreTypeOK, RunTypeOK
    <3>2. ProcessedDelta(r) =
            Cardinality(ScoringBatch(r)) + Cardinality(RejectedBatch(r))
      BY BatchSplits DEF ProcessedDelta
    <3>3. /\ InsertedCount(r) \in Nat
          /\ Cardinality(RejectedBatch(r)) \in Nat
          /\ Cardinality(ScoringBatch(r)) \in Nat
      BY BatchSplits, InsertedBound
    <3>4. QED
      BY <2>1, <2>2, <3>1, <3>2, <3>3
  <2>5. QED
    BY <2>3, <2>4
<1>4. QED
  BY <1>2, <1>3 DEF AcceptedIsOwned, CountersAddUp

-----------------------------------------------------------------------------
(***************************************************************************)
(* The invariant.                                                          *)
(***************************************************************************)
\* Where a run's loop stands, by its program counter.
LoopInv ==
    \A r \in Runs :
        /\ pc[r] \in {"waiting", "reading"} =>
             /\ ~lastFlush[r] /\ ~wasCancelled[r]
             /\ Cardinality(Pending(r)) < BATCH_SIZE
        /\ pc[r] \in {"closing", "completed", "cancelled"} =>
             lastFlush[r] /\ flushed[r] = line[r]
        /\ lastFlush[r] /\ ~wasCancelled[r] => line[r] = Len(file[importOf[r]])
        /\ pc[r] = "completed" => ~wasCancelled[r]
        /\ wasCancelled[r] => lastFlush[r]

\* What lies behind a run is stored.
BehindIsStored ==
    \A r \in Runs : \A n \in 1..flushed[r] :
        /\ Line(r, n) \in Keys => owner[Line(r, n)] # None
        /\ Line(r, n) = Bad => rejectedRows[importOf[r]][n] > 0

PipelineInv ==
    /\ TypeOK
    /\ LoopInv
    /\ BehindIsStored
    /\ AcceptedIsOwned
    /\ CountersAddUp
    /\ BatchBounded

LEMMA InitInv == Init => PipelineInv
<1>. SUFFICES ASSUME Init PROVE PipelineInv
  OBVIOUS
<1>1. TypeOK
  BY PipelineAssumption DEF Init, TypeOK, StoreTypeOK, RunTypeOK, Active, Ended
<1>2. \A r \in Runs : Pending(r) = {}
  BY DEF Init, Pending, PendingUpTo
<1>3. \A r \in Runs : Cardinality(Pending(r)) = 0
  BY <1>2, FS_EmptySet
<1>4. LoopInv /\ BatchBounded /\ BehindIsStored
  BY <1>3, PipelineAssumption DEF Init, LoopInv, BatchBounded, BehindIsStored
<1>5. \A i \in Imports : {k \in Keys : owner[k] = i} = {}
  BY PipelineAssumption DEF Init
<1>6. AcceptedIsOwned
  BY <1>5, FS_EmptySet DEF Init, AcceptedIsOwned
<1>7. CountersAddUp
  BY DEF Init, CountersAddUp
<1>8. QED
  BY <1>1, <1>4, <1>6, <1>7 DEF PipelineInv

\* A batch changes only with the positions that delimit it.
LEMMA PendingFrame ==
  ASSUME NEW q \in Runs, UNCHANGED <<file, importOf>>,
         line'[q] = line[q], flushed'[q] = flushed[q]
  PROVE  Pending(q)' = Pending(q)
  BY DEF Pending, PendingUpTo, Line

LEMMA PendingFlushed ==
  ASSUME TypeOK, NEW q \in Runs, line'[q] = line[q], flushed'[q] = line[q]
  PROVE  Cardinality(Pending(q)') = 0
<1>1. line[q] \in Nat
  BY DEF TypeOK, StoreTypeOK, RunTypeOK
<1>2. Pending(q)' = {}
  BY <1>1 DEF Pending, PendingUpTo
<1>3. QED
  BY <1>2, FS_EmptySet

\* A step that leaves the store alone keeps what is said of it.
LEMMA StoreFrame ==
  ASSUME PipelineInv, UNCHANGED <<file, store, importOf>>,
         \A q \in Runs : flushed'[q] = flushed[q]
  PROVE  StoreTypeOK' /\ BehindIsStored' /\ AcceptedIsOwned' /\ CountersAddUp'
<1>. USE DEF PipelineInv, TypeOK, store
<1>1. StoreTypeOK'
  BY DEF StoreTypeOK
<1>2. BehindIsStored'
  BY DEF BehindIsStored, Line
<1>3. AcceptedIsOwned' /\ CountersAddUp'
  BY DEF AcceptedIsOwned, CountersAddUp
<1>4. QED
  BY <1>1, <1>2, <1>3

\* The steps of a run that leave its batch alone.
LEMMA QuietStep ==
  ASSUME PipelineInv, NEW r \in Runs,
         \/ Start(r) \/ LeaveLoop(r) \/ ScoreBatch(r) \/ ScoringFails(r)
         \/ PersistRolledBack(r) \/ Close(r) \/ Crash(r)
  PROVE  PipelineInv'
<1>. USE DEF PipelineInv, TypeOK
<1>1. UNCHANGED <<file, store, importOf, line, flushed>>
  BY DEF Start, LeaveLoop, ScoreBatch, ScoringFails, PersistRolledBack, Close, Crash
<1>2. \A q \in Runs : Pending(q)' = Pending(q)
  BY <1>1, PendingFrame
<1>3. BatchBounded'
  BY <1>2 DEF BatchBounded
<1>4. RunTypeOK' /\ LoopInv'
  <2>. USE <1>1, <1>2 DEF RunTypeOK, LoopInv, Goto, Active, Ended
  <2>1. CASE Start(r)
    BY <2>1 DEF Start
  <2>2. CASE LeaveLoop(r)
    BY <2>2 DEF LeaveLoop
  <2>3. CASE ScoreBatch(r)
    BY <2>3 DEF ScoreBatch
  <2>4. CASE ScoringFails(r)
    BY <2>4 DEF ScoringFails
  <2>5. CASE PersistRolledBack(r)
    <3>1. /\ attempt' \in [Runs -> 0..(MAX_ATTEMPTS - 1)]
          /\ pc' = pc \/ pc' = [pc EXCEPT ![r] = "failed"]
      BY <2>5, PipelineAssumption DEF PersistRolledBack, Retry
    <3>2. UNCHANGED <<cancelling, lastFlush, wasCancelled>>
      BY <2>5 DEF PersistRolledBack
    <3>3. RunTypeOK'
      BY <3>1, <3>2
    <3>4. LoopInv'
      BY <3>1, <3>2
    <3>5. QED
      BY <3>3, <3>4
  <2>6. CASE Close(r)
    BY <2>6 DEF Close
  <2>7. CASE Crash(r)
    BY <2>7 DEF Crash
  <2>8. QED
    BY <2>1, <2>2, <2>3, <2>4, <2>5, <2>6, <2>7
<1>5. QED
  BY <1>1, <1>3, <1>4, StoreFrame

LEMMA ReadLineStep ==
  ASSUME PipelineInv, NEW r \in Runs, ReadLine(r) PROVE PipelineInv'
<1>. USE DEF PipelineInv, TypeOK
<1>1. /\ UNCHANGED <<file, store, importOf, flushed, lastFlush, wasCancelled,
                     cancelling, attempt>>
      /\ line' = [line EXCEPT ![r] = @ + 1]
      /\ pc[r] = "reading" /\ line[r] < Len(file[importOf[r]])
      /\ pc' = pc \/ pc' = [pc EXCEPT ![r] = "scoring"]
      /\ pc' = pc => ~BatchFull(r, line[r] + 1)
  BY DEF ReadLine, Goto, RunTypeOK
<1>2. RunTypeOK'
  <2>1. Len(file[importOf[r]]) \in Nat
    BY PipelineAssumption DEF StoreTypeOK, RunTypeOK
  <2>2. line' \in [Runs -> Nat]
    BY <1>1 DEF RunTypeOK
  <2>3. ASSUME NEW q \in Runs
        PROVE  flushed'[q] <= line'[q] /\ line'[q] <= Len(file'[importOf'[q]])
    BY <1>1, <2>1 DEF RunTypeOK
  <2>4. pc' \in [Runs -> {"waiting"} \cup Active \cup Ended]
    BY <1>1 DEF RunTypeOK, Active
  <2>5. QED
    BY <1>1, <2>2, <2>3, <2>4 DEF RunTypeOK
<1>3. \A q \in Runs \ {r} : Pending(q)' = Pending(q)
  BY <1>1, PendingFrame DEF RunTypeOK
<1>4. Pending(r)' = PendingUpTo(r, line[r] + 1)
  BY <1>1 DEF Pending, PendingUpTo, Line, RunTypeOK
<1>5. /\ Cardinality(Pending(r)') <= BATCH_SIZE
      /\ pc' = pc => Cardinality(Pending(r)') < BATCH_SIZE
  <2>1. Cardinality(Pending(r)) < BATCH_SIZE
    BY <1>1 DEF LoopInv
  <2>2. line[r] \in Nat /\ line[r] + 1 \in Nat
    BY DEF RunTypeOK
  <2>3. /\ Cardinality(Pending(r)) \in Nat
        /\ Cardinality(PendingUpTo(r, line[r] + 1)) \in Nat
    BY <2>2, PendingFinite DEF Pending
  <2>4. Cardinality(PendingUpTo(r, line[r] + 1)) <= Cardinality(Pending(r)) + 1
    BY PendingGrows
  <2>5. Cardinality(PendingUpTo(r, line[r] + 1)) <= BATCH_SIZE
    BY <2>1, <2>3, <2>4, PipelineAssumption
  <2>6. pc' = pc => Cardinality(PendingUpTo(r, line[r] + 1)) < BATCH_SIZE
    BY <1>1, <2>3, PipelineAssumption DEF BatchFull
  <2>7. QED
    BY <1>4, <2>5, <2>6
<1>6. LoopInv'
  BY <1>1, <1>3, <1>5 DEF LoopInv, RunTypeOK
<1>7. BatchBounded'
  BY <1>3, <1>5 DEF BatchBounded
<1>8. QED
  BY <1>1, <1>2, <1>6, <1>7, StoreFrame

\* The loop after a flush, whatever the flush did to the store.
LEMMA FlushDoneLoop ==
  ASSUME PipelineInv, NEW r \in Runs, pc[r] \in {"scoring", "persisting"}, FlushDone(r),
         UNCHANGED <<file, importOf, line, lastFlush, wasCancelled, cancelling>>
  PROVE  RunTypeOK' /\ LoopInv' /\ BatchBounded'
<1>. USE DEF PipelineInv, TypeOK
<1>1. /\ flushed' = [flushed EXCEPT ![r] = line[r]]
      /\ attempt' = [attempt EXCEPT ![r] = 0]
      /\ pc' = [pc EXCEPT ![r] = IF lastFlush[r] THEN "closing" ELSE "reading"]
  BY DEF FlushDone, Goto
<1>2. RunTypeOK'
  BY <1>1, PipelineAssumption DEF RunTypeOK, Active
<1>3. Cardinality(Pending(r)') = 0
  BY <1>1, PendingFlushed DEF RunTypeOK
<1>4. \A q \in Runs \ {r} : Pending(q)' = Pending(q)
  BY <1>1, PendingFrame DEF RunTypeOK
<1>5. LoopInv'
  BY <1>1, <1>3, <1>4, PipelineAssumption DEF LoopInv, RunTypeOK
<1>6. BatchBounded'
  BY <1>3, <1>4, PipelineAssumption DEF BatchBounded
<1>7. QED
  BY <1>2, <1>5, <1>6

LEMMA NothingToFlushStep ==
  ASSUME PipelineInv, NEW r \in Runs, NothingToFlush(r) PROVE PipelineInv'
<1>. USE DEF PipelineInv, TypeOK
<1>1. /\ UNCHANGED <<file, store, importOf, line, lastFlush, wasCancelled, cancelling>>
      /\ pc[r] = "scoring" /\ Pending(r) = {} /\ FlushDone(r)
      /\ flushed' = [flushed EXCEPT ![r] = line[r]]
  BY DEF NothingToFlush, FlushDone
<1>2. RunTypeOK' /\ LoopInv' /\ BatchBounded'
  BY <1>1, FlushDoneLoop
<1>3. StoreTypeOK' /\ AcceptedIsOwned' /\ CountersAddUp'
  BY <1>1 DEF store, StoreTypeOK, AcceptedIsOwned, CountersAddUp
<1>4. ASSUME NEW q \in Runs, NEW n \in 1..flushed'[q]
      PROVE  /\ Line(q, n) \in Keys => owner[Line(q, n)] # None
             /\ Line(q, n) = Bad => rejectedRows[importOf[q]][n] > 0
  <2>1. flushed[r] \in Nat /\ line[r] \in Nat
    BY DEF RunTypeOK
  <2>2. CASE n \in 1..flushed[q]
    BY <2>2 DEF BehindIsStored
  <2>3. CASE n \notin 1..flushed[q]
    <3>1. q = r /\ n \in (flushed[r] + 1)..line[r]
      BY <1>1, <2>1, <2>3 DEF RunTypeOK
    <3>2. Line(q, n) = Blank
      BY <1>1, <3>1 DEF Pending, PendingUpTo
    <3>3. QED
      BY <3>2, PipelineAssumption
  <2>4. QED
    BY <2>2, <2>3
<1>5. BehindIsStored'
  BY <1>1, <1>4 DEF BehindIsStored, Line, store
<1>6. QED
  BY <1>2, <1>3, <1>5

\* What is behind any run stays stored when a batch is persisted.
LEMMA BehindKept ==
  ASSUME PipelineInv, NEW r \in Runs, PersistBatch(r), UNCHANGED <<file, importOf>>,
         NEW q \in Runs, NEW n \in 1..flushed[q]
  PROVE  /\ Line(q, n) \in Keys => owner'[Line(q, n)] # None
         /\ Line(q, n) = Bad => rejectedRows'[importOf[q]][n] > 0
<1>. USE DEF PipelineInv
<1>1. /\ Line(q, n) \in Keys => owner[Line(q, n)] # None
      /\ Line(q, n) = Bad => rejectedRows[importOf[q]][n] > 0
  BY DEF BehindIsStored
<1>2. importOf[q] \in Imports /\ n \in 1..Len(file[importOf[q]])
  <2>1. Len(file[importOf[q]]) \in Nat
    BY PipelineAssumption DEF TypeOK, StoreTypeOK, RunTypeOK
  <2>2. QED
    BY <2>1 DEF TypeOK, RunTypeOK
<1>3. QED
  BY <1>1, <1>2, BatchIsStored

LEMMA PersistStep ==
  ASSUME PipelineInv, NEW r \in Runs, Persist(r) PROVE PipelineInv'
<1>. USE DEF PipelineInv
<1>1. /\ UNCHANGED <<file, importOf, line, lastFlush, wasCancelled, cancelling>>
      /\ pc[r] = "persisting" /\ PersistBatch(r) /\ FlushDone(r)
      /\ flushed' = [flushed EXCEPT ![r] = line[r]]
  BY DEF Persist, FlushDone
<1>2. RunTypeOK' /\ LoopInv' /\ BatchBounded'
  BY <1>1, FlushDoneLoop
<1>3. StoreTypeOK'
  BY <1>1, BatchKeepsTypes DEF TypeOK, StoreTypeOK
<1>4. AcceptedIsOwned' /\ CountersAddUp'
  BY <1>1, BatchCounts
<1>5. ASSUME NEW q \in Runs, NEW n \in 1..flushed'[q]
      PROVE  /\ Line(q, n) \in Keys => owner'[Line(q, n)] # None
             /\ Line(q, n) = Bad => rejectedRows'[importOf[q]][n] > 0
  <2>1. flushed[r] \in Nat /\ line[r] \in Nat
    BY DEF TypeOK, RunTypeOK
  <2>2. CASE n \in 1..flushed[q]
    BY <1>1, <2>2, BehindKept
  <2>3. CASE n \notin 1..flushed[q]
    <3>1. q = r /\ n \in (flushed[r] + 1)..line[r]
      BY <1>1, <2>1, <2>3 DEF TypeOK, RunTypeOK
    <3>2. CASE Line(q, n) = Blank
      BY <3>2, PipelineAssumption
    <3>3. CASE Line(q, n) # Blank
      <4>1. n \in Pending(r)
        BY <3>1, <3>3 DEF Pending, PendingUpTo
      <4>2. QED
        BY <1>1, <3>1, <4>1, BatchIsStored
    <3>4. QED
      BY <3>2, <3>3
  <2>4. QED
    BY <2>2, <2>3
<1>6. BehindIsStored'
  BY <1>1, <1>5 DEF BehindIsStored, Line
<1>7. QED
  BY <1>2, <1>3, <1>4, <1>6 DEF TypeOK

LEMMA ReplyLostStep ==
  ASSUME PipelineInv, NEW r \in Runs, PersistReplyLost(r) PROVE PipelineInv'
<1>. USE DEF PipelineInv
<1>1. /\ UNCHANGED <<file, importOf, line, flushed, lastFlush, wasCancelled, cancelling>>
      /\ pc[r] = "persisting" /\ PersistBatch(r)
      /\ attempt' \in [Runs -> 0..(MAX_ATTEMPTS - 1)]
      /\ pc' = pc \/ pc' = [pc EXCEPT ![r] = "failed"]
  <2>1. /\ UNCHANGED <<file, importOf, line, flushed, lastFlush, wasCancelled, cancelling>>
        /\ pc[r] = "persisting" /\ PersistBatch(r) /\ Retry(r)
    BY DEF PersistReplyLost
  <2>2. /\ attempt' \in [Runs -> 0..(MAX_ATTEMPTS - 1)]
        /\ pc' = pc \/ pc' = [pc EXCEPT ![r] = "failed"]
    BY <2>1, PipelineAssumption DEF Retry, Goto, TypeOK, RunTypeOK
  <2>3. QED
    BY <2>1, <2>2
<1>2. \A q \in Runs : Pending(q)' = Pending(q)
  BY <1>1, PendingFrame
<1>3. RunTypeOK'
  BY <1>1 DEF TypeOK, RunTypeOK, Active, Ended
<1>4. LoopInv'
  BY <1>1, <1>2 DEF LoopInv, TypeOK, RunTypeOK
<1>5. BatchBounded'
  BY <1>2 DEF BatchBounded
<1>6. StoreTypeOK'
  BY <1>1, BatchKeepsTypes DEF TypeOK, StoreTypeOK
<1>7. AcceptedIsOwned' /\ CountersAddUp'
  BY <1>1, BatchCounts
<1>8. BehindIsStored'
  BY <1>1, BehindKept DEF BehindIsStored, Line
<1>9. QED
  BY <1>3, <1>4, <1>5, <1>6, <1>7, <1>8 DEF TypeOK

LEMMA CancelStep ==
  ASSUME PipelineInv, NEW i \in Imports, RequestCancellation(i) PROVE PipelineInv'
<1>. USE DEF PipelineInv, TypeOK
<1>1. /\ UNCHANGED <<file, store, importOf, pc, line, flushed, lastFlush, wasCancelled, attempt>>
      /\ cancelling' \in [Imports -> BOOLEAN]
  BY DEF RequestCancellation, runVars, RunTypeOK
<1>2. \A q \in Runs : Pending(q)' = Pending(q)
  BY <1>1, PendingFrame
<1>3. RunTypeOK' /\ LoopInv' /\ BatchBounded'
  BY <1>1, <1>2 DEF RunTypeOK, LoopInv, BatchBounded
<1>4. QED
  BY <1>1, <1>3, StoreFrame

LEMMA PipelineInvStep == PipelineInv /\ [Next]_vars => PipelineInv'
<1>. SUFFICES ASSUME PipelineInv, [Next]_vars PROVE PipelineInv'
  OBVIOUS
<1>1. CASE UNCHANGED vars
  <2>1. UNCHANGED <<file, store, importOf, pc, line, flushed, lastFlush,
                    wasCancelled, cancelling, attempt>>
    BY <1>1 DEF vars, runVars
  <2>2. \A q \in Runs : Pending(q)' = Pending(q)
    BY <2>1, PendingFrame
  <2>3. RunTypeOK' /\ LoopInv' /\ BatchBounded'
    BY <2>1, <2>2 DEF PipelineInv, TypeOK, RunTypeOK, LoopInv, BatchBounded
  <2>4. QED
    BY <2>1, <2>3, StoreFrame DEF PipelineInv, TypeOK
<1>2. CASE Next
  BY <1>2, QuietStep, ReadLineStep, NothingToFlushStep, PersistStep, ReplyLostStep,
     CancelStep DEF Next, RunStep
<1>3. QED
  BY <1>1, <1>2

-----------------------------------------------------------------------------
(***************************************************************************)
(* The theorems.  They hold whatever Hazards contains.                     *)
(***************************************************************************)
\* The invariant of the pipeline, which the claims below rest on.
THEOREM PipelineInvariant == Spec => []PipelineInv
BY InitInv, PipelineInvStep, PTL DEF Spec

\* Every variable keeps its type; in particular a batch is attempted at most
\* MAX_ATTEMPTS times and no run reads past its file.
THEOREM TypeCorrect == Spec => []TypeOK
<1>1. PipelineInv => TypeOK
  BY DEF PipelineInv
<1>2. QED
  BY <1>1, PipelineInvariant, PTL

\* A completed import lost none of its lines, and a run that was cancelled none of
\* those it read: through retries, lost replies, crashes and overlapping runs.
THEOREM NothingIsLost == Spec => []NoRecordLost
<1>1. PipelineInv => NoRecordLost
  BY DEF PipelineInv, LoopInv, BehindIsStored, NoRecordLost
<1>2. QED
  BY <1>1, PipelineInvariant, PTL

\* The counters a client reads: accepted is what the import owns, and the four
\* add up, although runs are repeated and batches retried.
THEOREM CountersAreTrue == Spec => []CountersAgree
<1>1. PipelineInv => CountersAgree
  BY DEF PipelineInv, CountersAgree
<1>2. QED
  BY <1>1, PipelineInvariant, PTL

\* The batch in memory is bounded whatever the file's size and mix of lines.
THEOREM MemoryIsBounded == Spec => []BatchBounded
<1>1. PipelineInv => BatchBounded
  BY DEF PipelineInv
<1>2. QED
  BY <1>1, PipelineInvariant, PTL

\* Every step of the pipeline is a step of the abstract store or leaves it alone.
LEMMA StoreStep ==
  PipelineInv /\ [Next]_vars => [RS!Next]_<<owner, accepted>>
<1>. SUFFICES ASSUME PipelineInv, [Next]_vars PROVE [RS!Next]_<<owner, accepted>>
  OBVIOUS
<1>1. ASSUME NEW r \in Runs, PersistBatch(r) PROVE RS!Next
  <2>1. importOf[r] \in Imports
    BY DEF PipelineInv, TypeOK, RunTypeOK
  <2>2. NewKeys(r) \in SUBSET Keys /\ \A k \in NewKeys(r) : owner[k] = None
    BY DEF NewKeys
  <2>3. RS!Store(importOf[r], NewKeys(r))
    <3>1. owner' = [k \in Keys |-> IF k \in NewKeys(r) THEN importOf[r] ELSE owner[k]]
      BY <1>1 DEF PersistBatch
    <3>2. accepted' = [accepted EXCEPT ![importOf[r]] = @ + Cardinality(NewKeys(r))]
      BY <1>1 DEF PersistBatch, InsertedCount
    <3>3. QED
      BY <2>2, <3>1, <3>2 DEF RS!Store
  <2>4. QED
    BY <2>1, <2>2, <2>3 DEF RS!Next
<1>2. CASE UNCHANGED vars
  BY <1>2 DEF vars, store
<1>3. CASE Next
  BY <1>1, <1>3 DEF Next, RunStep, Start, ReadLine, LeaveLoop, NothingToFlush, ScoreBatch,
     ScoringFails, Persist, PersistRolledBack, PersistReplyLost, Close, Crash,
     RequestCancellation, store
<1>4. QED
  BY <1>2, <1>3

\* The pipeline implements RecordStore: first write wins, and the accepted counter
\* moves with the rows.
THEOREM ImplementsRecordStore == Spec => StoreSpec
<1>1. Init => RS!Init
  BY DEF Init, RS!Init
<1>2. QED
  BY <1>1, StoreStep, PipelineInvariant, PTL DEF Spec, StoreSpec, RS!Spec

-----------------------------------------------------------------------------
(***************************************************************************)
(* Rows and counters against the lines.                                    *)
(***************************************************************************)

\* What is stored was read from a file of the import that owns it.
StoredIsRead ==
    \A k \in Keys : owner[k] # None =>
        \E n \in 1..Len(file[owner[k]]) : file[owner[k]][n] = k

\* The lines of a run that are neither blank nor in the batch or beyond it.
Behind(r) == {n \in 1..flushed[r] : Line(r, n) # Blank}

\* What the only run of an import has behind it was counted once, and what was
\* rejected has one row.
OnceOK(r) ==
    Alone(r) =>
        /\ processed[importOf[r]] = Cardinality(Behind(r))
        /\ \A n \in 1..Len(file[importOf[r]]) :
              rejectedRows[importOf[r]][n] =
                 IF n <= flushed[r] /\ Line(r, n) = Bad THEN 1 ELSE 0

\* The lines and the batch of a run, by number.
LEMMA LinesOfRun ==
    ASSUME TypeOK, NEW r \in Runs
    PROVE  /\ line[r] \in Nat /\ flushed[r] \in Nat
           /\ flushed[r] <= line[r] /\ line[r] <= Len(file[importOf[r]])
           /\ Len(file[importOf[r]]) \in Nat
           /\ importOf[r] \in Imports
<1>1. importOf[r] \in Imports
  BY DEF TypeOK, RunTypeOK
<1>2. file[importOf[r]] \in Seq(Lines)
  BY <1>1, PipelineAssumption DEF TypeOK, StoreTypeOK
<1>3. Len(file[importOf[r]]) \in Nat
  BY <1>2
<1> QED
  BY <1>1, <1>3 DEF TypeOK, RunTypeOK

\* A flush puts the batch behind.
LEMMA BehindGrows ==
    ASSUME TypeOK, NEW r \in Runs
    PROVE  /\ {n \in 1..line[r] : Line(r, n) # Blank} = Behind(r) \cup Pending(r)
           /\ Cardinality(Behind(r) \cup Pending(r))
                = Cardinality(Behind(r)) + Cardinality(Pending(r))
<1>1. line[r] \in Nat /\ flushed[r] \in Nat /\ flushed[r] <= line[r]
  BY LinesOfRun
<1>2. {n \in 1..line[r] : Line(r, n) # Blank} = Behind(r) \cup Pending(r)
  BY <1>1 DEF Behind, Pending, PendingUpTo
<1>3. Behind(r) \cap Pending(r) = {}
  BY <1>1 DEF Behind, Pending, PendingUpTo
<1>4. IsFiniteSet(Pending(r)) /\ Cardinality(Pending(r)) \in Nat
  BY <1>1, PendingFinite DEF Pending
<1>5. IsFiniteSet(Behind(r)) /\ Cardinality(Behind(r)) \in Nat
  <2>1. IsFiniteSet(1..flushed[r])
    BY <1>1, FS_Interval
  <2>2. Behind(r) \in SUBSET (1..flushed[r])
    BY DEF Behind
  <2> QED
    BY <2>1, <2>2, FS_Subset, FS_CardinalityType
<1>6. Cardinality(Behind(r) \cup Pending(r))
        = Cardinality(Behind(r)) + Cardinality(Pending(r)) - Cardinality({})
  BY <1>3, <1>4, <1>5, FS_Union
<1>7. Cardinality({}) = 0
  BY FS_EmptySet
<1> QED
  BY <1>2, <1>4, <1>5, <1>6, <1>7

\* Steps that end no flush.
LEMMA OnceFrame ==
    ASSUME NEW r \in Runs, OnceOK(r), UNCHANGED <<file, importOf>>,
           flushed'[r] = flushed[r],
           processed'[importOf[r]] = processed[importOf[r]],
           \A n \in 1..Len(file[importOf[r]]) :
              rejectedRows'[importOf[r]][n] = rejectedRows[importOf[r]][n]
    PROVE  OnceOK(r)'
<1>1. /\ Alone(r)' = Alone(r) /\ Behind(r)' = Behind(r)
      /\ \A n : Line(r, n)' = Line(r, n)
  BY DEF Alone, Behind, Line
<1> QED
  BY <1>1 DEF OnceOK

\* A batch counts its lines once.
LEMMA OncePersist ==
    ASSUME TypeOK, \A q \in Runs : OnceOK(q), NEW r \in Runs, Persist(r), NEW q \in Runs
    PROVE  OnceOK(q)'
<1>1. /\ PersistBatch(r) /\ UNCHANGED <<file, importOf, line>>
      /\ flushed' = [flushed EXCEPT ![r] = line[r]]
  BY DEF Persist, FlushDone
<1>2. importOf[r] \in Imports /\ importOf[q] \in Imports
  BY LinesOfRun
<1>3. \A j \in Imports : \A n \in 1..Len(file[j]) :
         rejectedRows'[j][n] = IF j = importOf[r] /\ n \in RejectedBatch(r)
                                 THEN rejectedRows[j][n] + 1 ELSE rejectedRows[j][n]
  BY <1>1 DEF PersistBatch
<1>4. CASE q # r
  <2> SUFFICES ASSUME Alone(q) PROVE OnceOK(q)'
    <3>1. Alone(q)' = Alone(q)
      BY <1>1 DEF Alone
    <3> QED
      BY <3>1 DEF OnceOK
  <2>1. importOf[q] # importOf[r]
    BY <1>4 DEF Alone
  <2>2. processed'[importOf[q]] = processed[importOf[q]]
    BY <1>1, <1>2, <2>1 DEF PersistBatch, TypeOK, StoreTypeOK
  <2>3. flushed'[q] = flushed[q]
    BY <1>1, <1>4 DEF TypeOK, RunTypeOK
  <2>4. \A n \in 1..Len(file[importOf[q]]) :
           rejectedRows'[importOf[q]][n] = rejectedRows[importOf[q]][n]
    BY <1>2, <1>3, <2>1
  <2> QED
    BY <1>1, <2>2, <2>3, <2>4, OnceFrame
<1>5. CASE q = r
  <2> SUFFICES ASSUME Alone(r)'
               PROVE  /\ processed'[importOf[r]] = Cardinality(Behind(r)')
                      /\ \A n \in 1..Len(file[importOf[r]]) :
                            rejectedRows'[importOf[r]][n] =
                               IF n <= line[r] /\ Line(r, n) = Bad THEN 1 ELSE 0
    <3>1. flushed'[r] = line[r] /\ \A n : Line(r, n)' = Line(r, n)
      BY <1>1 DEF TypeOK, RunTypeOK, Line
    <3>2. file' = file /\ importOf' = importOf
      BY <1>1
    <3> QED
      BY <1>5, <3>1, <3>2, Zenon DEF OnceOK
  <2>1. Alone(r)
    BY <1>1 DEF Alone
  <2>2. /\ processed[importOf[r]] = Cardinality(Behind(r))
        /\ \A n \in 1..Len(file[importOf[r]]) :
              rejectedRows[importOf[r]][n] =
                 IF n <= flushed[r] /\ Line(r, n) = Bad THEN 1 ELSE 0
    BY <2>1 DEF OnceOK
  <2>3. Behind(r)' = Behind(r) \cup Pending(r)
    <3>1. flushed'[r] = line[r]
      BY <1>1 DEF TypeOK, RunTypeOK
    <3>2. Behind(r)' = {n \in 1..line[r] : Line(r, n) # Blank}
      BY <1>1, <3>1 DEF Behind, Line
    <3> QED
      BY <3>2, BehindGrows
  <2>4. processed'[importOf[r]] = processed[importOf[r]] + Cardinality(Pending(r))
    BY <1>1, <1>2 DEF PersistBatch, ProcessedDelta, TypeOK, StoreTypeOK
  <2>5. processed'[importOf[r]] = Cardinality(Behind(r)')
    BY <2>2, <2>3, <2>4, BehindGrows
  <2>6. ASSUME NEW n \in 1..Len(file[importOf[r]])
        PROVE  rejectedRows'[importOf[r]][n] = IF n <= line[r] /\ Line(r, n) = Bad THEN 1 ELSE 0
    <3>1. /\ line[r] \in Nat /\ flushed[r] \in Nat /\ flushed[r] <= line[r] /\ n \in Nat
          /\ 1 <= n
      BY LinesOfRun
    <3>2. n \in RejectedBatch(r) <=> flushed[r] < n /\ n <= line[r] /\ Line(r, n) = Bad
      BY <3>1, PipelineAssumption DEF RejectedBatch, Pending, PendingUpTo
    <3>3. rejectedRows'[importOf[r]][n] = IF n \in RejectedBatch(r)
             THEN rejectedRows[importOf[r]][n] + 1 ELSE rejectedRows[importOf[r]][n]
      BY <1>2, <1>3
    <3>4. rejectedRows[importOf[r]][n] = IF n <= flushed[r] /\ Line(r, n) = Bad THEN 1 ELSE 0
      BY <2>2
    <3> QED
      BY <3>1, <3>2, <3>3, <3>4
  <2> QED
    BY <2>5, <2>6
<1> QED
  BY <1>4, <1>5

\* Without a lost reply no step counts anything twice.
LEMMA OnceStep ==
    ASSUME "reply" \notin Hazards, TypeOK, \A r \in Runs : OnceOK(r), [Next]_vars, NEW q \in Runs
    PROVE  OnceOK(q)'
<1>1. CASE UNCHANGED <<file, importOf, flushed, processed, rejectedRows>>
  BY <1>1, OnceFrame
<1>2. ASSUME NEW r \in Runs, Persist(r) PROVE OnceOK(q)'
  BY <1>2, OncePersist
<1>3. ASSUME NEW r \in Runs, NothingToFlush(r) PROVE OnceOK(q)'
  <2>1. /\ UNCHANGED <<file, importOf, line, processed, rejectedRows>> /\ Pending(r) = {}
        /\ flushed' = [flushed EXCEPT ![r] = line[r]]
    BY <1>3 DEF NothingToFlush, FlushDone, store
  <2>2. CASE q # r
    <3>1. flushed'[q] = flushed[q]
      BY <2>1, <2>2 DEF TypeOK, RunTypeOK
    <3> QED
      BY <2>1, <3>1, OnceFrame
  <2>3. CASE q = r
    <3>1. flushed'[r] = line[r]
      BY <2>1 DEF TypeOK, RunTypeOK
    <3>2. Behind(r)' = Behind(r)
      <4>1. Behind(r)' = {n \in 1..line[r] : Line(r, n) # Blank}
        BY <2>1, <3>1 DEF Behind, Line
      <4> QED
        BY <2>1, <4>1, BehindGrows
    <3>3. \A n \in 1..Len(file[importOf[r]]) :
             n <= line[r] /\ Line(r, n) = Bad <=> n <= flushed[r] /\ Line(r, n) = Bad
      <4>1. /\ line[r] \in Nat /\ flushed[r] \in Nat /\ flushed[r] <= line[r]
            /\ Len(file[importOf[r]]) \in Nat
        BY LinesOfRun
      <4>2. \A n \in (flushed[r] + 1)..line[r] : Line(r, n) = Blank
        BY <2>1 DEF Pending, PendingUpTo
      <4> QED
        BY <4>1, <4>2, PipelineAssumption
    <3>4. Alone(r)' = Alone(r) /\ \A n : Line(r, n)' = Line(r, n)
      BY <2>1 DEF Alone, Line
    <3>5. file' = file /\ importOf' = importOf /\ processed' = processed
          /\ rejectedRows' = rejectedRows
      BY <2>1
    <3>6. OnceOK(r)
      OBVIOUS
    <3> QED
      BY <2>3, <3>1, <3>2, <3>3, <3>4, <3>5, <3>6 DEF OnceOK
  <2> QED
    BY <2>2, <2>3
<1>4. CASE UNCHANGED vars
  BY <1>1, <1>4 DEF vars, store, runVars
<1>5. CASE Next
  BY <1>1, <1>2, <1>3, <1>5
  DEF Next, RunStep, Start, ReadLine, LeaveLoop, ScoreBatch, ScoringFails, PersistRolledBack,
      PersistReplyLost, Retry, Close, Crash, RequestCancellation, store, runVars
<1> QED
  BY <1>4, <1>5

\* Only lines of the file are stored.
LEMMA ReadStep ==
    ASSUME TypeOK, StoredIsRead, [Next]_vars
    PROVE  StoredIsRead'
<1> USE DEF StoredIsRead
<1>1. file' = file
  BY DEF Next, RunStep, Start, ReadLine, LeaveLoop, NothingToFlush, ScoreBatch, ScoringFails,
         Persist, PersistRolledBack, PersistReplyLost, Close, Crash, RequestCancellation, vars
<1>2. CASE owner' = owner
  BY <1>1, <1>2
<1>3. ASSUME NEW r \in Runs, PersistBatch(r) PROVE StoredIsRead'
  <2>1. owner' = [k \in Keys |-> IF k \in NewKeys(r) THEN importOf[r] ELSE owner[k]]
    BY <1>3 DEF PersistBatch
  <2>2. ASSUME NEW k \in Keys, k \in NewKeys(r)
        PROVE  \E n \in 1..Len(file[importOf[r]]) : file[importOf[r]][n] = k
    <3>1. PICK m \in ScoringBatch(r) : Line(r, m) = k
      BY <2>2 DEF NewKeys
    <3>2. m \in (flushed[r] + 1)..line[r]
      BY DEF ScoringBatch, Pending, PendingUpTo
    <3>3. m \in 1..Len(file[importOf[r]])
      BY <3>2, LinesOfRun
    <3> QED
      BY <3>1, <3>3 DEF Line
  <2> QED
    BY <1>1, <2>1, <2>2
<1> QED
  BY <1>2, <1>3
  DEF Next, RunStep, Start, ReadLine, LeaveLoop, NothingToFlush, ScoreBatch, ScoringFails,
      Persist, PersistRolledBack, PersistReplyLost, Close, Crash, RequestCancellation, vars, store

-----------------------------------------------------------------------------
(***************************************************************************)
(* The bytes.                                                              *)
(***************************************************************************)

\* What clients write: no white space but spaces, tabs and line ends, and each line
\* ends with LF or CR LF.
Ordinary(b) ==
    \A n \in DOMAIN b :
        /\ b[n] \notin {WideSpace, LineSeparator}
        /\ b[n] = CR => n < Len(b) /\ b[n + 1] = LF

LEMMA BytesOfFile ==
    ASSUME NEW b \in RawFiles
    PROVE  /\ Len(b) \in Nat /\ DOMAIN b = 1..Len(b) /\ (b = <<>> <=> Len(b) = 0)
           /\ \A m \in DOMAIN b : b[m] \in Blanks \cup {Garbage} \cup Objects
<1>1. b \in Seq(Blanks \cup {Garbage} \cup Objects)
  BY FileAssumption
<1> QED
  BY <1>1

\* No byte is on a line that readLines does not yield.
LEMMA LineOfBounds ==
    ASSUME NEW b \in RawFiles, NEW m \in DOMAIN b
    PROVE  LineOf(m, LineEnds(b)) \in 1..LinesRead(b) /\ LinesRead(b) \in Nat
<1> DEFINE Before(n) == {e \in LineEnds(b) : e < n}
<1>1. /\ Len(b) \in Nat /\ DOMAIN b = 1..Len(b) /\ (b = <<>> <=> Len(b) = 0)
      /\ m \in 1..Len(b)
  BY BytesOfFile
<1>2. IsFiniteSet(Before(Len(b))) /\ Cardinality(Before(Len(b))) \in Nat
  <2>1. IsFiniteSet(1..Len(b))
    BY <1>1, FS_Interval
  <2>2. Before(Len(b)) \in SUBSET (1..Len(b))
    BY <1>1 DEF LineEnds
  <2> QED
    BY <2>1, <2>2, FS_Subset, FS_CardinalityType
<1>3. Before(m) \in SUBSET Before(Len(b))
  BY <1>1 DEF LineEnds
<1>4. IsFiniteSet(Before(m)) /\ Cardinality(Before(m)) <= Cardinality(Before(Len(b)))
  BY <1>2, <1>3, FS_Subset
<1>5. Cardinality(Before(m)) \in Nat
  BY <1>4, FS_CardinalityType
<1>6. /\ LineOf(m, LineEnds(b)) = 1 + Cardinality(Before(m))
      /\ LinesRead(b) = 1 + Cardinality(Before(Len(b)))
  BY <1>1 DEF LineOf, LinesRead
<1> HIDE DEF Before
<1> QED
  BY <1>2, <1>4, <1>5, <1>6

\* A parsed line is blank when trim() leaves nothing of it, and otherwise bad or what
\* validateTransaction makes of its only value.
LEMMA ParsedLine ==
    ASSUME NEW b \in RawFiles, NEW n
    PROVE  /\ ParseLine(b, n) \in Lines
           /\ ParseLine(b, n) = Blank <=> Trimmed(b, n) = {}
           /\ ParseLine(b, n) \in Keys =>
                \E m \in DOMAIN b : b[m] \in Objects /\ ParseLine(b, n) = Validate(b[m])
<1>1. \A m \in Trimmed(b, n) : m \in DOMAIN b /\ b[m] \in {Garbage} \cup Objects
  BY BytesOfFile DEF Trimmed
<1>2. CASE Trimmed(b, n) = {}
  BY <1>2, PipelineAssumption DEF ParseLine, Lines
<1>3. CASE \E m \in Trimmed(b, n) : Trimmed(b, n) = {m} /\ b[m] # Garbage
  <2>1. PICK m \in Trimmed(b, n) : Trimmed(b, n) = {m} /\ b[m] # Garbage
    BY <1>3
  <2>2. (CHOOSE x \in Trimmed(b, n) : TRUE) = m
    BY <2>1
  <2>3. ParseLine(b, n) = Validate(b[m])
    BY <1>3, <2>1, <2>2 DEF ParseLine
  <2>4. m \in DOMAIN b /\ b[m] \in Objects
    BY <1>1, <2>1
  <2>5. Validate(b[m]) \in Keys \cup {Bad}
    BY <2>4, FileAssumption
  <2> QED
    BY <2>1, <2>3, <2>4, <2>5, PipelineAssumption DEF Lines
<1>4. CASE Trimmed(b, n) # {} /\ ~\E m \in Trimmed(b, n) : Trimmed(b, n) = {m} /\ b[m] # Garbage
  <2>1. ParseLine(b, n) = Bad
    BY <1>4 DEF ParseLine
  <2> QED
    BY <1>4, <2>1, PipelineAssumption DEF Lines
<1> QED
  BY <1>2, <1>3, <1>4

\* countLines and readLines see the same lines of an ordinary file, and the same of
\* them empty.
THEOREM PassesAgree ==
    ASSUME NEW b \in RawFiles, Ordinary(b)
    PROVE  CountLines(b) = Cardinality({n \in 1..LinesRead(b) : ParseLine(b, n) # Blank})
<1>1. LineEnds(b) = LineFeeds(b)
  BY DEF Ordinary, LineEnds, LineFeeds, EndsLine
<1>2. \A m \in DOMAIN b : m \in HasContent(b) <=> b[m] \notin Blanks
  BY DEF Ordinary, HasContent, Blanks
<1>3. HasContent(b) \subseteq DOMAIN b
  BY DEF HasContent
<1> DEFINE Counted == {LineOf(m, LineFeeds(b)) : m \in HasContent(b)}
           Parsed  == {n \in 1..LinesRead(b) : ParseLine(b, n) # Blank}
<1>4. ASSUME NEW n \in Counted PROVE n \in Parsed
  <2>1. PICK m \in HasContent(b) : n = LineOf(m, LineEnds(b))
    BY <1>1, <1>4
  <2>2. m \in DOMAIN b
    BY <1>3
  <2>3. n \in 1..LinesRead(b)
    BY <2>1, <2>2, LineOfBounds
  <2>4. m \in Trimmed(b, n)
    BY <1>2, <2>1, <2>2 DEF Trimmed
  <2> QED
    BY <2>3, <2>4, ParsedLine
<1>5. ASSUME NEW n \in Parsed PROVE n \in Counted
  <2>1. Trimmed(b, n) # {}
    BY <1>5, ParsedLine
  <2>2. PICK m \in DOMAIN b : b[m] \notin Blanks /\ LineOf(m, LineEnds(b)) = n
    BY <2>1 DEF Trimmed
  <2> QED
    BY <1>1, <1>2, <2>2
<1>6. Counted = Parsed
  BY <1>4, <1>5
<1> QED
  BY <1>6 DEF CountLines

-----------------------------------------------------------------------------
(***************************************************************************)
(* The file, its lines and its counters.                                   *)
(***************************************************************************)
\* The lines a run works on are those of the bytes, and what it announces is counted
\* over the same bytes.
FileOK ==
    /\ \A i \in Imports : bytes[i] \in RawFiles /\ file[i] = ParseFile(bytes[i])
    /\ \A r \in Runs : pc[r] # "waiting" =>
          total[importOf[r]] = CountLines(bytes[importOf[r]])

\* The lines of a file, by number.
LEMMA FileLines ==
    ASSUME NEW b \in RawFiles
    PROVE  /\ Len(ParseFile(b)) = LinesRead(b)
           /\ \A n \in 1..Len(ParseFile(b)) : ParseFile(b)[n] = ParseLine(b, n)
<1>1. LinesRead(b) \in Nat
  <2>1. CASE b = <<>>
    BY <2>1 DEF LinesRead
  <2>2. CASE b # <<>>
    <3>1. Len(b) \in DOMAIN b
      BY <2>2, BytesOfFile
    <3> QED
      BY <3>1, LineOfBounds
  <2> QED
    BY <2>1, <2>2
<1> QED
  BY <1>1 DEF ParseFile

\* A step of a file's import is a step of the pipeline.
LEMMA PipelineStep == [FileNext]_fileVars => [Next]_vars
BY DEF FileNext, FileStep, fileVars

\* ImportFile adds the bytes and the announced total to ImportPipeline and takes
\* nothing from it: all that is proved of the pipeline holds of the files' lines.
THEOREM FileImplementsPipeline == FileSpec => Spec
<1>1. FileInit => Init
  BY DEF FileInit
<1> QED
  BY <1>1, PipelineStep, PTL DEF FileSpec, Spec

LEMMA FilesStay ==
    ASSUME [Next]_vars
    PROVE  file' = file /\ importOf' = importOf
BY DEF Next, RunStep, Start, ReadLine, LeaveLoop, NothingToFlush, ScoreBatch, ScoringFails,
       Persist, PersistRolledBack, PersistReplyLost, Close, Crash, RequestCancellation,
       vars, runVars

\* A run leaves "waiting" through markProcessing.
LEMMA RunsAreStarted ==
    ASSUME TypeOK, [Next]_vars, NEW r \in Runs, pc[r] = "waiting", pc'[r] # "waiting"
    PROVE  pc'[r] = "reading"
<1>1. pc \in [Runs -> {"waiting"} \cup Active \cup Ended]
  BY DEF TypeOK, RunTypeOK
<1>2. pc' # pc
  OBVIOUS
<1>3. CASE \E i \in Imports : RequestCancellation(i)
  BY <1>2, <1>3 DEF RequestCancellation, runVars
<1>4. ASSUME NEW q \in Runs, RunStep(q) \/ Crash(q) PROVE pc'[r] = "reading"
  <2>1. q = r
    BY <1>1, <1>4
    DEF RunStep, Start, ReadLine, LeaveLoop, NothingToFlush, ScoreBatch, ScoringFails,
        Persist, PersistRolledBack, PersistReplyLost, Retry, FlushDone, Close, Crash, Goto
  <2> QED
    BY <1>1, <1>4, <2>1
    DEF RunStep, Start, ReadLine, LeaveLoop, NothingToFlush, ScoreBatch, ScoringFails,
        Persist, PersistRolledBack, PersistReplyLost, Close, Crash, Goto, Active
<1> QED
  BY <1>2, <1>3, <1>4 DEF Next, vars, runVars

LEMMA FileOKStep ==
    ASSUME TypeOK, FileOK, [FileNext]_fileVars
    PROVE  FileOK'
<1> USE DEF FileOK
<1>1. [Next]_vars
  BY PipelineStep
<1>2. file' = file /\ importOf' = importOf
  BY <1>1, FilesStay
<1>3. CASE UNCHANGED fileVars
  <2>1. UNCHANGED <<file, importOf, pc, bytes, total>>
    BY <1>3 DEF fileVars, vars, runVars
  <2> QED
    BY <2>1
<1>4. CASE FileNext
  <2>1. bytes' = bytes /\ WriteTotal
    BY <1>4 DEF FileNext, FileStep
  <2>2. ASSUME NEW r \in Runs, pc'[r] # "waiting"
        PROVE  total'[importOf[r]] = CountLines(bytes[importOf[r]])
    <3>1. importOf[r] \in Imports
      BY LinesOfRun
    <3>2. total'[importOf[r]] =
            IF \E q \in Runs : importOf[q] = importOf[r] /\ pc[q] = "waiting" /\ pc'[q] = "reading"
              THEN CountLines(bytes[importOf[r]]) ELSE total[importOf[r]]
      BY <2>1, <3>1 DEF WriteTotal
    <3>3. pc[r] = "waiting" => pc'[r] = "reading"
      BY <1>1, <2>2, RunsAreStarted
    <3> QED
      BY <3>2, <3>3
  <2> QED
    BY <1>2, <2>1, <2>2
<1> QED
  BY <1>3, <1>4

LEMMA FileOKInit == FileInit => FileOK
BY DEF FileInit, FileOK, Init

\* What a run announced, and whose bytes it reads, under every hazard.
THEOREM FilesAgree == FileSpec => []FileOK
<1>1. PipelineInv => TypeOK
  BY DEF PipelineInv
<1>2. PipelineInv /\ FileOK /\ [FileNext]_fileVars => FileOK'
  BY <1>1, FileOKStep
<1> QED
  BY <1>2, FileOKInit, FileImplementsPipeline, PipelineInvariant, PTL DEF FileSpec

\* Every stored transaction was a line of the file of the import that owns it.
THEOREM StoredComesFromFile == Spec => []StoredIsRead
<1>1. Init => StoredIsRead
  BY DEF Init, StoredIsRead
<1>2. PipelineInv /\ StoredIsRead /\ [Next]_vars => StoredIsRead'
  BY ReadStep DEF PipelineInv
<1> QED
  BY <1>1, <1>2, PipelineInvariant, PTL DEF Spec

\* A stored transaction is an object in its import's file, under the provider that
\* object names: whatever the worker, the database and the other imports did.
THEOREM StoredUnderItsName == FileSpec => []StoredIsNamed
<1>1. ASSUME PipelineInv, FileOK, StoredIsRead PROVE StoredIsNamed
  <2> SUFFICES ASSUME NEW k \in Keys, owner[k] # None
               PROVE  \E n \in 1..Len(bytes[owner[k]]) :
                         LET b == bytes[owner[k]][n]
                         IN  /\ b \notin Blanks \cup {Garbage}
                             /\ b.transactionId = k[2] /\ b.ok
                             /\ k[1] = b.provider
    BY DEF StoredIsNamed
  <2> DEFINE i == owner[k]
  <2>1. i \in Imports
    BY <1>1 DEF PipelineInv, TypeOK, StoreTypeOK
  <2>2. bytes[i] \in RawFiles /\ file[i] = ParseFile(bytes[i])
    BY <1>1, <2>1 DEF FileOK
  <2>3. PICK n \in 1..Len(file[i]) : file[i][n] = k
    BY <1>1 DEF StoredIsRead
  <2>4. ParseLine(bytes[i], n) = k
    BY <1>1, <2>1, <2>2, <2>3, FileLines
  <2>5. PICK m \in DOMAIN bytes[i] : bytes[i][m] \in Objects /\ k = Validate(bytes[i][m])
    BY <2>2, <2>4, ParsedLine
  <2>6. m \in 1..Len(bytes[i])
    BY <2>2, BytesOfFile
  <2>7. bytes[i][m] \notin Blanks \cup {Garbage}
    BY <2>5, FileAssumption
  <2>8. k # Bad
    BY PipelineAssumption
  <2>9. /\ bytes[i][m].transactionId = k[2] /\ bytes[i][m].ok
        /\ k[1] = bytes[i][m].provider
    BY <2>5, <2>8 DEF Validate
  <2> QED
    BY <2>6, <2>7, <2>9
<1> QED
  BY <1>1, FilesAgree, StoredComesFromFile, FileImplementsPipeline, PipelineInvariant, PTL

\* Whatever was counted was counted once, unless a reply is lost.
THEOREM CountedOnce ==
    ASSUME "reply" \notin Hazards
    PROVE  Spec => [](\A r \in Runs : OnceOK(r))
<1>1. Init => \A r \in Runs : OnceOK(r)
  <2> SUFFICES ASSUME Init, NEW r \in Runs PROVE OnceOK(r)
    OBVIOUS
  <2>1. importOf[r] \in Imports /\ flushed[r] = 0
    BY DEF Init
  <2>2. Cardinality(Behind(r)) = 0
    BY <2>1, FS_EmptySet DEF Behind
  <2> QED
    BY <2>1, <2>2 DEF OnceOK, Init
<1>2. PipelineInv /\ (\A r \in Runs : OnceOK(r)) /\ [Next]_vars => (\A r \in Runs : OnceOK(r))'
  BY OnceStep DEF PipelineInv
<1> QED
  BY <1>1, <1>2, PipelineInvariant, PTL DEF Spec

\* A completed import has processed what it announced and rejected each bad line once,
\* for files the two passes divide alike and without a lost reply.
THEOREM CountsAreExact ==
    ASSUME "reply" \notin Hazards, \A b \in RawFiles : Ordinary(b)
    PROVE  FileSpec => []ExactCounts
<1>1. ASSUME PipelineInv, FileOK, \A r \in Runs : OnceOK(r) PROVE ExactCounts
  <2> SUFFICES ASSUME NEW r \in Runs, pc[r] = "completed", Alone(r)
               PROVE  /\ processed[importOf[r]] = total[importOf[r]]
                      /\ \A n \in 1..Len(file[importOf[r]]) :
                            rejectedRows[importOf[r]][n] = IF file[importOf[r]][n] = Bad THEN 1 ELSE 0
    BY DEF ExactCounts
  <2> DEFINE i == importOf[r]
  <2>1. i \in Imports
    BY <1>1, LinesOfRun DEF PipelineInv
  <2>2. bytes[i] \in RawFiles /\ file[i] = ParseFile(bytes[i])
    BY <1>1, <2>1 DEF FileOK
  <2>3. total[i] = CountLines(bytes[i])
    BY <1>1 DEF FileOK
  <2>4. flushed[r] = Len(file[i])
    BY <1>1 DEF PipelineInv, LoopInv, NoRecordLost
  <2>5. /\ Len(file[i]) = LinesRead(bytes[i])
        /\ \A n \in 1..Len(file[i]) : file[i][n] = ParseLine(bytes[i], n)
    BY <2>2, FileLines
  <2>6. Behind(r) = {n \in 1..LinesRead(bytes[i]) : ParseLine(bytes[i], n) # Blank}
    BY <2>4, <2>5 DEF Behind, Line
  <2>7. processed[i] = total[i]
    BY <1>1, <2>2, <2>3, <2>6, PassesAgree DEF OnceOK
  <2>8. \A n \in 1..Len(file[i]) : n <= flushed[r]
    BY <1>1, <2>4, LinesOfRun DEF PipelineInv
  <2> QED
    BY <1>1, <2>7, <2>8 DEF OnceOK, Line
<1> QED
  BY <1>1, FilesAgree, CountedOnce, FileImplementsPipeline, PipelineInvariant, PTL
=============================================================================
