------------------------- MODULE ImportServiceProofs -------------------------
(***************************************************************************)
(* What the queue and the tables promise together, for any workers,        *)
(* imports and file length, and whatever leases are lost.                  *)
(***************************************************************************)
EXTENDS ImportService, JobQueueProofs, FiniteSetTheorems

\* Worker w has claimed i and may still have records of it to store ...
Passing(w, i) ==
    /\ currentJob[w] = i
    /\ \/ pc[w] \in {"claimed", "reading"}
       \/ pc[w] \in {"markJob", "markImport"} /\ mark[w] = "PROCESSING"

\* ... or is past the last of them.
Finishing(w, i) ==
    /\ currentJob[w] = i
    /\ pc[w] \in {"markJob", "markImport"} /\ mark[w] = "COMPLETED"

\* The records that runs now under way may still store and count.
Due(i) == {x \in Workers \X (1..RECORDS) : Passing(x[1], i) /\ x[2] > position[x[1]]}

StoredInv ==
    /\ ServiceTypeOK
    /\ \A w \in Workers : pc[w] # "reading" => position[w] = 0
    /\ \A i \in Imports : \A w \in Workers :
         /\ Passing(w, i) => 1..position[w] \subseteq stored[i]
         /\ Finishing(w, i) => stored[i] = 1..RECORDS
    /\ CompletedMeansStored

CountInv ==
    \A i \in Imports :
        /\ IsFiniteSet(Due(i))
        /\ attempts[i] <= MAX_JOB_ATTEMPTS =>
             processed[i] + Cardinality(Due(i)) <= attempts[i] * RECORDS

-----------------------------------------------------------------------------
(***************************************************************************)
(* The queue under the tables is JobQueue's, step for step.                *)
(***************************************************************************)
\* What a worker does to the tables is no step of the queue's.
THEOREM ServiceImplementsQueue == ServiceSpec => Spec
<1>1. ServiceInit => Init
  BY DEF ServiceInit
<1>2. [ServiceNext]_serviceVars => [Next]_vars
  BY DEF ServiceNext, QueueStep, Flush, serviceVars
<1>3. QED
  BY <1>1, <1>2, PTL DEF ServiceSpec, Spec

\* What a step of the queue does to the runs.
Followed ==
    /\ \A i \in Imports : \A w \in Workers :
         /\ Passing(w, i)' => Passing(w, i) \/ ClaimNext(w, i)
         /\ Passing(w, i)' /\ pc[w] = "reading" => pc'[w] = "reading"
         /\ Finishing(w, i)' =>
              \/ Finishing(w, i)
              \/ pc[w] = "reading" /\ currentJob[w] = i /\ EndOfFile(w)
    /\ \A i \in Imports :
         imp'[i] = "COMPLETED" =>
            imp[i] = "COMPLETED" \/ \E w \in Workers : Finishing(w, i)
    /\ \A i \in Imports : attempts[i] <= attempts'[i]

LEMMA PollFollowed ==
  ASSUME WorkerInv, NEW w \in Workers, Poll(w)
  PROVE  Followed
<1>. USE DEF WorkerInv, TypeOK, WorkerOK, Followed, Passing, Finishing, Goto, jobVars,
       workerVars
<1>1. CASE Start(w)
  BY <1>1 DEF Start
<1>2. CASE SweepWhenIdle(w)
  BY <1>2 DEF SweepWhenIdle
<1>3. CASE ReclaimRead(w)
  BY <1>3 DEF ReclaimRead
<1>4. CASE ReclaimTx(w)
  BY <1>4 DEF ReclaimTx, SweepRows
<1>5. CASE \E i \in Imports : ClaimNext(w, i)
  <2>1. PICK i \in Imports : ClaimNext(w, i)
    BY <1>5
  <2>2. /\ pc[w] = "poll" /\ pc' = [pc EXCEPT ![w] = "claimed"]
        /\ currentJob' = [currentJob EXCEPT ![w] = i]
        /\ UNCHANGED <<imp, mark>>
        /\ \A j \in Imports : attempts[j] <= attempts'[j]
    BY <2>1, ConstantsAssumption DEF ClaimNext, Lease
  <2>3. ASSUME NEW j \in Imports, NEW v \in Workers
        PROVE  /\ Passing(v, j)' => Passing(v, j) \/ (v = w /\ j = i)
               /\ Passing(v, j)' /\ pc[v] = "reading" => pc'[v] = "reading"
               /\ Finishing(v, j)' => Finishing(v, j)
    BY <2>2
  <2>4. ASSUME NEW j \in Imports, NEW v \in Workers, v = w, j = i
        PROVE  ClaimNext(v, j)
    BY <2>1, <2>4
  <2>5. QED
    BY <2>2, <2>3, <2>4
<1>6. CASE ReleaseJob(w)
  BY <1>6 DEF ReleaseJob
<1>7. CASE ReleaseImport(w)
  BY <1>7 DEF ReleaseImport
<1>8. CASE Stopped(w)
  BY <1>8 DEF Stopped
<1>9. QED
  BY <1>1, <1>2, <1>3, <1>4, <1>5, <1>6, <1>7, <1>8 DEF Poll

LEMMA ExecuteFollowed ==
  ASSUME WorkerInv, NEW w \in Workers, Execute(w) \/ RenewLease(w)
  PROVE  Followed
<1>. USE DEF WorkerInv, TypeOK, WorkerOK, Followed, Passing, Finishing, Goto, BeginMark,
       jobVars, workerVars
<1>1. CASE FileFound(w)
  BY <1>1 DEF FileFound
<1>2. CASE MarkJob(w)
  BY <1>2 DEF MarkJob
<1>3. CASE MarkImport(w)
  BY <1>3 DEF MarkImport, MarkImportRow
<1>4. CASE SeeCancelling(w)
  BY <1>4 DEF SeeCancelling
<1>5. CASE EndOfFile(w)
  <2>1. /\ pc[w] = "reading" /\ pc' = [pc EXCEPT ![w] = "markJob"]
        /\ mark' = [mark EXCEPT ![w] = "COMPLETED"]
        /\ UNCHANGED <<imp, attempts, currentJob>>
    BY <1>5 DEF EndOfFile
  <2>2. QED
    BY <1>5, <2>1
<1>6. CASE RenewLease(w)
  BY <1>6 DEF RenewLease
<1>7. QED
  BY <1>1, <1>2, <1>3, <1>4, <1>5, <1>6 DEF Execute

LEMMA FailFollowed ==
  ASSUME WorkerInv, NEW w \in Workers, Fail(w)
  PROVE  Followed
<1>. USE DEF WorkerInv, TypeOK, WorkerOK, Followed, Passing, Finishing, Goto, BeginMark,
       Escape, jobVars, workerVars
<1>1. CASE \E i \in Imports : ClaimReplyLost(w, i)
  BY <1>1, ConstantsAssumption DEF ClaimReplyLost, Lease
<1>2. CASE FileUnreadable(w)
  BY <1>2 DEF FileUnreadable
<1>3. CASE MarkFails(w)
  BY <1>3 DEF MarkFails, MarkImportRow
<1>4. CASE ReadingFails(w)
  BY <1>4 DEF ReadingFails
<1>5. CASE Stop(w)
  BY <1>5 DEF Stop
<1>6. CASE Crash(w)
  BY <1>6 DEF Crash
<1>7. QED
  BY <1>1, <1>2, <1>3, <1>4, <1>5, <1>6 DEF Fail

LEMMA RowFollowed ==
  ASSUME WorkerInv, NEW i \in Imports, Api(i) \/ Expire(i)
  PROVE  Followed
<1>1. /\ UNCHANGED <<attempts, workerVars>>
      /\ \A j \in Imports : imp'[j] = "COMPLETED" => imp[j] = "COMPLETED"
  BY DEF Api, RequestCancellation, CancelRead, CancelWrite, CancelRows, Expire, WorkerInv,
     TypeOK, jobVars
<1>2. QED
  BY <1>1 DEF Followed, Passing, Finishing, WorkerInv, TypeOK, workerVars

LEMMA QueueFollowed == ASSUME WorkerInv, Next PROVE Followed
  BY PollFollowed, ExecuteFollowed, FailFollowed, RowFollowed DEF Next

LEMMA ServiceWorkerInvariant == ServiceSpec => []WorkerInv
  BY ServiceImplementsQueue, WorkerInvariant, PTL

-----------------------------------------------------------------------------
(***************************************************************************)
(* COMPLETED means stored, in full.                                        *)
(***************************************************************************)
LEMMA InitStoredInv == ServiceInit => StoredInv
<1>. SUFFICES ASSUME ServiceInit PROVE StoredInv
  OBVIOUS
<1>1. TypeOK
  BY InitWorkerInv DEF ServiceInit, WorkerInv
<1>2. MAX_PROCESSED \in Nat
  BY ConstantsAssumption, ServiceAssumption DEF MAX_PROCESSED
<1>3. ServiceTypeOK
  BY <1>1, <1>2, ServiceAssumption DEF ServiceInit, ServiceTypeOK
<1>4. QED
  BY <1>3 DEF ServiceInit, Init, StoredInv, Passing, Finishing, CompletedMeansStored

LEMMA QueueStored ==
  ASSUME WorkerInv, WorkerInv', StoredInv, QueueStep
  PROVE  StoredInv'
<1>1. Followed
  BY QueueFollowed DEF QueueStep
<1>2. /\ UNCHANGED <<stored, processed>>
      /\ position' = [w \in Workers |->
           IF pc[w] = "reading" /\ pc'[w] = "reading" THEN position[w] ELSE 0]
      /\ \A w \in Workers : EndOfFile(w) => position[w] = RECORDS
  BY DEF QueueStep, LocalsOfExecute, tableVars, EndsFlushed
<1>3. ServiceTypeOK'
  BY <1>2, ServiceAssumption DEF StoredInv, ServiceTypeOK, WorkerInv
<1>4. ASSUME NEW w \in Workers, pc'[w] # "reading"
      PROVE  position'[w] = 0
  BY <1>2, <1>4
<1>5. ASSUME NEW i \in Imports, NEW w \in Workers, Passing(w, i)'
      PROVE  1..position'[w] \subseteq stored'[i]
  <2>1. CASE pc[w] = "reading" /\ pc'[w] = "reading"
    <3>1. Passing(w, i) /\ position'[w] = position[w]
      BY <1>1, <1>2, <1>5, <2>1 DEF Followed, ClaimNext
    <3>2. QED
      BY <1>2, <3>1 DEF StoredInv
  <2>2. CASE ~(pc[w] = "reading" /\ pc'[w] = "reading")
    BY <1>2, <2>2
  <2>3. QED
    BY <2>1, <2>2
<1>6. ASSUME NEW i \in Imports, NEW w \in Workers, Finishing(w, i)'
      PROVE  stored'[i] = 1..RECORDS
  <2>1. CASE Finishing(w, i)
    BY <1>2, <2>1 DEF StoredInv
  <2>2. CASE pc[w] = "reading" /\ currentJob[w] = i /\ EndOfFile(w)
    <3>1. position[w] = RECORDS /\ Passing(w, i)
      BY <1>2, <2>2 DEF Passing
    <3>2. QED
      BY <1>2, <3>1 DEF StoredInv, ServiceTypeOK
  <2>3. QED
    BY <1>1, <1>6, <2>1, <2>2 DEF Followed
<1>7. CompletedMeansStored'
  BY <1>1, <1>2 DEF Followed, StoredInv, CompletedMeansStored
<1>8. QED
  BY <1>3, <1>4, <1>5, <1>6, <1>7 DEF StoredInv

\* Worker w's flush of import i's records up to `last`, as the proofs use it.
Flushes(w, i, last) ==
    /\ pc[w] = "reading" /\ currentJob[w] = i
    /\ position' = [position EXCEPT ![w] = last]
    /\ stored' = [stored EXCEPT ![i] = @ \cup (position[w] + 1)..last]
    /\ processed' = [processed EXCEPT ![i] = Capped(@ + (last - position[w]))]
    /\ UNCHANGED vars

LEMMA FlushIsOne ==
  ASSUME WorkerInv, NEW w \in Workers, Flush(w)
  PROVE  \E i \in Imports : \E last \in (position[w] + 1)..RECORDS : Flushes(w, i, last)
  BY DEF Flush, PersistTo, WorkerInv, WorkerOK, ExecutePCs, Flushes

LEMMA FlushStored ==
  ASSUME WorkerInv, StoredInv, NEW w \in Workers, Flush(w)
  PROVE  StoredInv'
<1>1. PICK i \in Imports, last \in (position[w] + 1)..RECORDS : Flushes(w, i, last)
  BY FlushIsOne
<1>2. /\ pc[w] = "reading" /\ currentJob[w] = i
      /\ position' = [position EXCEPT ![w] = last]
      /\ stored' = [stored EXCEPT ![i] = @ \cup (position[w] + 1)..last]
      /\ processed' = [processed EXCEPT ![i] = Capped(@ + (last - position[w]))]
  BY <1>1 DEF Flushes
<1>3. /\ position \in [Workers -> 0..RECORDS] /\ stored \in [Imports -> SUBSET (1..RECORDS)]
      /\ processed \in [Imports -> 0..MAX_PROCESSED]
      /\ MAX_PROCESSED \in Nat /\ RECORDS \in Nat
      /\ position[w] \in 0..RECORDS /\ last \in 0..RECORDS
  BY <1>2, ConstantsAssumption, ServiceAssumption DEF StoredInv, ServiceTypeOK, MAX_PROCESSED
<1>4. UNCHANGED <<status, leasedBy, lease, attempts, imp, cancel, pc, currentJob, mark,
                  toFail, toReset, polling>>
  BY <1>1 DEF Flushes, vars, jobVars, workerVars
<1>5. ServiceTypeOK'
  <2>1. TypeOK'
    BY <1>4 DEF StoredInv, ServiceTypeOK, TypeOK
  <2>2. Capped(processed[i] + (last - position[w])) \in 0..MAX_PROCESSED
    BY <1>1, <1>2, <1>3 DEF Capped
  <2>3. QED
    BY <1>1, <1>2, <1>3, <2>1, <2>2 DEF ServiceTypeOK
<1>6. \A j \in Imports : stored[j] \subseteq stored'[j] /\ stored'[j] \subseteq 1..RECORDS
  BY <1>1, <1>2, <1>3
<1>7. ASSUME NEW v \in Workers, pc'[v] # "reading"
      PROVE  position'[v] = 0
  BY <1>1, <1>2, <1>3, <1>4, <1>7 DEF StoredInv
<1>8. ASSUME NEW j \in Imports, NEW v \in Workers, Passing(v, j)'
      PROVE  1..position'[v] \subseteq stored'[j]
  <2>1. Passing(v, j)
    BY <1>4, <1>8 DEF Passing
  <2>2. CASE v = w
    <3>1. j = i
      BY <1>2, <2>1, <2>2 DEF Passing
    <3>2. 1..position[w] \subseteq stored[i]
      BY <2>1, <2>2, <3>1 DEF StoredInv
    <3>3. stored'[i] = stored[i] \cup (position[w] + 1)..last /\ position'[w] = last
      BY <1>1, <1>2, <1>3
    <3>4. QED
      BY <1>3, <2>2, <3>1, <3>2, <3>3
  <2>3. CASE v # w
    BY <1>2, <1>3, <1>6, <2>1, <2>3 DEF StoredInv
  <2>4. QED
    BY <2>2, <2>3
<1>9. ASSUME NEW j \in Imports, NEW v \in Workers, Finishing(v, j)'
      PROVE  stored'[j] = 1..RECORDS
  BY <1>4, <1>6, <1>9 DEF StoredInv, Finishing
<1>10. CompletedMeansStored'
  BY <1>4, <1>6 DEF StoredInv, CompletedMeansStored
<1>11. QED
  BY <1>5, <1>7, <1>8, <1>9, <1>10 DEF StoredInv

LEMMA StoredInvStep ==
  WorkerInv /\ WorkerInv' /\ StoredInv /\ [ServiceNext]_serviceVars => StoredInv'
<1>1. ASSUME WorkerInv, StoredInv, UNCHANGED serviceVars PROVE StoredInv'
  BY <1>1 DEF serviceVars, tableVars, vars, jobVars, workerVars, StoredInv, ServiceTypeOK,
     TypeOK, Passing, Finishing, CompletedMeansStored
<1>2. QED
  BY <1>1, QueueStored, FlushStored DEF ServiceNext

LEMMA StoredInvariant == ServiceSpec => [](WorkerInv /\ StoredInv)
  BY ServiceWorkerInvariant, InitStoredInv, StoredInvStep, PTL DEF ServiceSpec

\* An import that says COMPLETED has its whole file in the tables, whoever lost a lease
\* on the way: only a run that has stored every record itself marks it so.
THEOREM CompletedIsStored == ServiceSpec => []CompletedMeansStored
<1>1. StoredInv => CompletedMeansStored
  BY DEF StoredInv
<1>2. QED
  BY <1>1, StoredInvariant, PTL

-----------------------------------------------------------------------------
(***************************************************************************)
(* No record is counted more often than its import was claimed.            *)
(***************************************************************************)
\* A worker's stretch of the file has as many elements as it has records.
LEMMA StretchSize ==
  ASSUME NEW w, NEW a \in Nat, NEW b \in Nat, a <= b
  PROVE  /\ IsFiniteSet({w} \X ((a + 1)..b))
         /\ Cardinality({w} \X ((a + 1)..b)) = b - a
<1>1. IsFiniteSet({w}) /\ Cardinality({w}) = 1
  BY FS_Singleton
<1>2. IsFiniteSet((a + 1)..b) /\ Cardinality((a + 1)..b) = b - a
  <2>1. a + 1 \in Int /\ b \in Int
    OBVIOUS
  <2>2. /\ IsFiniteSet((a + 1)..b)
        /\ Cardinality((a + 1)..b) = IF a + 1 > b THEN 0 ELSE b - (a + 1) + 1
    BY <2>1, FS_Interval, Zenon
  <2>3. QED
    BY <2>2
<1>3. /\ IsFiniteSet({w} \X ((a + 1)..b))
      /\ Cardinality({w} \X ((a + 1)..b)) = Cardinality({w}) * Cardinality((a + 1)..b)
  BY <1>1, <1>2, FS_Product
<1>4. QED
  BY <1>1, <1>2, <1>3

LEMMA InitCountInv == ServiceInit => CountInv
<1>. SUFFICES ASSUME ServiceInit, NEW i \in Imports
              PROVE  /\ IsFiniteSet(Due(i))
                     /\ processed[i] + Cardinality(Due(i)) <= attempts[i] * RECORDS
  BY DEF CountInv
<1>1. Due(i) = {}
  BY DEF ServiceInit, Init, Due, Passing
<1>2. IsFiniteSet(Due(i)) /\ Cardinality(Due(i)) = 0
  BY <1>1, FS_EmptySet
<1>3. processed[i] = 0 /\ attempts[i] = 0
  BY DEF ServiceInit, Init
<1>4. QED
  BY <1>2, <1>3, ServiceAssumption

\* A step of the queue lets nothing become due but what it claims.
LEMMA QueueDue ==
  ASSUME WorkerInv, WorkerInv', StoredInv, StoredInv', QueueStep, NEW i \in Imports,
         NEW x \in Due(i)'
  PROVE  x \in Due(i) \/ ClaimNext(x[1], i)
<1>1. /\ x \in Workers \X (1..RECORDS) /\ x[1] \in Workers
      /\ Passing(x[1], i)' /\ x[2] > position'[x[1]]
  BY DEF Due
<1>2. Followed
  BY QueueFollowed DEF QueueStep
<1>3. CASE Passing(x[1], i)
  <2>1. position'[x[1]] = position[x[1]]
    <3>1. CASE pc[x[1]] = "reading"
      BY <1>1, <1>2, <3>1 DEF Followed, QueueStep, LocalsOfExecute
    <3>2. CASE pc[x[1]] # "reading"
      BY <1>1, <3>2 DEF StoredInv, QueueStep, LocalsOfExecute
    <3>3. QED
      BY <3>1, <3>2
  <2>2. QED
    BY <1>1, <1>3, <2>1 DEF Due
<1>4. CASE ~Passing(x[1], i)
  BY <1>1, <1>2, <1>4 DEF Followed
<1>5. QED
  BY <1>3, <1>4

LEMMA QueueCount ==
  ASSUME WorkerInv, WorkerInv', StoredInv, StoredInv', CountInv, QueueStep
  PROVE  CountInv'
<1>. SUFFICES ASSUME NEW i \in Imports
              PROVE  /\ IsFiniteSet(Due(i)')
                     /\ attempts'[i] <= MAX_JOB_ATTEMPTS =>
                          processed'[i] + Cardinality(Due(i)') <= attempts'[i] * RECORDS
  BY DEF CountInv
<1>1. /\ attempts[i] \in Nat /\ attempts'[i] \in Nat /\ attempts[i] <= attempts'[i]
      /\ processed'[i] = processed[i] /\ processed[i] \in Nat
      /\ RECORDS \in Nat /\ MAX_JOB_ATTEMPTS \in Nat
  BY QueueFollowed, ConstantsAssumption, ServiceAssumption
     DEF Followed, QueueStep, WorkerInv, TypeOK, StoredInv, ServiceTypeOK, MAX_PROCESSED,
         tableVars
<1>2. IsFiniteSet(Due(i)) /\ Cardinality(Due(i)) \in Nat
  BY FS_CardinalityType DEF CountInv
<1>3. attempts[i] <= MAX_JOB_ATTEMPTS =>
        processed[i] + Cardinality(Due(i)) <= attempts[i] * RECORDS
  BY DEF CountInv
<1>4. ASSUME NEW w \in Workers, ClaimNext(w, i)
      PROVE  /\ IsFiniteSet(Due(i)')
             /\ attempts'[i] <= MAX_JOB_ATTEMPTS =>
                  processed'[i] + Cardinality(Due(i)') <= attempts'[i] * RECORDS
  <2>. DEFINE D == {w} \X ((0 + 1)..RECORDS)
  <2>1. IsFiniteSet(D) /\ Cardinality(D) = RECORDS
    <3>1. 0 \in Nat /\ 0 <= RECORDS /\ RECORDS - 0 = RECORDS
      BY <1>1
    <3>2. QED
      BY <1>1, <3>1, StretchSize, Zenon
  <2>2. pc[w] = "poll" /\ pc' = [pc EXCEPT ![w] = "claimed"]
    BY <1>4 DEF ClaimNext, Goto
  <2>3. ASSUME NEW v, ClaimNext(v, i) PROVE v = w
    BY <2>2, <2>3 DEF ClaimNext, Goto, WorkerInv, TypeOK
  <2>4. Due(i)' \in SUBSET (Due(i) \cup D)
    <3>1. SUFFICES ASSUME NEW x \in Due(i)' PROVE x \in Due(i) \cup D
      OBVIOUS
    <3>2. x \in Workers \X (1..RECORDS)
      BY DEF Due
    <3>3. x \in Due(i) \/ x[1] = w
      BY QueueDue, <2>3
    <3>4. QED
      BY <3>2, <3>3
  <2>5. /\ IsFiniteSet(Due(i) \cup D)
        /\ Cardinality(Due(i) \cup D) =
             Cardinality(Due(i)) + Cardinality(D) - Cardinality(Due(i) \cap D)
    BY <1>2, <2>1, FS_Union
  <2>6. Cardinality(Due(i) \cap D) \in Nat
    BY <1>2, FS_Intersection, FS_CardinalityType
  <2>7. /\ IsFiniteSet(Due(i)') /\ Cardinality(Due(i)') \in Nat
        /\ Cardinality(Due(i)') <= Cardinality(Due(i) \cup D)
    BY <2>4, <2>5, FS_Subset, FS_CardinalityType
  <2>8. Cardinality(Due(i)') <= Cardinality(Due(i)) + RECORDS
    BY <1>1, <1>2, <2>1, <2>5, <2>6, <2>7
  <2>9. attempts'[i] <= MAX_JOB_ATTEMPTS => attempts'[i] = attempts[i] + 1
    BY <1>1, <1>4 DEF ClaimNext, Lease, WorkerInv, TypeOK
  <2>10. (attempts[i] + 1) * RECORDS = attempts[i] * RECORDS + RECORDS
    BY <1>1
  <2>11. attempts[i] * RECORDS \in Nat
    BY <1>1
  <2>12. QED
    BY <1>1, <1>2, <1>3, <2>7, <2>8, <2>9, <2>10, <2>11
<1>5. CASE ~\E w \in Workers : ClaimNext(w, i)
  <2>1. Due(i)' \in SUBSET Due(i)
    BY QueueDue, <1>5 DEF Due
  <2>2. /\ IsFiniteSet(Due(i)') /\ Cardinality(Due(i)') \in Nat
        /\ Cardinality(Due(i)') <= Cardinality(Due(i))
    BY <1>2, <2>1, FS_Subset, FS_CardinalityType
  <2>3. attempts[i] * RECORDS <= attempts'[i] * RECORDS
    BY <1>1
  <2>4. attempts[i] * RECORDS \in Nat /\ attempts'[i] * RECORDS \in Nat
    BY <1>1
  <2>5. QED
    BY <1>1, <1>2, <1>3, <2>2, <2>3, <2>4
<1>6. QED
  BY <1>4, <1>5

LEMMA FlushCount ==
  ASSUME WorkerInv, StoredInv, CountInv, NEW w \in Workers, Flush(w)
  PROVE  CountInv'
<1>1. PICK i \in Imports, last \in (position[w] + 1)..RECORDS : Flushes(w, i, last)
  BY FlushIsOne
<1>2. /\ pc[w] = "reading" /\ currentJob[w] = i
      /\ position' = [position EXCEPT ![w] = last]
      /\ processed' = [processed EXCEPT ![i] = Capped(@ + (last - position[w]))]
      /\ UNCHANGED <<pc, currentJob, mark, attempts>>
  BY <1>1 DEF Flushes, vars, jobVars, workerVars
<1>3. /\ position \in [Workers -> 0..RECORDS] /\ position[w] \in Nat
      /\ processed \in [Imports -> 0..MAX_PROCESSED] /\ MAX_PROCESSED \in Nat
      /\ last \in Nat /\ RECORDS \in Nat /\ last <= RECORDS /\ position[w] < last
  BY <1>1, ConstantsAssumption, ServiceAssumption
     DEF StoredInv, ServiceTypeOK, MAX_PROCESSED
<1>. DEFINE E == {w} \X ((position[w] + 1)..last)
<1>4. IsFiniteSet(E) /\ Cardinality(E) = last - position[w]
  <2>1. position[w] \in Nat /\ last \in Nat /\ position[w] <= last
    BY <1>3
  <2>2. QED
    BY <2>1, StretchSize, Zenon
<1>5. E \subseteq Due(i) /\ Due(i)' \in SUBSET (Due(i) \ E)
  <2>1. Passing(w, i)
    BY <1>2 DEF Passing
  <2>2. E \subseteq Due(i)
    BY <1>3, <2>1 DEF Due
  <2>3. ASSUME NEW x \in Due(i)' PROVE x \in Due(i) \ E
    BY <1>2, <1>3 DEF Due, Passing
  <2>4. QED
    BY <2>2, <2>3
<1>6. ASSUME NEW j \in Imports, j # i
      PROVE  Due(j)' = Due(j) /\ processed'[j] = processed[j]
  <2>1. ASSUME NEW v \in Workers, Passing(v, j) PROVE position'[v] = position[v]
    BY <1>2, <1>3, <1>6, <2>1 DEF Passing
  <2>2. \A v \in Workers : Passing(v, j)' <=> Passing(v, j)
    BY <1>2 DEF Passing
  <2>3. QED
    BY <1>2, <1>3, <1>6, <2>1, <2>2 DEF Due
<1>7. /\ IsFiniteSet(Due(i)')
      /\ attempts'[i] <= MAX_JOB_ATTEMPTS =>
           processed'[i] + Cardinality(Due(i)') <= attempts'[i] * RECORDS
  <2>1. /\ IsFiniteSet(Due(i)) /\ Cardinality(Due(i)) \in Nat
        /\ attempts[i] <= MAX_JOB_ATTEMPTS =>
             processed[i] + Cardinality(Due(i)) <= attempts[i] * RECORDS
    BY FS_CardinalityType DEF CountInv
  <2>2. /\ IsFiniteSet(Due(i) \ E)
        /\ Cardinality(Due(i) \ E) = Cardinality(Due(i)) - Cardinality(Due(i) \cap E)
    BY <2>1, FS_Difference
  <2>3. Due(i) \cap E = E
    BY <1>5
  <2>4. /\ IsFiniteSet(Due(i)') /\ Cardinality(Due(i)') \in Nat
        /\ Cardinality(Due(i)') <= Cardinality(Due(i) \ E)
    BY <1>5, <2>2, FS_Subset, FS_CardinalityType
  <2>5. Cardinality(Due(i)') <= Cardinality(Due(i)) - (last - position[w])
    BY <1>4, <2>2, <2>3, <2>4
  <2>6. processed[i] \in Nat /\ processed'[i] \in Nat
    BY <1>2, <1>3 DEF Capped
  <2>7. processed'[i] <= processed[i] + (last - position[w])
    BY <1>2, <1>3, <2>6 DEF Capped
  <2>8. attempts'[i] = attempts[i] /\ attempts[i] * RECORDS \in Nat
    BY <1>2, <1>3 DEF WorkerInv, TypeOK
  <2>9. QED
    BY <1>3, <2>1, <2>4, <2>5, <2>6, <2>7, <2>8
<1>8. QED
  BY <1>2, <1>6, <1>7 DEF CountInv

LEMMA CountInvStep ==
  (WorkerInv /\ StoredInv)' /\ WorkerInv /\ StoredInv /\ CountInv
    /\ [ServiceNext]_serviceVars => CountInv'
<1>1. ASSUME CountInv, UNCHANGED serviceVars PROVE CountInv'
  <2>1. UNCHANGED <<attempts, processed, position, pc, currentJob, mark>>
    BY <1>1 DEF serviceVars, tableVars, vars, jobVars, workerVars
  <2>2. \A i \in Imports : Due(i)' = Due(i)
    BY <2>1 DEF Due, Passing
  <2>3. QED
    BY <1>1, <2>1, <2>2 DEF CountInv
<1>2. QED
  BY <1>1, QueueCount, FlushCount DEF ServiceNext

\* A record is counted at most once for every claim of its import's job, although each
\* claim starts the file again and a worker that lost its lease goes on flushing: what
\* runs have counted and may still count never exceeds what was claimed.
THEOREM CountsFollowClaims == ServiceSpec => []CountedOncePerClaim
<1>1. StoredInv /\ CountInv /\ WorkerInv => CountedOncePerClaim
  <2>1. SUFFICES ASSUME StoredInv, CountInv, WorkerInv, NEW i \in Imports,
                        attempts[i] <= MAX_JOB_ATTEMPTS
                 PROVE  processed[i] <= attempts[i] * RECORDS
    BY DEF CountedOncePerClaim
  <2>2. Cardinality(Due(i)) \in Nat
    BY <2>1, FS_CardinalityType DEF CountInv
  <2>3. processed[i] + Cardinality(Due(i)) <= attempts[i] * RECORDS
    BY <2>1 DEF CountInv
  <2>4. processed[i] \in Nat /\ attempts[i] * RECORDS \in Nat
    BY <2>1, ConstantsAssumption, ServiceAssumption
       DEF StoredInv, ServiceTypeOK, MAX_PROCESSED, TypeOK
  <2>5. QED
    BY <2>2, <2>3, <2>4
<1>2. QED
  BY <1>1, StoredInvariant, InitCountInv, CountInvStep, PTL DEF ServiceSpec

-----------------------------------------------------------------------------
\* While heartbeats come in time and no claim falls into a sweep's window, what the
\* tables and counters say of an import that shows a terminal status never changes.
THEOREM EndedTablesAreFinal ==
  ASSUME NoLateLease
  PROVE  ServiceSpec =>
           [][\A i \in Imports :
                imp[i] \in Terminal => UNCHANGED <<stored[i], processed[i]>>]_serviceVars
<1>1. ServiceSpec => []EndedImportsAreStill
  BY ServiceImplementsQueue, EndedImportsAreNotRead, PTL
<1>2. WorkerInv /\ StoredInv /\ EndedImportsAreStill /\ [ServiceNext]_serviceVars =>
        [\A i \in Imports :
           imp[i] \in Terminal => UNCHANGED <<stored[i], processed[i]>>]_serviceVars
  <2>1. ASSUME WorkerInv, EndedImportsAreStill, NEW w \in Workers, Flush(w),
               NEW i \in Imports, imp[i] \in Terminal
        PROVE  UNCHANGED <<stored[i], processed[i]>>
    <3>1. PICK j \in Imports, last \in (position[w] + 1)..RECORDS : Flushes(w, j, last)
      BY <2>1, FlushIsOne
    <3>2. j # i
      BY <2>1, <3>1 DEF EndedImportsAreStill, Flushes
    <3>3. QED
      BY <3>1, <3>2 DEF Flushes
  <2>2. QED
    BY <2>1 DEF ServiceNext, QueueStep, tableVars
<1>3. QED
  BY <1>1, <1>2, StoredInvariant, PTL DEF ServiceSpec
=============================================================================
