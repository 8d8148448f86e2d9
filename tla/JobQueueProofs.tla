--------------------------- MODULE JobQueueProofs ---------------------------
(***************************************************************************)
(* What keeps processing exclusive, for any number of workers and imports. *)
(***************************************************************************)
EXTENDS JobQueue, TLAPS

USE DEF ExecutePCs

-----------------------------------------------------------------------------
(***************************************************************************)
(* What holds whatever the environment does.                               *)
(***************************************************************************)
\* What a worker's program counter says of its other variables.
WorkerOK ==
    \A w \in Workers :
        /\ pc[w] \in ExecutePCs \cup {"releaseImport"} => currentJob[w] \in Imports
        /\ pc[w] \in {"markJob", "markImport"} => mark[w] \in Terminal \cup {"PROCESSING"}
        /\ pc[w] # "reclaimTx" => toFail[w] = {} /\ toReset[w] = {}

WorkerInv == TypeOK /\ WorkerOK

LEMMA InitWorkerInv == Init => WorkerInv
  BY ConstantsAssumption DEF Init, WorkerInv, TypeOK, WorkerOK, PCs, JobStatuses,
     ImportStatuses, Terminal

LEMMA WorkerPollStep ==
  ASSUME WorkerInv, NEW w \in Workers, Poll(w)
  PROVE  WorkerInv'
<1>. USE DEF WorkerInv, TypeOK, WorkerOK, PCs, JobStatuses, ImportStatuses,
       Terminal, Leased, Goto, jobVars, workerVars
<1>1. CASE Start(w)
  BY <1>1 DEF Start
<1>2. CASE SweepWhenIdle(w)
  BY <1>2 DEF SweepWhenIdle
<1>3. CASE ReclaimRead(w)
  BY <1>3 DEF ReclaimRead, Expired
<1>4. CASE ReclaimTx(w)
  BY <1>4 DEF ReclaimTx, SweepRows
<1>5. CASE \E i \in Imports : ClaimNext(w, i)
  BY <1>5, ConstantsAssumption DEF ClaimNext, Lease
<1>6. CASE ReleaseJob(w)
  BY <1>6 DEF ReleaseJob, Releases
<1>7. CASE ReleaseImport(w)
  BY <1>7 DEF ReleaseImport
<1>8. CASE Stopped(w)
  BY <1>8 DEF Stopped
<1>9. QED
  BY <1>1, <1>2, <1>3, <1>4, <1>5, <1>6, <1>7, <1>8 DEF Poll

LEMMA WorkerExecuteStep ==
  ASSUME WorkerInv, NEW w \in Workers, Execute(w) \/ RenewLease(w)
  PROVE  WorkerInv'
<1>. USE DEF WorkerInv, TypeOK, WorkerOK, PCs, JobStatuses, ImportStatuses,
       Terminal, Leased, Goto, BeginMark, jobVars, workerVars
<1>1. CASE FileFound(w)
  BY <1>1 DEF FileFound
<1>2. CASE MarkJob(w)
  BY <1>2 DEF MarkJob, MarkJobRow
<1>3. CASE MarkImport(w)
  <2>1. currentJob[w] \in Imports /\ mark[w] \in Terminal \cup {"PROCESSING"}
    BY <1>3 DEF MarkImport
  <2>2. imp' = [imp EXCEPT ![currentJob[w]] = mark[w]]
    BY <1>3 DEF MarkImport, MarkImportRow
  <2>3. TypeOK'
    BY <1>3, <2>1, <2>2 DEF MarkImport
  <2>4. WorkerOK'
    BY <1>3, <2>1 DEF MarkImport
  <2>5. QED
    BY <2>3, <2>4
<1>4. CASE SeeCancelling(w)
  BY <1>4 DEF SeeCancelling
<1>5. CASE EndOfFile(w)
  BY <1>5 DEF EndOfFile
<1>6. CASE RenewLease(w)
  BY <1>6 DEF RenewLease
<1>7. QED
  BY <1>1, <1>2, <1>3, <1>4, <1>5, <1>6 DEF Execute

LEMMA WorkerFailStep ==
  ASSUME WorkerInv, NEW w \in Workers, Fail(w)
  PROVE  WorkerInv'
<1>. USE DEF WorkerInv, TypeOK, WorkerOK, PCs, JobStatuses, ImportStatuses,
       Terminal, Leased, Goto, BeginMark, Escape, jobVars, workerVars
<1>1. CASE \E i \in Imports : ClaimReplyLost(w, i)
  BY <1>1, ConstantsAssumption DEF ClaimReplyLost, Lease
<1>2. CASE FileUnreadable(w)
  BY <1>2 DEF FileUnreadable
<1>3. CASE MarkFails(w)
  <2>1. currentJob[w] \in Imports /\ mark[w] \in Terminal \cup {"PROCESSING"}
    BY <1>3 DEF MarkFails
  <2>2. /\ imp' \in [Imports -> ImportStatuses]
        /\ status' \in [Imports -> JobStatuses]
    BY <1>3, <2>1 DEF MarkFails, MarkJobRow, MarkImportRow
  <2>3. /\ pc' = [pc EXCEPT ![w] = pc'[w]] /\ pc'[w] \in {"poll", "markJob"}
        /\ mark' = [mark EXCEPT ![w] = mark'[w]] /\ mark'[w] \in {None, "FAILED"}
        /\ pc'[w] = "markJob" => mark'[w] = "FAILED"
        /\ pc[w] \in {"markJob", "markImport"}
    BY <1>3 DEF MarkFails
  <2>4. UNCHANGED <<leasedBy, lease, attempts, cancel, currentJob, toFail, toReset, polling>>
    BY <1>3 DEF MarkFails
  <2>5. TypeOK' /\ WorkerOK'
    BY <2>1, <2>2, <2>3, <2>4
  <2>6. QED
    BY <2>5
<1>4. CASE ReadingFails(w)
  BY <1>4 DEF ReadingFails
<1>5. CASE Stop(w)
  BY <1>5 DEF Stop
<1>6. CASE Crash(w)
  BY <1>6 DEF Crash
<1>7. QED
  BY <1>1, <1>2, <1>3, <1>4, <1>5, <1>6 DEF Fail

LEMMA WorkerRowStep ==
  ASSUME WorkerInv, NEW i \in Imports, Api(i) \/ Expire(i)
  PROVE  WorkerInv'
<1>. USE DEF WorkerInv, TypeOK, WorkerOK, PCs, JobStatuses, ImportStatuses,
       Terminal, Leased, CancelRows, jobVars, workerVars
<1>1. CASE RequestCancellation(i)
  BY <1>1 DEF RequestCancellation
<1>2. CASE CancelRead(i)
  BY <1>2 DEF CancelRead
<1>3. CASE CancelWrite(i)
  BY <1>3 DEF CancelWrite
<1>4. CASE Expire(i)
  BY <1>4 DEF Expire
<1>5. QED
  BY <1>1, <1>2, <1>3, <1>4 DEF Api

LEMMA WorkerInvStep == WorkerInv /\ [Next]_vars => WorkerInv'
<1>. SUFFICES ASSUME WorkerInv, [Next]_vars
              PROVE  WorkerInv'
  OBVIOUS
<1>1. CASE UNCHANGED vars
  BY <1>1 DEF vars, jobVars, workerVars, WorkerInv, TypeOK, WorkerOK
<1>2. QED
  BY <1>1, WorkerPollStep, WorkerExecuteStep, WorkerFailStep, WorkerRowStep DEF Next

LEMMA WorkerInvariant == Spec => []WorkerInv
  BY InitWorkerInv, WorkerInvStep, PTL DEF Spec

\* The variables keep their types.
THEOREM TypeCorrect == Spec => []TypeOK
<1>1. WorkerInv => TypeOK
  BY DEF WorkerInv
<1>2. QED
  BY <1>1, WorkerInvariant, PTL

-----------------------------------------------------------------------------
(***************************************************************************)
(* While heartbeats come in time and no claim falls into a sweep's window. *)
(***************************************************************************)
\* A job some sweep holds in its lists is processed by nobody.
SweptJobIsIdle ==
    \A i \in Imports : \A w \in Workers : InSweep(i) => ~Executing(w, i)

LeaseInv ==
    /\ WorkerInv
    /\ ExecutorOwnsLease
    /\ SweptJobIsIdle
    /\ LeasedJobsCanBeReclaimed

\* The two timing hazards that break exclusivity: the rest may all happen.
NoLateLease == Hazards \cap {"slow", "sweeprace"} = {}

LEMMA InitLeaseInv == Init => LeaseInv
  BY ConstantsAssumption DEF Init, LeaseInv, WorkerInv, TypeOK, WorkerOK, ExecutorOwnsLease,
     SweptJobIsIdle, LeasedJobsCanBeReclaimed, Executing, InSweep, PCs,
     JobStatuses, ImportStatuses, Terminal, Leased

LEMMA PollStep ==
  ASSUME NoLateLease, LeaseInv, NEW w \in Workers, Poll(w)
  PROVE  LeaseInv'
<1>. USE DEF LeaseInv, WorkerInv, TypeOK, WorkerOK, ExecutorOwnsLease, SweptJobIsIdle,
       LeasedJobsCanBeReclaimed, Executing, InSweep, PCs, JobStatuses,
       ImportStatuses, Terminal, Leased, Goto, jobVars, workerVars
<1>1. CASE Start(w)
  BY <1>1 DEF Start
<1>2. CASE SweepWhenIdle(w)
  BY <1>2 DEF SweepWhenIdle
<1>3. CASE ReclaimRead(w)
  BY <1>3 DEF ReclaimRead, Expired
<1>4. CASE ReclaimTx(w)
  BY <1>4 DEF ReclaimTx, SweepRows
<1>5. CASE \E i \in Imports : ClaimNext(w, i)
  BY <1>5, ConstantsAssumption DEF ClaimNext, Lease, MayClaim, Claimable, NoLateLease
<1>6. CASE ReleaseJob(w)
  BY <1>6 DEF ReleaseJob, Releases
<1>7. CASE ReleaseImport(w)
  BY <1>7 DEF ReleaseImport
<1>8. CASE Stopped(w)
  BY <1>8 DEF Stopped
<1>9. QED
  BY <1>1, <1>2, <1>3, <1>4, <1>5, <1>6, <1>7, <1>8 DEF Poll

LEMMA ExecuteStep ==
  ASSUME NoLateLease, LeaseInv, NEW w \in Workers, Execute(w) \/ RenewLease(w)
  PROVE  LeaseInv'
<1>. USE DEF LeaseInv, WorkerInv, TypeOK, WorkerOK, ExecutorOwnsLease, SweptJobIsIdle,
       LeasedJobsCanBeReclaimed, Executing, InSweep, PCs, JobStatuses,
       ImportStatuses, Terminal, Leased, Goto, BeginMark, jobVars, workerVars
<1>1. CASE FileFound(w)
  BY <1>1 DEF FileFound
<1>2. CASE MarkJob(w)
  BY <1>2 DEF MarkJob, MarkJobRow
<1>3. CASE MarkImport(w)
  <2>1. currentJob[w] \in Imports /\ mark[w] \in Terminal \cup {"PROCESSING"}
    BY <1>3 DEF MarkImport
  <2>2. TypeOK'
    BY <1>3, <2>1 DEF MarkImport, MarkImportRow
  <2>3. WorkerOK'
    BY <1>3, <2>1 DEF MarkImport, MarkImportRow
  <2>4. ExecutorOwnsLease' /\ SweptJobIsIdle' /\ LeasedJobsCanBeReclaimed'
    BY <1>3, <2>1 DEF MarkImport, MarkImportRow
  <2>5. QED
    BY <2>2, <2>3, <2>4
<1>4. CASE SeeCancelling(w)
  BY <1>4 DEF SeeCancelling
<1>5. CASE EndOfFile(w)
  BY <1>5 DEF EndOfFile
<1>6. CASE RenewLease(w)
  BY <1>6 DEF RenewLease
<1>7. QED
  BY <1>1, <1>2, <1>3, <1>4, <1>5, <1>6 DEF Execute

LEMMA FailStep ==
  ASSUME NoLateLease, LeaseInv, NEW w \in Workers, Fail(w)
  PROVE  LeaseInv'
<1>. USE DEF LeaseInv, WorkerInv, TypeOK, WorkerOK, ExecutorOwnsLease, SweptJobIsIdle,
       LeasedJobsCanBeReclaimed, Executing, InSweep, PCs, JobStatuses,
       ImportStatuses, Terminal, Leased, Goto, BeginMark, Escape, jobVars, workerVars
<1>1. CASE \E i \in Imports : ClaimReplyLost(w, i)
  BY <1>1, ConstantsAssumption
     DEF ClaimReplyLost, Lease, MayClaim, Claimable, NoLateLease
<1>2. CASE FileUnreadable(w)
  BY <1>2 DEF FileUnreadable
<1>3. CASE MarkFails(w)
  <2>1. currentJob[w] \in Imports /\ mark[w] \in Terminal \cup {"PROCESSING"}
    BY <1>3 DEF MarkFails
  <2>2. /\ imp' \in [Imports -> ImportStatuses]
        /\ status' \in [Imports -> JobStatuses]
        /\ \A i \in Imports : status'[i] = "PENDING" => status[i] = "PENDING"
        /\ \A i \in Imports : status'[i] \in Leased =>
                status[i] \in Leased \/ Executing(w, i)
    <3>1. \/ UNCHANGED <<status, imp>>
          \/ MarkJobRow(w) /\ UNCHANGED imp
          \/ MarkImportRow(w) /\ UNCHANGED status
      BY <1>3 DEF MarkFails
    <3>2. pc[w] \in ExecutePCs
      BY <1>3 DEF MarkFails
    <3>3. CASE UNCHANGED <<status, imp>>
      BY <3>3
    <3>4. CASE MarkJobRow(w) /\ UNCHANGED imp
      BY <3>2, <3>4, <2>1 DEF MarkJobRow
    <3>5. CASE MarkImportRow(w) /\ UNCHANGED status
      BY <3>5, <2>1 DEF MarkImportRow
    <3>6. QED
      BY <3>1, <3>3, <3>4, <3>5
  <2>3. /\ pc' = [pc EXCEPT ![w] = pc'[w]] /\ pc'[w] \in {"poll", "markJob"}
        /\ mark' = [mark EXCEPT ![w] = mark'[w]] /\ mark'[w] \in {None, "FAILED"}
        /\ pc'[w] = "markJob" => mark'[w] = "FAILED"
        /\ pc[w] \in {"markJob", "markImport"}
    BY <1>3 DEF MarkFails
  <2>4. UNCHANGED <<leasedBy, lease, attempts, cancel, currentJob, toFail, toReset, polling>>
    BY <1>3 DEF MarkFails
  <2>5. TypeOK'
    BY <2>2, <2>3, <2>4
  <2>6. WorkerOK'
    BY <2>1, <2>3, <2>4
  <2>7. ExecutorOwnsLease' /\ SweptJobIsIdle' /\ LeasedJobsCanBeReclaimed'
    BY <2>1, <2>2, <2>3, <2>4
  <2>8. QED
    BY <2>5, <2>6, <2>7
<1>4. CASE ReadingFails(w)
  BY <1>4 DEF ReadingFails
<1>5. CASE Stop(w)
  BY <1>5 DEF Stop
<1>6. CASE Crash(w)
  BY <1>6 DEF Crash
<1>7. QED
  BY <1>1, <1>2, <1>3, <1>4, <1>5, <1>6 DEF Fail

LEMMA RowStep ==
  ASSUME NoLateLease, LeaseInv, NEW i \in Imports, Api(i) \/ Expire(i)
  PROVE  LeaseInv'
<1>. USE DEF LeaseInv, WorkerInv, TypeOK, WorkerOK, ExecutorOwnsLease, SweptJobIsIdle,
       LeasedJobsCanBeReclaimed, Executing, InSweep, PCs, JobStatuses,
       ImportStatuses, Terminal, Leased, jobVars, workerVars
<1>1. CASE RequestCancellation(i)
  BY <1>1 DEF RequestCancellation, CancelRows
<1>2. CASE CancelRead(i)
  BY <1>2 DEF CancelRead
<1>3. CASE CancelWrite(i)
  BY <1>3 DEF CancelWrite, CancelRows
<1>4. CASE Expire(i)
  BY <1>4 DEF Expire, NoLateLease
<1>5. QED
  BY <1>1, <1>2, <1>3, <1>4 DEF Api

LEMMA LeaseInvStep == NoLateLease /\ LeaseInv /\ [Next]_vars => LeaseInv'
<1>. SUFFICES ASSUME NoLateLease, LeaseInv, [Next]_vars PROVE LeaseInv'
  OBVIOUS
<1>1. CASE UNCHANGED vars
  BY <1>1 DEF vars, jobVars, workerVars, LeaseInv, WorkerInv, TypeOK, WorkerOK,
     ExecutorOwnsLease, SweptJobIsIdle, LeasedJobsCanBeReclaimed, Executing, InSweep
<1>2. QED
  BY <1>1, PollStep, ExecuteStep, FailStep, RowStep DEF Next

\* While nothing delays a heartbeat past its lease and no claim falls into a
\* sweep's window, every reachable state satisfies the lease invariant: this is
\* what TypeOK and the three claims below rest on.
THEOREM LeaseInvariant ==
  ASSUME NoLateLease PROVE Spec => []LeaseInv
BY InitLeaseInv, LeaseInvStep, PTL DEF Spec

\* No import is processed by two workers, whatever crashes, rejects or is
\* cancelled: a job is claimed only when its executor's lease cannot be valid.
THEOREM ProcessingIsExclusive ==
  ASSUME NoLateLease PROVE Spec => []ExclusiveProcessing
<1>1. LeaseInv => ExclusiveProcessing
  BY DEF LeaseInv, WorkerInv, TypeOK, ExecutorOwnsLease, ExclusiveProcessing
<1>2. QED
  BY <1>1, LeaseInvariant, PTL

\* No job is left in CLAIMED or PROCESSING without a lease to expire, so claim
\* and sweep between them can see every unfinished, uncancelled job.
THEOREM JobsStayReclaimable ==
  ASSUME NoLateLease PROVE Spec => []LeasedJobsCanBeReclaimed
<1>1. LeaseInv => LeasedJobsCanBeReclaimed
  BY DEF LeaseInv
<1>2. QED
  BY <1>1, LeaseInvariant, PTL

-----------------------------------------------------------------------------
(***************************************************************************)
(* Under the same hazards, what has ended stays as it is.                  *)
(***************************************************************************)
\* A worker that has not failed, or holds a job in its sweep's lists, acts on an import
\* that has not ended; only the sweep's failing may repeat another sweep's.
EndInv ==
    /\ \A w \in Workers :
        /\ pc[w] \in {"claimed", "reading"} => imp[currentJob[w]] \notin Terminal
        /\ pc[w] \in {"markJob", "markImport"} /\ mark[w] # "FAILED" =>
             imp[currentJob[w]] \notin Terminal
        /\ pc[w] = "markImport" => status[currentJob[w]] \in {mark[w], "CANCELLING"}
    /\ \A i \in Imports : \A w \in Workers :
        /\ i \in toFail[w] => Abandoned(i) /\ imp[i] \notin {"COMPLETED", "CANCELLED"}
        /\ i \in toReset[w] => ~Abandoned(i) /\ imp[i] \notin Terminal
    /\ \A i \in Imports : imp[i] \in Terminal => status[i] \notin Leased \cup {"PENDING"}

\* One step's worth of TerminalIsFinal.
Kept ==
    \A i \in Imports : imp[i] \in Terminal /\ imp'[i] # imp[i] =>
        \/ imp'[i] = "CANCELLING" /\ cancel[i] = "decided"
        \/ /\ imp'[i] = "FAILED"
           /\ \E w \in Workers : currentJob[w] = i /\ mark[w] = "FAILED"

LEMMA InitEndInv == Init => EndInv
  BY DEF Init, EndInv, Terminal, Leased

LEMMA EndPollStep ==
  ASSUME NoLateLease, LeaseInv, EndInv, NEW w \in Workers, Poll(w)
  PROVE  EndInv' /\ Kept
<1>. USE DEF LeaseInv, WorkerInv, TypeOK, WorkerOK, ExecutorOwnsLease, SweptJobIsIdle,
       EndInv, Kept, Executing, InSweep, Abandoned, PCs, JobStatuses, ImportStatuses,
       Terminal, Leased, Goto, jobVars, workerVars
<1>1. CASE Start(w)
  BY <1>1 DEF Start
<1>2. CASE SweepWhenIdle(w)
  BY <1>2 DEF SweepWhenIdle
<1>3. CASE ReclaimRead(w)
  BY <1>3 DEF ReclaimRead, Expired
<1>4. CASE ReclaimTx(w)
  <2>1. /\ pc' = [pc EXCEPT ![w] = "poll"]
        /\ toFail' = [toFail EXCEPT ![w] = {}]
        /\ toReset' = [toReset EXCEPT ![w] = {}]
        /\ UNCHANGED <<attempts, currentJob, mark>>
    BY <1>4 DEF ReclaimTx, SweepRows
  <2>2. \A i \in toFail[w] \cup toReset[w] : \A v \in Workers : ~Executing(v, i)
    OBVIOUS
  <2>3. \A i \in Imports :
           \/ i \in toFail[w] /\ status'[i] = "FAILED" /\ imp'[i] = "FAILED"
           \/ /\ i \in toReset[w] /\ status'[i] = "PENDING"
              /\ imp[i] \notin Terminal /\ imp'[i] \in {imp[i], "PENDING"}
           \/ UNCHANGED <<status[i], imp[i]>>
    BY <1>4 DEF ReclaimTx, SweepRows
  <2>4. EndInv'
    BY <2>1, <2>2, <2>3
  <2>5. Kept
    BY <2>3
  <2>6. QED
    BY <2>4, <2>5
<1>5. CASE \E i \in Imports : ClaimNext(w, i)
  BY <1>5, ConstantsAssumption DEF ClaimNext, Lease, MayClaim, Claimable, NoLateLease
<1>6. CASE ReleaseJob(w)
  BY <1>6 DEF ReleaseJob, Releases
<1>7. CASE ReleaseImport(w)
  BY <1>7 DEF ReleaseImport
<1>8. CASE Stopped(w)
  BY <1>8 DEF Stopped
<1>9. QED
  BY <1>1, <1>2, <1>3, <1>4, <1>5, <1>6, <1>7, <1>8 DEF Poll

LEMMA EndExecuteStep ==
  ASSUME NoLateLease, LeaseInv, EndInv, NEW w \in Workers, Execute(w) \/ RenewLease(w)
  PROVE  EndInv' /\ Kept
<1>. USE DEF LeaseInv, WorkerInv, TypeOK, WorkerOK, ExecutorOwnsLease, SweptJobIsIdle,
       EndInv, Kept, Executing, InSweep, Abandoned, PCs, JobStatuses, ImportStatuses,
       Terminal, Leased, Goto, BeginMark, jobVars, workerVars
<1>1. CASE FileFound(w)
  BY <1>1 DEF FileFound
<1>2. CASE MarkJob(w)
  BY <1>2 DEF MarkJob, MarkJobRow
<1>3. CASE MarkImport(w)
  BY <1>3 DEF MarkImport, MarkImportRow
<1>4. CASE SeeCancelling(w)
  BY <1>4 DEF SeeCancelling
<1>5. CASE EndOfFile(w)
  BY <1>5 DEF EndOfFile
<1>6. CASE RenewLease(w)
  BY <1>6 DEF RenewLease
<1>7. QED
  BY <1>1, <1>2, <1>3, <1>4, <1>5, <1>6 DEF Execute

LEMMA EndFailStep ==
  ASSUME NoLateLease, LeaseInv, EndInv, NEW w \in Workers, Fail(w)
  PROVE  EndInv' /\ Kept
<1>. USE DEF LeaseInv, WorkerInv, TypeOK, WorkerOK, ExecutorOwnsLease, SweptJobIsIdle,
       EndInv, Kept, Executing, InSweep, Abandoned, PCs, JobStatuses, ImportStatuses,
       Terminal, Leased, Goto, BeginMark, Escape, jobVars, workerVars
<1>1. CASE \E i \in Imports : ClaimReplyLost(w, i)
  BY <1>1, ConstantsAssumption
     DEF ClaimReplyLost, Lease, MayClaim, Claimable, NoLateLease
<1>2. CASE FileUnreadable(w)
  BY <1>2 DEF FileUnreadable
<1>3. CASE MarkFails(w)
  BY <1>3 DEF MarkFails, MarkJobRow, MarkImportRow
<1>4. CASE ReadingFails(w)
  BY <1>4 DEF ReadingFails
<1>5. CASE Stop(w)
  BY <1>5 DEF Stop
<1>6. CASE Crash(w)
  BY <1>6 DEF Crash
<1>7. QED
  BY <1>1, <1>2, <1>3, <1>4, <1>5, <1>6 DEF Fail

LEMMA EndRowStep ==
  ASSUME NoLateLease, LeaseInv, EndInv, NEW i \in Imports, Api(i) \/ Expire(i)
  PROVE  EndInv' /\ Kept
<1>. USE DEF LeaseInv, WorkerInv, TypeOK, WorkerOK, EndInv, Kept, Abandoned, PCs,
       JobStatuses, ImportStatuses, Terminal, Leased, CancelRows, jobVars, workerVars
<1>1. CASE RequestCancellation(i)
  BY <1>1 DEF RequestCancellation, CancelRefused
<1>2. CASE CancelRead(i)
  BY <1>2 DEF CancelRead
<1>3. CASE CancelWrite(i)
  BY <1>3 DEF CancelWrite
<1>4. CASE Expire(i)
  BY <1>4 DEF Expire
<1>5. QED
  BY <1>1, <1>2, <1>3, <1>4 DEF Api

LEMMA EndInvStep ==
  NoLateLease /\ LeaseInv /\ EndInv /\ [Next]_vars => EndInv' /\ (Kept \/ UNCHANGED vars)
<1>. SUFFICES ASSUME NoLateLease, LeaseInv, EndInv, [Next]_vars
              PROVE  EndInv' /\ (Kept \/ UNCHANGED vars)
  OBVIOUS
<1>1. CASE UNCHANGED vars
  BY <1>1 DEF vars, jobVars, workerVars, EndInv, Abandoned
<1>2. QED
  BY <1>1, EndPollStep, EndExecuteStep, EndFailStep, EndRowStep DEF Next

LEMMA EndInvariant == ASSUME NoLateLease PROVE Spec => [](LeaseInv /\ EndInv)
<1>1. Spec => []LeaseInv
  BY LeaseInvariant
<1>2. QED
  BY <1>1, InitEndInv, EndInvStep, PTL DEF Spec

\* Nobody reads, and so may flush into, an import that a client already sees ended.
THEOREM EndedImportsAreNotRead == ASSUME NoLateLease PROVE Spec => []EndedImportsAreStill
<1>1. EndInv => EndedImportsAreStill
  BY DEF EndInv, EndedImportsAreStill
<1>2. QED
  BY <1>1, EndInvariant, PTL

\* An import's terminal status is written over only by a cancel request decided before
\* it ended and by the markFailed that follows a rejected call.
THEOREM TerminalStatusIsFinal == ASSUME NoLateLease PROVE Spec => TerminalIsFinal
<1>1. NoLateLease /\ LeaseInv /\ EndInv /\ [Next]_vars =>
        [\A i \in Imports : imp[i] \in Terminal /\ imp'[i] # imp[i] =>
            \/ imp'[i] = "CANCELLING" /\ cancel[i] = "decided"
            \/ /\ imp'[i] = "FAILED"
               /\ \E w \in Workers : currentJob[w] = i /\ mark[w] = "FAILED"]_vars
  BY EndInvStep DEF Kept
<1>2. QED
  BY <1>1, EndInvariant, PTL DEF Spec, TerminalIsFinal

-----------------------------------------------------------------------------
(***************************************************************************)
(* Under the same hazards, how far the unguarded updates leave the table.  *)
(***************************************************************************)
\* A run whose markProcessing has been written to both rows.
PastProcessing(w) ==
    \/ pc[w] = "reading"
    \/ pc[w] \in {"markJob", "markImport"} /\ mark[w] # "PROCESSING"

\* A claim counts an attempt, so a release that is late with the import's row meets a
\* second one; what a sweep is to reset has not ended.
AttemptsCounted ==
    /\ \A i \in Imports : status[i] \in Leased => attempts[i] >= 1
    /\ \A w \in Workers :
          pc[w] \in ExecutePCs \cup {"releaseImport"} => attempts[currentJob[w]] >= 1
    /\ \A i \in Imports : \A v, w \in Workers :
          pc[v] = "releaseImport" /\ currentJob[v] = i /\ Executing(w, i) => attempts[i] > 1

ResetsAreOpen ==
    \A i \in Imports : \A w \in Workers : i \in toReset[w] => status[i] \notin Terminal

RunIsOpen(w) ==
    /\ PastProcessing(w) /\ imp[currentJob[w]] = "PENDING" => attempts[currentJob[w]] > 1
    /\ pc[w] = "markImport" /\ mark[w] = "CANCELLED" =>
         status[currentJob[w]] = "CANCELLED" \/ imp[currentJob[w]] # "PROCESSING"

RunsAreOpen == \A w \in Workers : RunIsOpen(w)

OpenInv == AttemptsCounted /\ ResetsAreOpen /\ RunsAreOpen

\* One step's worth of RequeuedOnlyByStaleSweep and of OpenTransitionsAllowed.
Requeued ==
    \A i \in Imports :
       status[i] \in Terminal \cup {"CANCELLING"} /\ status'[i] = "PENDING" =>
          /\ status[i] = "CANCELLING"
          /\ \E w \in Workers : pc[w] = "reclaimTx" /\ i \in toReset[w]

OpenAllowed ==
    \A i \in Imports : imp[i] \notin Terminal /\ imp'[i] # imp[i] =>
       \/ imp'[i] \in AllowedTransitions[imp[i]]
       \/ /\ imp[i] = "CANCELLING" /\ imp'[i] = "PROCESSING"
          /\ \E w \in Workers : pc[w] = "markImport" /\ currentJob[w] = i
                               /\ mark[w] = "PROCESSING"
       \/ imp[i] = "PROCESSING" /\ imp'[i] = "CANCELLED" /\ status[i] = "CANCELLED"
       \/ imp[i] = "PENDING" /\ imp'[i] = "COMPLETED" /\ attempts[i] > 1

LEMMA AttemptsKept ==
  ASSUME AttemptsCounted, UNCHANGED <<attempts, currentJob>>,
         \A i \in Imports : status'[i] \in Leased => attempts[i] >= 1,
         \A v \in Workers : /\ pc'[v] \in ExecutePCs => pc[v] \in ExecutePCs
                            /\ pc'[v] = "releaseImport" => pc[v] = "releaseImport"
  PROVE  AttemptsCounted'
  BY DEF AttemptsCounted, Executing

LEMMA InitOpenInv == Init => OpenInv
  BY DEF Init, OpenInv, AttemptsCounted, ResetsAreOpen, RunsAreOpen, RunIsOpen, PastProcessing, Terminal, Leased, Executing

LEMMA OpenPollStep ==
  ASSUME NoLateLease, LeaseInv, EndInv, OpenInv, NEW w \in Workers, Poll(w)
  PROVE  OpenInv' /\ Requeued /\ OpenAllowed
<1>. USE ConstantsAssumption
     DEF LeaseInv, WorkerInv, TypeOK, WorkerOK, ExecutorOwnsLease, SweptJobIsIdle,
       EndInv, OpenInv, AttemptsCounted, ResetsAreOpen, RunsAreOpen, RunIsOpen, PastProcessing, Requeued, OpenAllowed, AllowedTransitions, Executing, InSweep,
       Abandoned, PCs, JobStatuses, ImportStatuses, Terminal, Leased, Goto, jobVars,
       workerVars
<1>1. CASE Start(w)
  BY <1>1 DEF Start
<1>2. CASE SweepWhenIdle(w)
  BY <1>2 DEF SweepWhenIdle
<1>3. CASE ReclaimRead(w)
  BY <1>3 DEF ReclaimRead, Expired
<1>4. CASE ReclaimTx(w)
  <2>1. /\ pc[w] = "reclaimTx" /\ pc' = [pc EXCEPT ![w] = "poll"]
        /\ toFail' = [toFail EXCEPT ![w] = {}]
        /\ toReset' = [toReset EXCEPT ![w] = {}]
        /\ UNCHANGED <<attempts, currentJob, mark>>
    BY <1>4 DEF ReclaimTx, SweepRows
  <2>2. \A i \in toFail[w] \cup toReset[w] : \A v \in Workers : ~Executing(v, i)
    OBVIOUS
  <2>3. \A i \in Imports :
           \/ i \in toFail[w] /\ status'[i] = "FAILED" /\ imp'[i] = "FAILED"
           \/ /\ i \in toReset[w] /\ status'[i] = "PENDING"
              /\ \/ imp'[i] = imp[i]
                 \/ imp[i] = "PROCESSING" /\ imp'[i] = "PENDING"
           \/ UNCHANGED <<status[i], imp[i]>>
    BY <1>4 DEF ReclaimTx, SweepRows
  <2>4. OpenInv'
    BY <2>1, <2>2, <2>3
  <2>5. Requeued /\ OpenAllowed
    BY <2>1, <2>3
  <2>6. QED
    BY <2>4, <2>5
<1>5. CASE \E i \in Imports : ClaimNext(w, i)
  BY <1>5 DEF ClaimNext, Lease, MayClaim, Claimable, NoLateLease
<1>6. CASE ReleaseJob(w)
  BY <1>6 DEF ReleaseJob, Releases
<1>7. CASE ReleaseImport(w)
  BY <1>7 DEF ReleaseImport
<1>8. CASE Stopped(w)
  BY <1>8 DEF Stopped
<1>9. QED
  BY <1>1, <1>2, <1>3, <1>4, <1>5, <1>6, <1>7, <1>8 DEF Poll

LEMMA OpenExecuteStep ==
  ASSUME NoLateLease, LeaseInv, EndInv, OpenInv, NEW w \in Workers,
         Execute(w) \/ RenewLease(w)
  PROVE  OpenInv' /\ Requeued /\ OpenAllowed
<1>. USE DEF LeaseInv, WorkerInv, TypeOK, WorkerOK, ExecutorOwnsLease, SweptJobIsIdle,
       EndInv, OpenInv, AttemptsCounted, ResetsAreOpen, RunsAreOpen, RunIsOpen, PastProcessing, Requeued, OpenAllowed, AllowedTransitions, Executing, InSweep,
       PCs, JobStatuses, ImportStatuses, Terminal, Leased, Goto, BeginMark, jobVars,
       workerVars
<1>1. CASE FileFound(w)
  BY <1>1 DEF FileFound
<1>2. CASE MarkJob(w)
  BY <1>2 DEF MarkJob, MarkJobRow
<1>3. CASE MarkImport(w)
  <2>1. /\ pc[w] = "markImport" /\ currentJob[w] \in Imports
        /\ imp' = [imp EXCEPT ![currentJob[w]] = mark[w]]
        /\ mark' = [mark EXCEPT ![w] = None]
        /\ UNCHANGED <<status, attempts, toReset>>
    BY <1>3 DEF MarkImport, MarkImportRow
  <2>2. /\ pc' = [pc EXCEPT ![w] = pc'[w]] /\ pc'[w] \in {"reading", "poll"}
        /\ pc'[w] = "reading" => mark[w] = "PROCESSING" /\ currentJob' = currentJob
        /\ pc'[w] = "poll" => currentJob' = [currentJob EXCEPT ![w] = None]
    BY <1>3 DEF MarkImport
  <2>3. \A v \in Workers : pc[v] \in ExecutePCs /\ currentJob[v] = currentJob[w] => v = w
    BY <2>1
  <2>4. \A v \in Workers \ {w} : /\ pc'[v] = pc[v] /\ mark'[v] = mark[v]
                                 /\ currentJob'[v] = currentJob[v]
    BY <2>1, <2>2
  <2>5. OpenInv'
    <3>1. AttemptsCounted' /\ ResetsAreOpen'
      BY <2>1, <2>2, <2>4
    <3>2. RunsAreOpen'
      <4>. SUFFICES ASSUME NEW v \in Workers
                    PROVE  RunIsOpen(v)'
        OBVIOUS
      <4>1. CASE v = w
        BY <4>1, <2>1, <2>2
      <4>2. CASE v # w
        BY <4>2, <2>1, <2>3, <2>4
      <4>3. QED
        BY <4>1, <4>2
    <3>3. QED
      BY <3>1, <3>2
  <2>6. mark[w] \in Terminal \cup {"PROCESSING"}
    BY <2>1
  <2>7. OpenAllowed
    BY <2>1, <2>6
  <2>8. QED
    BY <2>1, <2>5, <2>7
<1>4. CASE SeeCancelling(w)
  BY <1>4 DEF SeeCancelling
<1>5. CASE EndOfFile(w)
  BY <1>5 DEF EndOfFile
<1>6. CASE RenewLease(w)
  BY <1>6 DEF RenewLease
<1>7. QED
  BY <1>1, <1>2, <1>3, <1>4, <1>5, <1>6 DEF Execute

LEMMA OpenFailStep ==
  ASSUME NoLateLease, LeaseInv, EndInv, OpenInv, NEW w \in Workers, Fail(w)
  PROVE  OpenInv' /\ Requeued /\ OpenAllowed
<1>. USE ConstantsAssumption
     DEF LeaseInv, WorkerInv, TypeOK, WorkerOK, ExecutorOwnsLease, SweptJobIsIdle,
       EndInv, OpenInv, AttemptsCounted, ResetsAreOpen, RunsAreOpen, RunIsOpen, PastProcessing, Requeued, OpenAllowed, AllowedTransitions, Executing, InSweep,
       PCs, JobStatuses, ImportStatuses, Terminal, Leased, Goto, BeginMark, Escape,
       jobVars, workerVars
<1>1. CASE \E i \in Imports : ClaimReplyLost(w, i)
  BY <1>1 DEF ClaimReplyLost, Lease, MayClaim, Claimable, NoLateLease
<1>2. CASE FileUnreadable(w)
  BY <1>2 DEF FileUnreadable
<1>3. CASE MarkFails(w)
  <2>1. /\ pc[w] \in {"markJob", "markImport"} /\ currentJob[w] \in Imports
        /\ mark[w] \in Terminal \cup {"PROCESSING"}
    BY <1>3 DEF MarkFails
  <2>2. /\ \/ UNCHANGED <<status, imp>>
           \/ /\ status' = [status EXCEPT ![currentJob[w]] = mark[w]] /\ UNCHANGED imp
           \/ /\ pc[w] = "markImport" /\ UNCHANGED status
              /\ imp' = [imp EXCEPT ![currentJob[w]] = mark[w]]
        /\ UNCHANGED <<attempts, currentJob, toReset>>
    BY <1>3 DEF MarkFails, MarkJobRow, MarkImportRow
  <2>3. /\ pc' = [pc EXCEPT ![w] = pc'[w]] /\ pc'[w] \in {"poll", "markJob"}
        /\ mark' = [mark EXCEPT ![w] = mark'[w]]
        /\ pc'[w] = "markJob" => mark[w] # "PROCESSING"
    BY <1>3 DEF MarkFails
  <2>4. \A v \in Workers : pc[v] \in ExecutePCs /\ currentJob[v] = currentJob[w] => v = w
    BY <2>1
  <2>5. \A v \in Workers \ {w} : pc'[v] = pc[v] /\ mark'[v] = mark[v]
    BY <2>3
  <2>6. \A i \in Imports : \A v \in Workers : i \in toReset[v] => i # currentJob[w]
    BY <2>1
  <2>7. OpenInv'
    <3>1. AttemptsCounted'
      <4>1. \A i \in Imports : status'[i] \in Leased =>
               status[i] \in Leased \/ i = currentJob[w]
        BY <2>1, <2>2
      <4>2. \A v \in Workers : /\ pc'[v] \in ExecutePCs => pc[v] \in ExecutePCs
                               /\ pc'[v] = "releaseImport" => pc[v] = "releaseImport"
        BY <2>1, <2>3
      <4>3. pc[w] \in ExecutePCs => attempts[currentJob[w]] >= 1
        BY <2>1
      <4>4. UNCHANGED <<attempts, currentJob>>
        BY <2>2
      <4>5. \A i \in Imports : status'[i] \in Leased => attempts[i] >= 1
        BY <2>1, <4>1, <4>3
      <4>6. AttemptsCounted
        OBVIOUS
      <4>. HIDE DEF AttemptsCounted, Leased, ExecutePCs
      <4>7. QED
        BY <4>2, <4>4, <4>5, <4>6, AttemptsKept
    <3>2. RunsAreOpen'
      <4>. SUFFICES ASSUME NEW v \in Workers
                    PROVE  RunIsOpen(v)'
        OBVIOUS
      <4>1. CASE v = w
        BY <4>1, <2>1, <2>2, <2>3
      <4>2. CASE v # w
        BY <4>2, <2>1, <2>2, <2>4, <2>5
      <4>3. QED
        BY <4>1, <4>2
    <3>3. ResetsAreOpen'
      BY <2>2, <2>6
    <3>4. QED
      BY <3>1, <3>2, <3>3
  <2>8. Requeued
    BY <2>1, <2>2
  <2>9. OpenAllowed
    BY <2>1, <2>2
  <2>10. QED
    BY <2>7, <2>8, <2>9
<1>4. CASE ReadingFails(w)
  BY <1>4 DEF ReadingFails
<1>5. CASE Stop(w)
  BY <1>5 DEF Stop
<1>6. CASE Crash(w)
  BY <1>6 DEF Crash
<1>7. QED
  BY <1>1, <1>2, <1>3, <1>4, <1>5, <1>6 DEF Fail

LEMMA OpenRowStep ==
  ASSUME NoLateLease, LeaseInv, EndInv, OpenInv, NEW i \in Imports, Api(i) \/ Expire(i)
  PROVE  OpenInv' /\ Requeued /\ OpenAllowed
<1>. USE DEF LeaseInv, WorkerInv, TypeOK, WorkerOK, EndInv, OpenInv, AttemptsCounted, ResetsAreOpen, RunsAreOpen, RunIsOpen, PastProcessing, Requeued, OpenAllowed,
       AllowedTransitions, Executing, PCs, JobStatuses, ImportStatuses, Terminal, Leased,
       CancelRows, jobVars, workerVars
<1>1. CASE RequestCancellation(i)
  BY <1>1 DEF RequestCancellation, CancelRefused
<1>2. CASE CancelRead(i)
  BY <1>2 DEF CancelRead
<1>3. CASE CancelWrite(i)
  BY <1>3 DEF CancelWrite
<1>4. CASE Expire(i)
  BY <1>4 DEF Expire
<1>5. QED
  BY <1>1, <1>2, <1>3, <1>4 DEF Api

LEMMA OpenInvStep ==
  NoLateLease /\ LeaseInv /\ EndInv /\ OpenInv /\ [Next]_vars
    => OpenInv' /\ ((Requeued /\ OpenAllowed) \/ UNCHANGED vars)
<1>. SUFFICES ASSUME NoLateLease, LeaseInv, EndInv, OpenInv, [Next]_vars
              PROVE  OpenInv' /\ ((Requeued /\ OpenAllowed) \/ UNCHANGED vars)
  OBVIOUS
<1>1. CASE UNCHANGED vars
  BY <1>1 DEF vars, jobVars, workerVars, OpenInv, AttemptsCounted, ResetsAreOpen, RunsAreOpen, RunIsOpen, PastProcessing, Executing
<1>2. QED
  BY <1>1, OpenPollStep, OpenExecuteStep, OpenFailStep, OpenRowStep DEF Next

LEMMA OpenInvariant == ASSUME NoLateLease PROVE Spec => [](LeaseInv /\ EndInv /\ OpenInv)
<1>1. Spec => [](LeaseInv /\ EndInv)
  BY EndInvariant
<1>2. QED
  BY <1>1, InitOpenInv, OpenInvStep, PTL DEF Spec

\* A job that ended never returns to the queue, and a cancelled one only by the sweep
\* that read it before the cancel and writes by id after it.
THEOREM EndedJobsStayOut == ASSUME NoLateLease PROVE Spec => RequeuedOnlyByStaleSweep
<1>1. NoLateLease /\ LeaseInv /\ EndInv /\ OpenInv /\ [Next]_vars =>
        [\A i \in Imports :
            status[i] \in Terminal \cup {"CANCELLING"} /\ status'[i] = "PENDING" =>
               /\ status[i] = "CANCELLING"
               /\ \E w \in Workers : pc[w] = "reclaimTx" /\ i \in toReset[w]]_vars
  BY OpenInvStep DEF Requeued
<1>2. QED
  BY <1>1, OpenInvariant, PTL DEF Spec, RequeuedOnlyByStaleSweep

\* With cancels and rejected calls at any time, an import that has not ended leaves
\* ALLOWED_TRANSITIONS in the three steps the property names and in no other.
THEOREM OpenStatusFollowsTable == ASSUME NoLateLease PROVE Spec => OpenTransitionsAllowed
<1>1. NoLateLease /\ LeaseInv /\ EndInv /\ OpenInv /\ [Next]_vars =>
        [\A i \in Imports : imp[i] \notin Terminal /\ imp'[i] # imp[i] =>
            \/ imp'[i] \in AllowedTransitions[imp[i]]
            \/ /\ imp[i] = "CANCELLING" /\ imp'[i] = "PROCESSING"
               /\ \E w \in Workers : pc[w] = "markImport" /\ currentJob[w] = i
                                    /\ mark[w] = "PROCESSING"
            \/ imp[i] = "PROCESSING" /\ imp'[i] = "CANCELLED" /\ status[i] = "CANCELLED"
            \/ imp[i] = "PENDING" /\ imp'[i] = "COMPLETED" /\ attempts[i] > 1]_vars
  BY OpenInvStep DEF OpenAllowed
<1>2. QED
  BY <1>1, OpenInvariant, PTL DEF Spec, OpenTransitionsAllowed

-----------------------------------------------------------------------------
(***************************************************************************)
(* When nothing worse than crashes happens, the import follows its job.    *)
(***************************************************************************)
OnlyCrashes == Hazards \subseteq {"crash"}

\* Where the two rows stand at each step of execute.
PhaseOK ==
    \A w \in Workers :
        /\ pc[w] = "claimed" => status[currentJob[w]] = "CLAIMED"
        /\ pc[w] = "markJob" =>
             \/ mark[w] = "PROCESSING" /\ status[currentJob[w]] = "CLAIMED"
             \/ /\ mark[w] = "COMPLETED"
                /\ status[currentJob[w]] = "PROCESSING"
                /\ imp[currentJob[w]] = "PROCESSING"
        /\ pc[w] = "markImport" =>
             /\ status[currentJob[w]] = mark[w]
             /\ \/ mark[w] = "PROCESSING"
                \/ mark[w] = "COMPLETED" /\ imp[currentJob[w]] = "PROCESSING"
        /\ pc[w] = "reading" =>
             status[currentJob[w]] = "PROCESSING" /\ imp[currentJob[w]] = "PROCESSING"
        /\ pc[w] \notin ExecutePCs => currentJob[w] = None
        /\ pc[w] # "releaseImport"

\* A sweep's lists stay true until it writes: another sweep may have done the same.
ListsOK ==
    \A i \in Imports : \A w \in Workers :
        /\ i \in toFail[w] => Abandoned(i) /\ status[i] \in Leased \cup {"FAILED"}
        /\ i \in toReset[w] => ~Abandoned(i) /\ status[i] \in Leased \cup {"PENDING"}

NothingCancelled ==
    \A i \in Imports : /\ status[i] \notin {"CANCELLING", "CANCELLED"}
                       /\ imp[i] # "CANCELLING"
                       /\ cancel[i] = "idle"

CrashInv ==
    /\ PhaseOK
    /\ ListsOK
    /\ NothingCancelled
    /\ ImportFollowsJob
    /\ NoFailureBeforeLastAttempt

\* One step's worth of TransitionsAllowed.
Allowed == \A i \in Imports : imp'[i] # imp[i] => imp'[i] \in AllowedTransitions[imp[i]]

LEMMA OnlyCrashesIsCalm == OnlyCrashes => NoLateLease
  BY DEF OnlyCrashes, NoLateLease

LEMMA InitCrashInv == Init => CrashInv
  BY DEF Init, CrashInv, PhaseOK, ListsOK, NothingCancelled, ImportFollowsJob,
     NoFailureBeforeLastAttempt, Terminal, Leased

LEMMA CrashPollStep ==
  ASSUME OnlyCrashes, LeaseInv, LeaseInv', CrashInv, NEW w \in Workers, Poll(w)
  PROVE  CrashInv' /\ Allowed
<1>. USE DEF LeaseInv, WorkerInv, TypeOK, WorkerOK, CrashInv, PhaseOK, ListsOK, NothingCancelled,
       ImportFollowsJob, NoFailureBeforeLastAttempt, Allowed, OnlyCrashes, Executing,
       InSweep, Abandoned, PCs, JobStatuses, ImportStatuses, Terminal, Leased, Goto,
       BeginMark, AllowedTransitions, jobVars, workerVars
<1>1. CASE Start(w)
  BY <1>1 DEF Start
<1>2. CASE SweepWhenIdle(w)
  BY <1>2 DEF SweepWhenIdle
<1>3. CASE ReclaimRead(w)
  BY <1>3 DEF ReclaimRead, Expired
<1>4. CASE ReclaimTx(w)
  <2>1. /\ SweepRows(toFail[w], toReset[w])
        /\ pc' = [pc EXCEPT ![w] = "poll"]
        /\ toFail' = [toFail EXCEPT ![w] = {}]
        /\ toReset' = [toReset EXCEPT ![w] = {}]
        /\ UNCHANGED <<cancel, currentJob, mark>>
    BY <1>4 DEF ReclaimTx
  <2>2. /\ toFail[w] \subseteq Imports /\ toReset[w] \subseteq Imports
        /\ \A i \in toFail[w] \cup toReset[w] : \A v \in Workers : ~Executing(v, i)
    BY DEF SweptJobIsIdle
  <2>3. \A i \in Imports :
           /\ i \in toFail[w] => status'[i] = "FAILED" /\ imp'[i] = "FAILED"
           /\ i \in toReset[w] => /\ status'[i] = "PENDING"
                                 /\ imp[i] \in {"PENDING", "PROCESSING"}
                                 /\ imp'[i] = "PENDING"
           /\ i \notin toFail[w] \cup toReset[w] =>
                 status'[i] = status[i] /\ imp'[i] = imp[i]
           /\ attempts'[i] = attempts[i]
    BY <2>1 DEF SweepRows
  <2>4. PhaseOK'
    BY <1>4, <2>1, <2>2, <2>3 DEF ReclaimTx
  <2>5. ListsOK'
    BY <2>1, <2>3
  <2>6. NothingCancelled' /\ ImportFollowsJob' /\ NoFailureBeforeLastAttempt'
    BY <2>1, <2>3
  <2>7. Allowed
    BY <2>3
  <2>8. QED
    BY <2>4, <2>5, <2>6, <2>7
<1>5. CASE \E i \in Imports : ClaimNext(w, i)
  BY <1>5, ConstantsAssumption
     DEF ClaimNext, Lease, MayClaim, Claimable, ExecutorOwnsLease
<1>6. CASE ReleaseJob(w)
  BY <1>6, ConstantsAssumption DEF ReleaseJob, Releases
<1>7. CASE ReleaseImport(w)
  BY <1>7 DEF ReleaseImport
<1>8. CASE Stopped(w)
  BY <1>8 DEF Stopped
<1>9. QED
  BY <1>1, <1>2, <1>3, <1>4, <1>5, <1>6, <1>7, <1>8 DEF Poll

LEMMA CrashExecuteStep ==
  ASSUME OnlyCrashes, LeaseInv, LeaseInv', CrashInv, NEW w \in Workers,
         Execute(w) \/ RenewLease(w)
  PROVE  CrashInv' /\ Allowed
<1>. USE DEF LeaseInv, WorkerInv, TypeOK, WorkerOK, CrashInv, PhaseOK, ListsOK, NothingCancelled,
       ImportFollowsJob, NoFailureBeforeLastAttempt, Allowed, OnlyCrashes, Executing,
       InSweep, Abandoned, PCs, JobStatuses, ImportStatuses, Terminal, Leased, Goto,
       BeginMark, AllowedTransitions, jobVars, workerVars
<1>1. CASE FileFound(w)
  BY <1>1 DEF FileFound
<1>2. CASE MarkJob(w)
  BY <1>2 DEF MarkJob, MarkJobRow, ExecutorOwnsLease, SweptJobIsIdle
<1>3. CASE MarkImport(w)
  BY <1>3 DEF MarkImport, MarkImportRow, ExecutorOwnsLease, SweptJobIsIdle
<1>4. CASE SeeCancelling(w)
  BY <1>4 DEF SeeCancelling
<1>5. CASE EndOfFile(w)
  BY <1>5 DEF EndOfFile
<1>6. CASE RenewLease(w)
  BY <1>6 DEF RenewLease
<1>7. QED
  BY <1>1, <1>2, <1>3, <1>4, <1>5, <1>6 DEF Execute

LEMMA CrashFailStep ==
  ASSUME OnlyCrashes, LeaseInv, LeaseInv', CrashInv, NEW w \in Workers, Fail(w)
  PROVE  CrashInv' /\ Allowed
<1>. USE DEF LeaseInv, WorkerInv, TypeOK, WorkerOK, CrashInv, PhaseOK, ListsOK, NothingCancelled,
       ImportFollowsJob, NoFailureBeforeLastAttempt, Allowed, OnlyCrashes, Executing,
       InSweep, Abandoned, PCs, JobStatuses, ImportStatuses, Terminal, Leased, Goto,
       BeginMark, AllowedTransitions, jobVars, workerVars
<1>1. "error" \notin Hazards
  OBVIOUS
<1>2. CASE Stop(w)
  BY <1>2 DEF Stop
<1>3. CASE Crash(w)
  BY <1>3 DEF Crash
<1>4. QED
  BY <1>1, <1>2, <1>3 DEF Fail, ClaimReplyLost, FileUnreadable, MarkFails, ReadingFails

LEMMA CrashRowStep ==
  ASSUME OnlyCrashes, LeaseInv, LeaseInv', CrashInv, NEW i \in Imports,
         Api(i) \/ Expire(i)
  PROVE  CrashInv' /\ Allowed
<1>. USE DEF LeaseInv, WorkerInv, TypeOK, WorkerOK, CrashInv, PhaseOK, ListsOK, NothingCancelled,
       ImportFollowsJob, NoFailureBeforeLastAttempt, Allowed, OnlyCrashes, Executing,
       InSweep, Abandoned, PCs, JobStatuses, ImportStatuses, Terminal, Leased, Goto,
       BeginMark, AllowedTransitions, jobVars, workerVars
<1>1. ~Api(i)
  BY DEF Api, RequestCancellation, CancelRead, CancelWrite
<1>2. QED
  BY <1>1 DEF Expire

LEMMA CrashInvStep ==
  OnlyCrashes /\ LeaseInv /\ LeaseInv' /\ CrashInv /\ [Next]_vars
    => CrashInv' /\ (Allowed \/ UNCHANGED vars)
<1>. SUFFICES ASSUME OnlyCrashes, LeaseInv, LeaseInv', CrashInv, [Next]_vars
              PROVE  CrashInv' /\ (Allowed \/ UNCHANGED vars)
  OBVIOUS
<1>1. CASE UNCHANGED vars
  BY <1>1 DEF vars, jobVars, workerVars, CrashInv, PhaseOK, ListsOK, NothingCancelled,
     ImportFollowsJob, NoFailureBeforeLastAttempt, Abandoned
<1>2. QED
  BY <1>1, CrashPollStep, CrashExecuteStep, CrashFailStep, CrashRowStep DEF Next

LEMMA CrashInvariant == ASSUME OnlyCrashes PROVE Spec => [](LeaseInv /\ CrashInv)
<1>1. Spec => []LeaseInv
  BY OnlyCrashesIsCalm, LeaseInvariant
<1>2. QED
  BY <1>1, InitCrashInv, CrashInvStep, PTL DEF Spec

\* Crashes alone never show a client a finished import whose job is not finished,
\* nor a queued job whose import claims to be processed.
THEOREM ImportsFollowJobs == ASSUME OnlyCrashes PROVE Spec => []ImportFollowsJob
<1>1. CrashInv => ImportFollowsJob
  BY DEF CrashInv
<1>2. QED
  BY <1>1, CrashInvariant, PTL

\* Crashes alone never fail a job before its last attempt was abandoned.
THEOREM FailedOnlyWhenExhausted ==
  ASSUME OnlyCrashes PROVE Spec => []NoFailureBeforeLastAttempt
<1>1. CrashInv => NoFailureBeforeLastAttempt
  BY DEF CrashInv
<1>2. QED
  BY <1>1, CrashInvariant, PTL

\* Under crashes alone the repositories' unguarded updates follow the domain's
\* transition table, which none of them reads; terminal statuses are final.
THEOREM TransitionsFollowTable == ASSUME OnlyCrashes PROVE Spec => TransitionsAllowed
<1>1. OnlyCrashes /\ LeaseInv /\ LeaseInv' /\ CrashInv /\ [Next]_vars
        => [\A i \in Imports : imp'[i] # imp[i] => imp'[i] \in AllowedTransitions[imp[i]]]_vars
  BY CrashInvStep DEF Allowed
<1>2. QED
  BY <1>1, CrashInvariant, PTL DEF Spec, TransitionsAllowed
=============================================================================
