------------------------------ MODULE JobQueue ------------------------------
(***************************************************************************)
(* The queue of import jobs: the rows of `imports` and `processing_jobs`,  *)
(* the worker processes that claim, lease, process and release them, the  *)
(* sweep that reclaims abandoned leases, and the API's cancel request.     *)
(*                                                                         *)
(* createOrReturnExisting writes one import and one job together, so both *)
(* rows are indexed by the import.  A worker is one incarnation of the    *)
(* worker process: a restart draws a new workerId and is another element  *)
(* of Workers.  Each SQL statement (or transaction) is one step; whatever *)
(* runs between two statements of a handler can be interleaved.           *)
(*                                                                         *)
(* The sweep compares leasedUntil with the worker's clock, the claim with  *)
(* the database's now(), and heartbeats write the worker's: one clock here.*)
(*                                                                         *)
(* Left out: the timestamps, totalRecords and the failure texts, and the  *)
(* "no file record" branch of execute, which cannot be taken (the row is  *)
(* written with the import and never deleted).                            *)
(***************************************************************************)
EXTENDS Naturals, FiniteSets

CONSTANTS
    Imports,            \* the imports, each with its one job
    Workers,            \* incarnations of the worker process
    None,               \* SQL NULL, and "no job" in a worker
    MAX_JOB_ATTEMPTS,   \* attempts before a reclaimed job is failed
    Hazards             \* what the environment may do, see below

(***************************************************************************)
(* "crash":   a worker may die between any two steps (SIGKILL, a second    *)
(*            signal, or the grace timer of the graceful shutdown).        *)
(* "error":   an awaited call may reject, before or after its statement    *)
(*            took effect.                                                 *)
(* "slow":    a lease may run out under a worker that is still processing. *)
(* "sweeprace": a claim may fall between a sweep's read and its write.     *)
(* "cancel":  clients cancel imports.                                      *)
(* "cancelrace": other statements may fall between the read and the write *)
(*            of a cancel request.                                         *)
(***************************************************************************)
HazardKinds == {"crash", "error", "slow", "sweeprace", "cancel", "cancelrace"}

ASSUME ConstantsAssumption ==
    /\ MAX_JOB_ATTEMPTS \in Nat \ {0}
    /\ Hazards \subseteq HazardKinds
    /\ None \notin Imports \cup Workers

VARIABLES
    status,     \* processing_jobs.status
    leasedBy,   \* processing_jobs.leasedBy
    lease,      \* leasedUntil, as it compares with now()
    attempts,   \* attemptCount, saturating one above MAX_JOB_ATTEMPTS
    imp,        \* imports.status
    cancel,     \* the API handler's cancel transaction: "idle" or "decided"
    pc,         \* where each worker's loop stands
    currentJob, \* JobPollerService.currentJob
    mark,       \* the status the running updateBoth writes
    toFail,     \* the sweep's two lists, filled by findMany
    toReset,
    polling     \* JobPollerService.polling

jobVars    == <<status, leasedBy, lease, attempts>>
workerVars == <<pc, currentJob, mark, toFail, toReset, polling>>
vars       == <<jobVars, imp, cancel, workerVars>>

-----------------------------------------------------------------------------
Terminal       == {"COMPLETED", "FAILED", "CANCELLED"}
ImportStatuses == {"PENDING", "PROCESSING", "CANCELLING"} \cup Terminal
JobStatuses    == ImportStatuses \cup {"CLAIMED"}

\* The statuses the lease queries look at.
Leased == {"CLAIMED", "PROCESSING"}

\* ALLOWED_TRANSITIONS of the domain.  No repository consults it.
AllowedTransitions ==
    [s \in ImportStatuses |->
        CASE s = "PENDING"    -> {"PROCESSING", "CANCELLING", "CANCELLED", "FAILED"}
          [] s = "PROCESSING" -> {"COMPLETED", "FAILED", "CANCELLING", "PENDING"}
          [] s = "CANCELLING" -> {"CANCELLED", "COMPLETED", "FAILED"}
          [] OTHER            -> {}]

\* The steps of a worker: "reclaim" and "reclaimTx" are the two halves of
\* reclaimExpiredLeases, "markJob" and "markImport" those of updateBoth.
PCs == {"off", "reclaim", "reclaimTx", "poll", "claimed", "markJob",
        "markImport", "reading", "releaseImport", "gone"}

\* Inside ProcessImportFileUseCase.execute.
ExecutePCs == {"claimed", "markJob", "markImport", "reading"}

Executing(w, i) == pc[w] \in ExecutePCs /\ currentJob[w] = i

\* Another worker that can still be, or be brought, to work: the bound that
\* keeps crashes and shutdowns from removing every incarnation.
SomeoneElse(w) == \E v \in Workers \ {w} : pc[v] # "gone" /\ polling[v]

TypeOK ==
    /\ status \in [Imports -> JobStatuses]
    /\ leasedBy \in [Imports -> Workers \cup {None}]
    /\ lease \in [Imports -> {"none", "valid", "expired"}]
    /\ attempts \in [Imports -> 0..(MAX_JOB_ATTEMPTS + 1)]
    /\ imp \in [Imports -> ImportStatuses]
    /\ cancel \in [Imports -> {"idle", "decided"}]
    /\ pc \in [Workers -> PCs]
    /\ currentJob \in [Workers -> Imports \cup {None}]
    /\ mark \in [Workers -> Terminal \cup {"PROCESSING", None}]
    /\ toFail \in [Workers -> SUBSET Imports]
    /\ toReset \in [Workers -> SUBSET Imports]
    /\ polling \in [Workers -> BOOLEAN]

\* createOrReturnExisting has committed every import; no worker runs yet.
Init ==
    /\ status = [i \in Imports |-> "PENDING"]
    /\ leasedBy = [i \in Imports |-> None]
    /\ lease = [i \in Imports |-> "none"]
    /\ attempts = [i \in Imports |-> 0]
    /\ imp = [i \in Imports |-> "PENDING"]
    /\ cancel = [i \in Imports |-> "idle"]
    /\ pc = [w \in Workers |-> "off"]
    /\ currentJob = [w \in Workers |-> None]
    /\ mark = [w \in Workers |-> None]
    /\ toFail = [w \in Workers |-> {}]
    /\ toReset = [w \in Workers |-> {}]
    /\ polling = [w \in Workers |-> TRUE]

-----------------------------------------------------------------------------
(***************************************************************************)
(* The poller: claim, sweep, stop.                                         *)
(***************************************************************************)
Goto(w, label) == pc' = [pc EXCEPT ![w] = label]

\* onModuleInit sweeps before the loop starts; a claim that finds nothing
\* sweeps when RECLAIM_INTERVAL has passed.  An eager poll that changes
\* nothing is a stuttering step.
\* Mutant: the claim forgets to compare the lease.
ClaimableIgnoringLease(i) == status[i] \in Leased \cup {"PENDING"}

Claimable(i) ==
    \/ status[i] = "PENDING"
    \/ status[i] \in Leased /\ lease[i] = "expired"

\* The window between a sweep's findMany and its transaction.
InSweep(i) == \E w \in Workers : i \in toFail[w] \cup toReset[w]

MayClaim(i) == Claimable(i) /\ (InSweep(i) => "sweeprace" \in Hazards)

Start(w) ==
    /\ pc[w] = "off"
    /\ Goto(w, "reclaim")
    /\ UNCHANGED <<jobVars, imp, cancel, currentJob, mark, toFail, toReset, polling>>

SweepWhenIdle(w) ==
    /\ pc[w] = "poll" /\ polling[w]
    /\ \A i \in Imports : ~Claimable(i)
    /\ Goto(w, "reclaim")
    /\ UNCHANGED <<jobVars, imp, cancel, currentJob, mark, toFail, toReset, polling>>

\* Mutants: the claim counts the first time only, or leaves leasedUntil NULL.
LeaseCountingFirst(w, i) ==
    /\ status' = [status EXCEPT ![i] = "CLAIMED"]
    /\ leasedBy' = [leasedBy EXCEPT ![i] = w]
    /\ lease' = [lease EXCEPT ![i] = "valid"]
    /\ attempts' = [attempts EXCEPT ![i] = 1]

LeaseWithoutDeadline(w, i) ==
    /\ status' = [status EXCEPT ![i] = "CLAIMED"]
    /\ leasedBy' = [leasedBy EXCEPT ![i] = w]
    /\ lease' = [lease EXCEPT ![i] = "none"]
    /\ attempts' = [attempts EXCEPT
                      ![i] = IF @ > MAX_JOB_ATTEMPTS THEN @ ELSE @ + 1]

\* The UPDATE of claimNext.  SKIP LOCKED may pass over the oldest row, so any
\* claimable row can be the one.
Lease(w, i) ==
    /\ status' = [status EXCEPT ![i] = "CLAIMED"]
    /\ leasedBy' = [leasedBy EXCEPT ![i] = w]
    /\ lease' = [lease EXCEPT ![i] = "valid"]
    /\ attempts' = [attempts EXCEPT
                      ![i] = IF @ > MAX_JOB_ATTEMPTS THEN @ ELSE @ + 1]

ClaimNext(w, i) ==
    /\ pc[w] = "poll" /\ polling[w]
    /\ MayClaim(i)
    /\ Lease(w, i)
    /\ currentJob' = [currentJob EXCEPT ![w] = i]
    /\ Goto(w, "claimed")
    /\ UNCHANGED <<imp, cancel, mark, toFail, toReset, polling>>

\* The claim committed and its reply was lost: logged, slept over, polled again.
ClaimReplyLost(w, i) ==
    /\ "error" \in Hazards
    /\ pc[w] = "poll" /\ polling[w]
    /\ MayClaim(i)
    /\ Lease(w, i)
    /\ UNCHANGED <<imp, cancel, workerVars>>

\* reclaimExpiredLeases, outside its transaction: findMany and the two filters.
\* Mutant: findMany without the leasedUntil condition.
ExpiredIgnoringLease == {i \in Imports : status[i] \in Leased}

Expired == {i \in Imports : status[i] \in Leased /\ lease[i] = "expired"}

\* Mutant: one attempt too early.
AbandonedEarly(i) == attempts[i] + 1 >= MAX_JOB_ATTEMPTS

Abandoned(i) == attempts[i] >= MAX_JOB_ATTEMPTS

ReclaimRead(w) ==
    /\ pc[w] = "reclaim"
    /\ toFail' = [toFail EXCEPT ![w] = {i \in Expired : Abandoned(i)}]
    /\ toReset' = [toReset EXCEPT ![w] = {i \in Expired : ~Abandoned(i)}]
    /\ Goto(w, IF Expired = {} THEN "poll" ELSE "reclaimTx")
    /\ UNCHANGED <<jobVars, imp, cancel, currentJob, mark, polling>>

\* Its transaction: the rows are found by id, whatever they have become.
\* Mutant: the reset list's imports are not put back.
SweepRowsOfJobsOnly(fail, reset) ==
    /\ status' = [i \in Imports |->
                    CASE i \in fail  -> "FAILED"
                      [] i \in reset -> "PENDING"
                      [] OTHER       -> status[i]]
    /\ leasedBy' = [i \in Imports |->
                      IF i \in fail \cup reset THEN None ELSE leasedBy[i]]
    /\ lease' = [i \in Imports |->
                   IF i \in fail \cup reset THEN "none" ELSE lease[i]]
    /\ imp' = [i \in Imports |-> IF i \in fail THEN "FAILED" ELSE imp[i]]
    /\ UNCHANGED attempts

SweepRows(fail, reset) ==
    /\ status' = [i \in Imports |->
                    CASE i \in fail  -> "FAILED"
                      [] i \in reset -> "PENDING"
                      [] OTHER       -> status[i]]
    /\ leasedBy' = [i \in Imports |->
                      IF i \in fail \cup reset THEN None ELSE leasedBy[i]]
    /\ lease' = [i \in Imports |->
                   IF i \in fail \cup reset THEN "none" ELSE lease[i]]
    /\ imp' = [i \in Imports |->
                 CASE i \in fail -> "FAILED"
                   [] i \in reset /\ imp[i] = "PROCESSING" -> "PENDING"
                   [] OTHER -> imp[i]]
    /\ UNCHANGED attempts

ReclaimTx(w) ==
    /\ pc[w] = "reclaimTx"
    /\ \/ SweepRows(toFail[w], toReset[w])
       \/ "error" \in Hazards /\ UNCHANGED <<jobVars, imp>>
    /\ toFail' = [toFail EXCEPT ![w] = {}]
    /\ toReset' = [toReset EXCEPT ![w] = {}]
    /\ Goto(w, "poll")
    /\ UNCHANGED <<cancel, currentJob, mark, polling>>

\* stop(): the loop ends at its next condition, a running job runs to its end.
Stop(w) ==
    /\ pc[w] \in PCs \ {"off", "gone"} /\ polling[w]
    /\ SomeoneElse(w)
    /\ polling' = [polling EXCEPT ![w] = FALSE]
    /\ UNCHANGED <<jobVars, imp, cancel, pc, currentJob, mark, toFail, toReset>>

\* After the loop: releaseLease for a job an escaped error left behind, its
\* WHERE clause deciding whether the row is still this worker's.
\* Mutants: the release does not ask whose lease it is, or what the job says.
ReleasesAnyLease(w) ==
    \E i \in Imports : i = currentJob[w] /\ status[i] \in Leased

ReleasesWhateverStatus(w) == \E i \in Imports : i = currentJob[w] /\ leasedBy[i] = w

Releases(w) ==
    \E i \in Imports : i = currentJob[w] /\ leasedBy[i] = w /\ status[i] \in Leased

ReleaseJob(w) ==
    /\ pc[w] = "poll" /\ ~polling[w] /\ Releases(w)
    /\ status' = [status EXCEPT ![currentJob[w]] = "PENDING"]
    /\ leasedBy' = [leasedBy EXCEPT ![currentJob[w]] = None]
    /\ lease' = [lease EXCEPT ![currentJob[w]] = "none"]
    /\ Goto(w, "releaseImport")
    /\ UNCHANGED <<attempts, imp, cancel, currentJob, mark, toFail, toReset, polling>>

\* Mutant: the import goes back to PENDING whatever it says.
ReleaseImportBlindly(w) ==
    /\ pc[w] = "releaseImport"
    /\ imp' = [imp EXCEPT ![currentJob[w]] = "PENDING"]
    /\ Goto(w, "gone")
    /\ currentJob' = [currentJob EXCEPT ![w] = None]
    /\ UNCHANGED <<jobVars, cancel, mark, toFail, toReset, polling>>

ReleaseImport(w) ==
    /\ pc[w] = "releaseImport"
    /\ imp' = [imp EXCEPT ![currentJob[w]] = IF @ = "PROCESSING" THEN "PENDING" ELSE @]
    /\ Goto(w, "gone")
    /\ currentJob' = [currentJob EXCEPT ![w] = None]
    /\ UNCHANGED <<jobVars, cancel, mark, toFail, toReset, polling>>

\* Nothing (left) to release, or the release failed: it will expire.
Stopped(w) ==
    /\ \/ pc[w] = "poll" /\ ~polling[w] /\ ~Releases(w)
       \/ pc[w] = "poll" /\ ~polling[w] /\ "error" \in Hazards
       \/ pc[w] = "releaseImport" /\ "error" \in Hazards
    /\ Goto(w, "gone")
    /\ currentJob' = [currentJob EXCEPT ![w] = None]
    /\ UNCHANGED <<jobVars, imp, cancel, mark, toFail, toReset, polling>>

-----------------------------------------------------------------------------
(***************************************************************************)
(* ProcessImportFileUseCase.execute, as far as it touches the two rows.    *)
(***************************************************************************)
BeginMark(w, s) ==
    /\ Goto(w, "markJob")
    /\ mark' = [mark EXCEPT ![w] = s]

\* Mutant: reading starts without markProcessing.
FileFoundUnmarked(w) ==
    /\ pc[w] = "claimed"
    /\ Goto(w, "reading")
    /\ UNCHANGED <<jobVars, imp, cancel, currentJob, mark, toFail, toReset, polling>>

\* findByImportId and countLines succeeded.
FileFound(w) ==
    /\ pc[w] = "claimed"
    /\ BeginMark(w, "PROCESSING")
    /\ UNCHANGED <<jobVars, imp, cancel, currentJob, toFail, toReset, polling>>

\* An error outside execute's try block reaches the loop, which logs it and
\* goes on; currentJob keeps the job.
Escape(w) ==
    /\ Goto(w, "poll")
    /\ mark' = [mark EXCEPT ![w] = None]

FileUnreadable(w) ==
    /\ "error" \in Hazards
    /\ pc[w] = "claimed"
    /\ Escape(w)
    /\ UNCHANGED <<jobVars, imp, cancel, currentJob, toFail, toReset, polling>>

\* updateBoth: two statements, by id, no transaction, no look at the status.
MarkJobRow(w)    == status' = [status EXCEPT ![currentJob[w]] = mark[w]]
MarkImportRow(w) == imp' = [imp EXCEPT ![currentJob[w]] = mark[w]]

MarkJob(w) ==
    /\ pc[w] = "markJob"
    /\ MarkJobRow(w)
    /\ Goto(w, "markImport")
    /\ UNCHANGED <<leasedBy, lease, attempts, imp, cancel, currentJob, mark,
                   toFail, toReset, polling>>

MarkImport(w) ==
    /\ pc[w] = "markImport"
    /\ MarkImportRow(w)
    /\ mark' = [mark EXCEPT ![w] = None]
    /\ \/ /\ mark[w] = "PROCESSING"
          /\ Goto(w, "reading")
          /\ UNCHANGED currentJob
       \/ /\ mark[w] # "PROCESSING"
          /\ Goto(w, "poll")
          /\ currentJob' = [currentJob EXCEPT ![w] = None]
    /\ UNCHANGED <<jobVars, cancel, toFail, toReset, polling>>

\* A statement of updateBoth rejects, with or without its effect.  markProcessing
\* is outside the try block and markFailed inside the catch: both escape.
MarkFails(w) ==
    /\ "error" \in Hazards
    /\ \/ pc[w] \in {"markJob", "markImport"} /\ UNCHANGED <<status, imp>>
       \/ pc[w] = "markJob" /\ MarkJobRow(w) /\ UNCHANGED imp
       \/ pc[w] = "markImport" /\ MarkImportRow(w) /\ UNCHANGED status
    /\ IF mark[w] \in {"PROCESSING", "FAILED"} THEN Escape(w) ELSE BeginMark(w, "FAILED")
    /\ UNCHANGED <<leasedBy, lease, attempts, cancel, currentJob, toFail, toReset, polling>>

\* The heartbeat between two lines: nothing happens when the lease has another
\* owner, and the worker is not told.
RenewLease(w) ==
    /\ pc[w] = "reading"
    /\ leasedBy[currentJob[w]] = w
    /\ lease' = [lease EXCEPT ![currentJob[w]] = "valid"]
    /\ UNCHANGED <<status, leasedBy, attempts, imp, cancel, workerVars>>

\* Every 500th line looks at the job's status.
SeeCancelling(w) ==
    /\ pc[w] = "reading"
    /\ status[currentJob[w]] = "CANCELLING"
    /\ BeginMark(w, "CANCELLED")
    /\ UNCHANGED <<jobVars, imp, cancel, currentJob, toFail, toReset, polling>>

EndOfFile(w) ==
    /\ pc[w] = "reading"
    /\ BeginMark(w, "COMPLETED")
    /\ UNCHANGED <<jobVars, imp, cancel, currentJob, toFail, toReset, polling>>

\* Scoring, persistence after its retries, a heartbeat or a status read rejected.
ReadingFails(w) ==
    /\ "error" \in Hazards
    /\ pc[w] = "reading"
    /\ BeginMark(w, "FAILED")
    /\ UNCHANGED <<jobVars, imp, cancel, currentJob, toFail, toReset, polling>>

-----------------------------------------------------------------------------
(***************************************************************************)
(* The API's cancel request, time, and crashes.                            *)
(***************************************************************************)
\* Mutant: only a repeated cancel is refused.
CancelRefusedOnlyTwice(i) == imp[i] = "CANCELLING"

CancelRefused(i) == imp[i] \in Terminal \cup {"CANCELLING"}

CancelRows(i) ==
    /\ imp' = [imp EXCEPT ![i] = "CANCELLING"]
    /\ status' = [status EXCEPT ![i] = "CANCELLING"]

\* requestCancellation when nothing runs between its read and its commit.
RequestCancellation(i) ==
    /\ "cancel" \in Hazards
    /\ cancel[i] = "idle" /\ ~CancelRefused(i)
    /\ CancelRows(i)
    /\ UNCHANGED <<leasedBy, lease, attempts, cancel, workerVars>>

\* At READ COMMITTED the row read is not the row updated.
CancelRead(i) ==
    /\ "cancelrace" \in Hazards
    /\ cancel[i] = "idle" /\ ~CancelRefused(i)
    /\ cancel' = [cancel EXCEPT ![i] = "decided"]
    /\ UNCHANGED <<jobVars, imp, workerVars>>

CancelWrite(i) ==
    /\ cancel[i] = "decided"
    /\ CancelRows(i)
    /\ cancel' = [cancel EXCEPT ![i] = "idle"]
    /\ UNCHANGED <<leasedBy, lease, attempts, workerVars>>

\* leasedUntil passes now().  Only statuses in Leased are ever compared, and
\* without "slow" the owner's heartbeat comes in time.
Expire(i) ==
    /\ status[i] \in Leased /\ lease[i] = "valid"
    /\ "slow" \in Hazards \/ \A w \in Workers : ~(leasedBy[i] = w /\ Executing(w, i))
    /\ lease' = [lease EXCEPT ![i] = "expired"]
    /\ UNCHANGED <<status, leasedBy, attempts, imp, cancel, workerVars>>

Crash(w) ==
    /\ "crash" \in Hazards
    /\ pc[w] \in PCs \ {"off", "gone"} /\ SomeoneElse(w)
    /\ Goto(w, "gone")
    /\ currentJob' = [currentJob EXCEPT ![w] = None]
    /\ mark' = [mark EXCEPT ![w] = None]
    /\ toFail' = [toFail EXCEPT ![w] = {}]
    /\ toReset' = [toReset EXCEPT ![w] = {}]
    /\ UNCHANGED <<jobVars, imp, cancel, polling>>

-----------------------------------------------------------------------------
Poll(w) ==
    \/ Start(w) \/ SweepWhenIdle(w)
    \/ ReclaimRead(w) \/ ReclaimTx(w)
    \/ \E i \in Imports : ClaimNext(w, i)
    \/ ReleaseJob(w) \/ ReleaseImport(w) \/ Stopped(w)

Execute(w) ==
    \/ FileFound(w) \/ MarkJob(w) \/ MarkImport(w)
    \/ SeeCancelling(w) \/ EndOfFile(w)

Fail(w) ==
    \/ \E i \in Imports : ClaimReplyLost(w, i)
    \/ FileUnreadable(w) \/ MarkFails(w) \/ ReadingFails(w)
    \/ Stop(w) \/ Crash(w)

Api(i) == RequestCancellation(i) \/ CancelRead(i) \/ CancelWrite(i)

Next ==
    \/ \E w \in Workers : Poll(w) \/ Execute(w) \/ RenewLease(w) \/ Fail(w)
    \/ \E i \in Imports : Api(i) \/ Expire(i)

Spec == Init /\ [][Next]_vars

\* Containers restart until stopped, a started handler is scheduled, a file
\* ends, an open transaction commits and a lease that is not renewed runs out.
Fairness ==
    /\ \A w \in Workers : WF_vars(Poll(w)) /\ WF_vars(Execute(w))
    /\ \A i \in Imports : WF_vars(CancelWrite(i)) /\ WF_vars(Expire(i))

FairSpec == Spec /\ Fairness

-----------------------------------------------------------------------------
(***************************************************************************)
(* Properties.                                                             *)
(***************************************************************************)
\* No two workers process the same import at the same time: claimNext, the
\* heartbeat and the sweep together keep a lease exclusive.
ExclusiveProcessing ==
    \A i \in Imports : \A v, w \in Workers :
        Executing(v, i) /\ Executing(w, i) => v = w

\* A worker that processes an import owns its job's unexpired lease, and the
\* job is not back in the queue.
ExecutorOwnsLease ==
    \A i \in Imports : \A w \in Workers :
        Executing(w, i) => /\ leasedBy[i] = w
                           /\ lease[i] = "valid"
                           /\ status[i] # "PENDING"

\* A job in CLAIMED or PROCESSING carries a lease that can run out, and a queued
\* one carries none: a job without a lease in those statuses is seen by neither
\* claimNext nor the sweep and would stay there for good.
LeasedJobsCanBeReclaimed ==
    \A i \in Imports : /\ status[i] \in Leased => lease[i] # "none"
                       /\ status[i] = "PENDING" => lease[i] = "none"

\* The import's status never runs ahead of its job's: a terminal import has a job
\* with the same status, and a job in the queue an import that says PENDING.
ImportFollowsJob ==
    \A i \in Imports : /\ imp[i] \in Terminal => status[i] = imp[i]
                       /\ status[i] = "PENDING" => imp[i] = "PENDING"

\* A job fails only by the sweep of its last attempt when no call rejects: a
\* crash before that gives the job back.
NoFailureBeforeLastAttempt ==
    \A i \in Imports : status[i] = "FAILED" => attempts[i] >= MAX_JOB_ATTEMPTS

\* Every change of an import's status is one ALLOWED_TRANSITIONS lists, although
\* no repository consults that table.
TransitionsAllowed ==
    [][\A i \in Imports : imp'[i] # imp[i] => imp'[i] \in AllowedTransitions[imp[i]]]_vars

\* An import that reached a terminal status keeps it: updateBoth, the sweep and the
\* cancel request all write by id.  Only a cancel decided earlier and the markFailed
\* that follows a rejected call write over it.
TerminalIsFinal ==
    [][\A i \in Imports : imp[i] \in Terminal /\ imp'[i] # imp[i] =>
          \/ imp'[i] = "CANCELLING" /\ cancel[i] = "decided"
          \/ /\ imp'[i] = "FAILED"
             /\ \E w \in Workers : currentJob[w] = i /\ mark[w] = "FAILED"]_vars

\* A job that ended, or that a client cancelled, goes back to PENDING in one case only:
\* the cancel came between a sweep's findMany and the update by id of the same sweep.
\* The cancelled job is then claimed and run again; one that ended never is.
RequeuedOnlyByStaleSweep ==
    [][\A i \in Imports :
          status[i] \in Terminal \cup {"CANCELLING"} /\ status'[i] = "PENDING" =>
             /\ status[i] = "CANCELLING"
             /\ \E w \in Workers : pc[w] = "reclaimTx" /\ i \in toReset[w]]_vars

\* An import that has not ended changes its status as ALLOWED_TRANSITIONS says, with
\* cancels arriving at any time, but for three steps: a markProcessing under way writes
\* over CANCELLING, the run that then sees the job's CANCELLING cancels from PROCESSING,
\* and a run whose import an earlier release put to PENDING too late completes it there.
OpenTransitionsAllowed ==
    [][\A i \in Imports : imp[i] \notin Terminal /\ imp'[i] # imp[i] =>
          \/ imp'[i] \in AllowedTransitions[imp[i]]
          \/ /\ imp[i] = "CANCELLING" /\ imp'[i] = "PROCESSING"
             /\ \E w \in Workers : pc[w] = "markImport" /\ currentJob[w] = i
                                  /\ mark[w] = "PROCESSING"
          \/ imp[i] = "PROCESSING" /\ imp'[i] = "CANCELLED" /\ status[i] = "CANCELLED"
          \/ imp[i] = "PENDING" /\ imp'[i] = "COMPLETED" /\ attempts[i] > 1]_vars

\* Every job reaches a terminal status, whatever crashes and however often it is
\* claimed again.
EveryJobEnds == \A i \in Imports : <>(status[i] \in Terminal)

\* Who is reading a file, and so may flush a batch, works on an import that has not
\* ended: the tables of an ended import no longer change, and what a client reads with
\* a terminal status is final.
EndedImportsAreStill ==
    \A w \in Workers : pc[w] = "reading" => imp[currentJob[w]] \notin Terminal

\* A cancel that was accepted ends in a terminal status.
CancellationEnds ==
    \A i \in Imports : imp[i] = "CANCELLING" ~> imp[i] \in Terminal
=============================================================================
