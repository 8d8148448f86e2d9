# Formal model of the transaction import service

TLA+ specifications, TLC runs and TLAPS proofs for the transaction import and
reconciliation service: an API that accepts NDJSON files, and workers that
score their transactions and store them. Paths below are relative to the
repository (`src/...`).

## 1. The system

| Component | State | Operations | Interacts with |
| --- | --- | --- | --- |
| API: import creation (`create-import.use-case`, `disk-file-storage`, `concurrent-upload-limit.interceptor`) | files on disk, `inFlight`, rows `imports`, `import_files`, `idempotency_keys`, `processing_jobs` | admit, save, create or return existing, discard | database, disk shared with the workers |
| API: cancellation (`import.repository.requestCancellation`) | `imports.status`, `processing_jobs.status` | read, decide, update both | polled by the worker |
| Job queue (`job.repository`) | `processing_jobs` (status, `leasedBy`, `leasedUntil`, `attemptCount`) and `imports.status` | `claimNext`, `renewLease`, `releaseLease`, `reclaimExpiredLeases`, `updateBoth` | every worker |
| Poller (`job-poller.service`) | `polling`, `currentJob` | loop, reclaim, stop | job queue, `execute` |
| Processing (`process-import-file.use-case`) | pending batch, line number, `wasCancelled` | read a line, flush, close | pool, store, queue |
| Scoring pool (`worker-thread-pool`) | `queue`, `slots`, threads | `scoreBatch`, message/error/exit handlers, `shutdown` | threads, `execute` |
| Retry policy (`exponential-backoff-retry.policy`, `domain-errors`) | the attempt | classify an error, try again | around `persistBatch` |
| Semaphore (`semaphore`) | permits, waiters | `run` | around the retry policy in `flush` |
| Transaction store (`transaction.repository`) | `transactions`, `rejected_records`, the import's counters | `persistBatch` | retried by the retry policy |
| File reading (`readline-line-reader`, `parse-ndjson-line`, `validate-transaction`) | none | count lines, split, parse, validate | used twice by `execute` |
| Graceful shutdown (`graceful-shutdown`, `worker.main`, `main`), beside the framework's own shutdown hooks | `handling`, the grace timer | signal, steps, forced exit | poller, pool, database client |
| Queries (`import-query`, `get-reject-transaction.use-case`) | the client's cursor | a page of rejected records, status, summary | `persistBatch` writes meanwhile |
| Scoring rules, metrics, HTTP documents | none that is shared | pure functions, output | |

What is hard here, and so what the properties are about:

* **several workers over one table**: claims, heartbeats, releases and sweeps
  are separate statements of separate processes, and a sweep writes rows it
  read earlier;
* **two rows that must agree**: job and import are updated one after the other
  without a transaction, and a worker can die in between;
* **unconditional updates**: marks, sweeps and cancels write by id, so a late
  writer can overwrite a status it never saw;
* **at-least-once**: batches are retried after lost replies, imports are run
  again after crashes, runs can overlap; rows and counters must not double;
* **event handlers of the pool**: message, error and exit of a dying thread
  arrive in any order and each must leave the pool whole;
* **locks in several orders**: batches lock unique keys in the order of their file,
  cancels and sweeps lock rows of two tables in opposite orders, and only batches
  are tried again;
* **disk and database**: a file is written before, and a duplicate removed
  after, the transaction that decides;
* **two handlers of one signal**: in both processes the graceful handler's steps and
  the framework's hooks run on one event loop, beside the poller or the requests and
  a grace timer;
* **two passes over one file**: progress is counted by one scanner and made by
  another;
* **reading while it is written**: a client pages through rows that are still
  inserted, in random order, and asks for a summary made of five queries.

The list with lines is `hazards` in `PROJECT.json`.

## 2. The modules

| Module | Models | Checked by | Proved in |
| --- | --- | --- | --- |
| `JobQueue` | both rows, the poller, `execute` as far as it touches them, cancel, time, crashes | `jobqueue_lease`, `jobqueue_crash`, `jobqueue_v_cancel` (`MCJobQueue`) | `JobQueueProofs` |
| `ImportService` | `JobQueue` and the tables its workers write; extends `JobQueue` | `late_leases` (`MCImportService`) | `ImportServiceProofs` |
| `ImportPipeline` | the inside of `execute`: lines, batches, scoring, `persistBatch` behind the retry policy | `pipeline_faults` (`MCImportPipeline`) | `ImportFileProofs` |
| `RecordStore` | abstract: a key belongs to whoever stored it first, and a counter counts what is owned | as `StoreSpec` of `ImportPipeline` and of `BatchWrites` | `ImplementsRecordStore`, `WritesImplementStore` |
| `RetryPolicy` | the errors, and which of them are tried again | in `BatchWrites` | in `BatchWritesProofs` |
| `BatchWrites` | the transactions of the database: statements, row locks, deadlocks, retries; extends `RetryPolicy` | `writes` (`MCBatchWrites`) | `BatchWritesProofs` |
| `ImportFile` | a file's bytes, the counting and the reading pass, parsing, validation; extends `ImportPipeline` | `file` (`MCImportFile`) | `ImportFileProofs` |
| `WorkerThreadPool` | the scoring pool | in `BatchFlush` | `BatchFlushProofs` |
| `BatchFlush` | `flush`: the pool, then the semaphore; extends `WorkerThreadPool` | `pool` (`MCBatchFlush`) | `BatchFlushProofs` |
| `CreateImport` | `POST /v1/imports` | in `ApiProcess` | `ApiProcessProofs` |
| `ApiProcess` | the API process around it: signals, both handlers, exit, restart; extends `CreateImport` | `upload` (`MCApiProcess`) | `ApiProcessProofs` |
| `GracefulShutdown` | the worker process between signal and exit | `shutdown`, `shutdown_v_failed` (`MCGracefulShutdown`) | `GracefulShutdownProofs` |
| `RejectedPages` | `GET /v1/imports/:id/rejections`, page by page | in `ImportReports` | `ImportReportsProofs` |
| `ImportReports` | status, pages and summary while batches commit; extends `RejectedPages` | `pages` (`MCImportReports`) | `ImportReportsProofs` |

How they compose. `ImportService` is `JobQueue` with what each run does to the tables:
who may process an import is decided by leases that are renewed, lost and
swept, so runs overlap exactly when the leases let them. `ImportPipeline` is one run in
detail, and takes that overlap as a hazard. `BatchWrites` opens up its one step
`PersistBatch`: the inserts, the locks they wait for, the rollbacks and the
retries; both are shown to implement the same `RecordStore`. `ImportFile` is `ImportPipeline`
with the lines derived from bytes instead of chosen. `BatchFlush` is the other side of
`flush`, the pool whose two outcomes are the pipeline's `ScoreBatch` and
`ScoringFails`, and the semaphore around the retries. `ApiProcess` surrounds the
requests of `CreateImport` with the process they run in, and the state an accepted
request leaves is `Init` of `JobQueue`. `GracefulShutdown` has the poller's
loop again, coarser than in `JobQueue` and alone in the world, but with the
pool, the signals and the steps `JobQueue` leaves out. `ImportReports` reads what
`persistBatch` commits; that an ended import no longer changes, which it takes for
granted, is `EndedImportsAreStill` of `JobQueue`.

### State and actions against the code

**JobQueue.** One SQL statement or transaction is one step. `status`, `leasedBy`,
`attempts` and `imp` are columns; `lease` is `leasedUntil` as it compares with
`now()`. `pc` says where a worker stands: `poll` is the top of the loop,
`reclaim`/`reclaimTx` the read and the transaction of a sweep, `claimed` to
`reading` are inside `execute`, `markJob`/`markImport` the two statements of
`updateBoth`. A worker incarnation that stops or dies is `gone`; a restart is another
element of `Workers`, since it draws another `workerId`. `ClaimNext` is `claimNext`
with the assignment to `currentJob`, `ClaimReplyLost` the same claim without it.
`Escape` is an error outside `execute`'s try block, which leaves `currentJob` set;
`ReleaseJob`/`ReleaseImport` are the two statements of `releaseLease` in `stop`.

**ImportService.** `position` is how far a worker's run has flushed, `stored` and
`processed` are the tables and the counter of an import. `Flush` is a batch of any
size, because the size is the pipeline's matter; it asks nobody who holds the lease, and
neither does the code. `QueueStep` is a step of `JobQueue`: locals are lost with their run,
and a file ends when all of it is flushed.

**ImportPipeline.** A run is a call of `execute`. `line` counts lines taken from
the reader, `flushed` those whose batch is stored; the accumulators are the
non-blank lines in between, so resetting them is setting `flushed`. `Persist` is
`persistBatch` with its reply, `PersistReplyLost` without it, `PersistRolledBack` a
transaction that failed; `Retry` is the policy's loop.

`Unstorable` are the keys whose row the database refuses however often it is sent (an amount
beyond `Decimal(18,2)`, a NUL in a text).

**RetryPolicy and BatchWrites.** An error is the record of what the policy looks at;
`HasRetryableCause` is `hasRetryableCause`, with its depth limit,
and `WrapDatabaseError` what every repository call throws. A transaction of `BatchWrites` is a list of
statements, each a set of rows: `Lock` takes one, `SkipConflict` passes over one (`ON
CONFLICT DO NOTHING`), `Wait` and `Wake` are its queueing behind another's uncommitted row,
`BreakDeadlock` is PostgreSQL's detector, `Reject` the policy's decision about the error.
Locks are the database's (external); the statements and their order are the code's.

**WorkerThreadPool.** A slot is known by its thread, `current` is `slot.current`
(and `busy`, which changes with it). Each handler is one step, `dispatch` included.
What a thread does is external: it answers, fails (error, then exit) or quits.

**BatchFlush.** `available` and `waiters` are the semaphore's fields. What awaits `scoreBatch`
goes on in the turn that resolves it, so `ContinueScored` is part of the pool's step, and
`EndPersist` is the end of `run`'s callback together with its `finally`.

**CreateImport.** File names and import ids are random, so the request stands for
both. `disk` is the request's file, `importOf` the table of idempotency keys.

**ApiProcess.** `handler` and `hooks` are the two handlers of a signal, each at the step it
awaits; both close one HTTP server, whose `close` resolves for every caller once its last
connection has ended. A connection ends with the answer or when the client hangs up
(`HangUp`, `aborted`), and in the second case the request's handler goes on without it. `Exit` ends the process wherever it stands: every request it was handling is cut
(`Crash` of `CreateImport`), and `Restart` begins with an empty place counter.

**ImportFile.** A value of a file stands for the bytes of one JSON value; an object
is known by what `validateTransaction` makes of its fields. A byte is on line `LineOf`, one more
than the line ends before it: `CountLines` counts the lines between LFs that have content
(`currentLineHasContent`), `LinesRead` the lines `readline` splits (at LF, CR, CR LF and, as
of the Node.js 22 of the `Dockerfile`, U+2028 and U+2029), and `ParseLine` trims,
parses and validates one of them. Every step of the pipeline is a step here; the one that
marks an import `PROCESSING` also writes `total`.

**GracefulShutdown.** `handler` is the step of `registerGracefulShutdown` that is
awaited, `hooks` the framework's handler (external, modelled as the framework documents it: it
runs `onModuleDestroy`, then `onApplicationShutdown`, and then raises the signal
again, which our handler takes for a second one). `forgotten` holds
the leased jobs of which the process no longer knows: a lost reply, or a
`currentJob` that was written over.

**RejectedPages and ImportReports.** An id is its place in the order of ids. `rows` and `cursor` are
the code's; `seen`, `received`, `page` and `start` record what a client was given.
Limits are integers. A summary is five queries of one `Promise.all`, each of which is a step
(`ReadPart`) that may see another state; `settled` says which reports a client began after
it had read a terminal status.

The constant `Hazards` lists what the environment may do in a run; each module
names its kinds at the top. Definitions marked *Mutant* are deliberately wrong
versions of the definition below them; no specification uses them.

## 3. The runs

| Run | Instance | Shows |
| --- | --- | --- |
| `jobqueue_lease` | 3 workers, 1 import, 2 attempts; crash, error, cancel, cancelrace | `ExclusiveProcessing`, `LeasedJobsCanBeReclaimed`, `EndedImportsAreStill`, `RequeuedOnlyByStaleSweep`, `OpenTransitionsAllowed`, `TerminalIsFinal` |
| `late_leases` | 3 workers, 1 import of 2 records, 2 attempts; crash, slow, sweeprace, cancel | `CompletedMeansStored`, `CountedOncePerClaim` |
| `jobqueue_crash` | 3 workers, 2 imports, 2 attempts; crash, fairness | `ImportFollowsJob`, `NoFailureBeforeLastAttempt`, `TransitionsAllowed`, `EveryJobEnds` |
| `pipeline_faults` | 2 runs, 2 imports, 3 keys of which the database refuses one, four 3-line files, batches of 2, a check every 2 lines, 2 attempts; every hazard | `NoRecordLost`, `CountersAgree`, `BatchBounded`, refinement of `RecordStore` |
| `writes` | 2 batches of 3 lines in equal or opposite key order, one key refused, 1 cancel, 1 sweep, 2 attempts; failing statements and lost replies, fairness | `OthersWaitForCommits`, `TransientFailuresAreRetried`, `EveryTransactionEnds`, refinement of `RecordStore` |
| `file` | 1 run, 2,048 files of 3 lines, records of two providers, one of which the database refuses; scoring failures, rollbacks, cancels, fairness | `ExactCounts`, `StoredIsNamed`, `EveryRunEnds` |
| `pool` | 3 batches, 2 slots, 4 threads in all, 1 permit; fairness | `PoolStaysFull`, `NoIdleWhileQueued`, `TaskInOnePlace`, `PermitsAccounted`, `EveryFlushEnds` |
| `upload` | 3 requests, 2 keys, 2 places, 2 signals, kills and restarts; every hazard | `CounterIsActual`, `RegisteredFilesAreWhole`, `OneImportPerKey`, `AcceptedLeavesNoOrphan`, `UnforcedExitCutsNoClient` |
| `shutdown` | 3 jobs, 2 signals; rejected calls and lost replies, fairness | `ExecutedIsNotReleased`, `CleanExitLeavesNoLease`, `ShutdownEnds` |
| `pages` | 1 client, 3 ids, 2 transactions, default page 1, longest page 2; insertions anywhere | `NoRowTwice`, `StartRowsSeen`, `SettledSummaryAgrees`, `SettledPagesAreAll` |

Two runs expect a violation: they check what the documentation or a test says and
the code does not do.

| Run | Statement | What happens |
| --- | --- | --- |
| `jobqueue_v_cancel` | a cancel ends (`import-status.spec.ts:40`, state diagram in `ARCHITECTURE.md:523`) | a job cancelled while it waits is claimed by nobody |
| `shutdown_v_failed` | shutdown is not a failure (`ARCHITECTURE.md:397`) | the framework's hook ends the pool while the poller is inside a job, whose import is marked `FAILED` |

Further limits of the code, which the models reproduce or, where said, abstract:

* a crash inside `updateBoth` leaves the job terminal and the import `PROCESSING` for good
  (`docs/adr/0001-job-execution-model.md:23` says they share a transaction boundary); the
  model does it too, which is why `EveryJobEnds` speaks of the job;
* with `sweeprace`, a claim between a sweep's read and its updates loses its lease
  (`pipeline.integration.spec.ts:318` says a sweep leaves valid leases alone);
  `ExclusiveProcessing` fails then, and with `slow` too: there is no fencing, a
  worker that outlives its lease is not told. `late_leases` shows what is left;
* `markProcessing` overwrites a cancel accepted after the claim
  (`import-status.spec.ts:74` says a cancel cannot be undone). When the cancel came between its
  two statements, the job stays `CANCELLING`, and the run that sees it cancels an import that says
  `PROCESSING`: the first two exceptions of
  `OpenTransitionsAllowed`;
* a cancel that comes between the `findMany` of a sweep and its updates by id is lost too: the
  `CANCELLING` job goes back to `PENDING` and is claimed and run again. It is the one case
  `RequeuedOnlyByStaleSweep` names. A sweep and a cancel can also deadlock in the database, and the
  one it aborts is not tried again;
* `releaseLease` writes the job first and the import in a second statement: when another worker
  claims the job in between, the import it runs says `PENDING` until it completes, the third
  exception of `OpenTransitionsAllowed`;
* the sweep compares leases with the worker's clock, `claimNext` with the database's `now()`, and
  a heartbeat writes the worker's time: the models have one clock, so what clocks that differ
  do to a lease is no part of any result here;
* a terminal status is overwritten by a stale cancel (`cancelrace`) and by
  `markFailed` after a `markCompleted` whose reply was lost (`error`):
  the two exceptions `TerminalIsFinal` names;
* `claimNext` itself does not look at `MAX_JOB_ATTEMPTS`, so a worker that never idles claims an
  exhausted job again;
* `wrapDatabaseError` marks every database error retryable: constraint violations and
  overflows, which `ARCHITECTURE.md:309` and `retry-policy.spec.ts:14` say are never retried,
  use up all attempts. The models do it, no property asks for it: `TransientFailuresAreRetried`
  is about batches the database could store;
* rejected records are inserted again when a commit's reply was lost
  (`ARCHITECTURE.md:299` says a retry cannot duplicate rows), and the batch's lines counted again,
  so `ExactCounts` and `CountedOncePerClaim` are checked without that hazard;
* validation checks an amount before it is rounded and has no upper bound: 0.004 is stored as
  0, and what the column cannot hold fails the whole import, as does a NUL in a malformed
  line;
* the two passes over a file disagree on white space other than space and tab, and on a CR or a
  Unicode line separator inside a line, a JSON string included
  (`docs/adr/0004-progress-calculation.md:23` says both exclude blank lines);
  `ImportFile` has both passes byte by byte, and the run uses files where they agree;
* `imports.provider` is written by no code although `execute` falls back to it: a record
  without a provider is accepted under the empty one;
* the API is not drained: the framework's hook closes the server on the signal itself, and
  `/health/ready` does not look at `ShutdownState` (`ARCHITECTURE.md:358` to 367). The hook's
  repeated signal then makes the graceful handler exit with 1; when that comes, no client
  waits any more, which is what `UnforcedExitCutsNoClient` says. A handler whose client has hung
  up is waited for by nobody: also an exit with 0 can cut it while it removes its
  partial file or writes its rows, and leave the file on disk, although `ARCHITECTURE.md:361`
  has requests in flight finished;
* a file whose request failed stays on disk: `OrphanFileSweeper`, which would remove it, is
  registered in no module.

**Bounds.** Three workers give two that compete and one that sweeps or dies
meanwhile; `SomeoneElse` keeps one incarnation able to work, the counterpart of
containers that restart. Two attempts distinguish the first, the last and the
exhausted one; `attempts` saturates one above, and `processed` (`MAX_PROCESSED`) beyond all it is
compared with. Two imports let one sweep fail one job
and reset another. Two records are a batch stored and one not. Two batches' worth of lines exercise a full batch, a rest and a
cancel between; two keys and two imports give duplicates inside a file, between
files and between runs, and the third key is what no attempt can store. `MCBatches` has two
batches with the same keys in opposite order, the least that deadlock, one with a key twice and one with
a row that is refused. Three batches on two slots fill the queue; four threads
allow two deaths; one permit is one less than the batches that can be scored at once. Three
requests on two places fill the limit, and make a replay
race a creation. `MixedFiles` are chosen for the order of keys, bad and blank
lines; `OrdinaryFiles` are all files of three lines out of eight kinds, with either line
end and with or without the last. Two signals are a first and a repeated one, and three jobs leave one
in the queue beside one that is executed and one that was lost. Three ids are a
longest page and a row behind or beyond the cursor; two transactions of different
currencies and merchants and of one risk level are a breakdown of two groups, one of one,
and a merchant too many.

**Symmetry** is used in the safety runs `jobqueue_lease`, `late_leases` and `upload` only,
where workers, imports, requests and keys are interchangeable.

**Fairness.** `Poll` and `Execute` of a worker are weakly fair because compose
restarts a worker until it is stopped and an awaited statement returns; a file is
finite and lines are read in a loop without other waits (`EndOfFile` is
part of `Execute`; `RenewLease`, cancels, errors, crashes and stops are not fair).
A lease that nobody renews passes (`Expire`), an open transaction commits
(`CancelWrite`). In the pipeline a started run is scheduled; crashes and cancels are
not fair. In `BatchWrites` some transaction that can go on does (weak fairness of their
disjunction): PostgreSQL runs statements and breaks deadlocks, and no particular transaction is favoured. In
`BatchFlush` the event loop serves every event, a thread finishes a
batch, a terminated thread stops, and the retries of a persisted batch end, which is what
`EveryTransactionEnds` of `BatchWrites` shows; nothing forces a thread to fail. In `GracefulShutdown`
only the grace timer is fair: a step, a hook or a batch may hang, which is what
the timer is for. `ImportService`, `ApiProcess` and `ImportReports` state safety only.

**Deadlock** is checked in the runs of `JobQueue`, `ImportService` and `ApiProcess`. It is switched off
elsewhere: those systems stop when all runs, batches or transactions are over, the worker
process has exited, or the last page is read.

## 4. The proofs

Every safety invariant, action property and refinement that a passing run checks is also
proved, for all values of the constants the assumptions allow; where a theorem needs a restriction
of `Hazards` or of the files, it is named below, and the runs that check the property satisfy it.

`JobQueueProofs`, for any sets of workers and imports and any `MAX_JOB_ATTEMPTS`:

* under every hazard: `TypeCorrect`. `WorkerInv` says how a
  worker's `currentJob`, `mark`, lists and `pc` fit together;
* under `NoLateLease` (neither `slow` nor `sweeprace`): `ProcessingIsExclusive`,
  `JobsStayReclaimable`, `EndedImportsAreNotRead`, `TerminalStatusIsFinal`, `EndedJobsStayOut`,
  `OpenStatusFollowsTable`. The inductive invariant
  `LeaseInv` adds to exclusiveness what makes it inductive: whoever executes owns a
  valid lease (`ExecutorOwnsLease`) and a job in a sweep's lists is expired and
  nobody's. Exclusiveness
  alone is not inductive: nothing would say the lease of the executor is not the
  expired one a second worker claims. `EndInv`, on top of it, says that who has not failed, and
  a sweep that still holds its lists, acts on an import that has not ended. `OpenInv` adds what the
  last two need: each claim counts an attempt, so that a late release meets at least a second one
  (`AttemptsCounted`), what a sweep is to reset has not ended (`ResetsAreOpen`), and a run past
  `markProcessing` finds `PENDING` only after such a release (`RunsAreOpen`);
* under `OnlyCrashes`: `ImportsFollowJobs`, `FailedOnlyWhenExhausted` and
  `TransitionsFollowTable`, from `CrashInv`, which says for each place in `updateBoth`
  and the sweep what the two rows can be.

`ImportServiceProofs` shows that the service implements the queue (`ServiceImplementsQueue`), so that the
above holds of it, and under every hazard, late leases and overlapping runs included:

* `CompletedIsStored`: by `StoredInv`, a run has stored all it has passed, and one that is about to mark
  `COMPLETED` all there is, whoever else works on the import;
* `CountsFollowClaims`: by `CountInv`, what is counted and what the runs under way may still count
  (`Due`) stays within claims times records. Without `Due` the bound is not inductive: a run
  that lost its lease goes on counting.

`EndedTablesAreFinal` needs `NoLateLease`: the tables of an ended import no longer change, which is
what `ImportReports` takes for granted.

`ImportFileProofs` proves of the pipeline, for any files, batch size, check interval, attempts
and under every hazard: `TypeCorrect`, `NothingIsLost`, `CountersAreTrue`,
`MemoryIsBounded` and `ImplementsRecordStore`. The inductive
invariant `PipelineInv` consists of the types, the checked invariants and two facts
about a run: the loop leaves no full batch unflushed (`LoopInv`), and what lies behind `flushed` is stored
(`BehindIsStored`). The counting lemmas rest on the library's theorems about
`Cardinality`. `FileImplementsPipeline` carries this over to `ImportFile`, of which it proves, for any bytes:

* `StoredUnderItsName`, under every hazard: rows come from lines of their import's file
  (`StoredIsRead`), and those from its bytes (`FileOK`);
* `PassesAgree`: the counting pass counts the lines the processing pass does not call blank. The hypothesis
  `Ordinary` (no lone CR, no white space but spaces, tabs and line ends, so neither vertical tab, form feed nor
  a Unicode space or separator) cannot be dropped: the passes
  disagree on the other files, see above;
* `CountsAreExact`, for ordinary files without lost replies, from `CountedOnce`: what the only
  run of an import has behind it was counted once, at every moment and not only at the end.

`BatchFlushProofs`, for any batches, slots and threads: `PoolIsFull`, `NothingIdles`, `TasksAreInOnePlace`,
`SettledOnce` and, of the semaphore, `PermitsAreAccounted`; `FlushImplementsPool` connects the two. The inductive
invariant `PlaceInv` says that no batch is held twice, that a promise is pending exactly when its batch is held,
and that each slot has a thread of its own. The
lemma `DispatchGives` states once what `dispatch` does (`Given`), and each handler is a change of slots and
batches followed by it. `PermitInv` adds to the sum that each waiter waits once.

`BatchWritesProofs`, for any batches, keys, imports and attempts: `TypeCorrect`, `TransientsUseEveryAttempt`,
`OthersNeverDeadlock` and `WritesImplementStore`. `WritesInv` says which rows a transaction of each kind
still has to lock: a batch locks its import's row last, so that whoever holds that row waits for nothing.
`LocksOK` says that a row has one lock and that a locked key is not stored yet, by which a commit stores
only what nobody owns.

`GracefulShutdownProofs` proves, for any jobs and any number of signals, with and
without rejected calls: `TypeCorrect`, `ReleasesOnlyAfterTheLoop`,
`CleanExitReleases`, `CleanExitOrdered` and `NoLateClaim` (the last two are of properties no
run checks: exit(0) comes after the loop's end and the pool's shutdown, and a signal lets no claim
start). `ShutdownInv` says what each thread
of control may rely on: a job that is executed is the one `stop()` would
release (`LoopInv`), past `stop` the loop is over (`HandlerInv`), a leased job is current or
forgotten (`LeaseInv`), and whoever is past the pool's shutdown has seen it begun
(`PoolInv`). `CleanExitLeavesNoLease` alone is not inductive: it says nothing before the exit.

`ImportReportsProofs`, for any ids, any number of clients and any limits:
`TypeCorrect`, `NoRowIsTwice` and `NothingIsMissed` of `RejectedPages`, which `ImportReports` implements
(`ReportsImplementPages`), and of the latter `SettledPagesComplete` and `SettledSummaryIsConsistent`.
`PagingInv` says that all a client
was given lies up to its cursor and that up to its cursor it was given all
there was at the start, and that a client with a cursor has rows left beyond it; the lemmas about `FirstOf` say that a page is a prefix of the rows
beyond the cursor. `ReportsInv` adds that the counters count the rows and that what a client was told
since it knew of the end is what it would be told now; `SumOfGroups` adds up a breakdown.

`ApiProcessProofs` proves, for any requests, keys, places and failures, `TypeCorrect`, `CounterIsExact`,
`FilesStayWhole`, `KeysHaveOneImport` and `NoOrphanOfAccepted` of
`CreateImport`. `CreateInv` adds to them that the requests that are handled are those counted, that a
request about to write rows has its file whole on disk and that rows are the last thing it writes, that
the import of a key is that of a request with the key, and that a request past the conflict is answered
with the key's import. `OneImportPerKey`
alone is not inductive: it speaks of requests that were told, not of those that are about to be.
`ImplementsCreateImport` shows that `ApiProcess`, with its exits and restarts, implements `CreateImport`,
so the invariants hold of it too; `OnlyForceCutsClients` rests on `ClosedInv`: whoever is past the
server's close has seen it closed, and a closed server handles only requests whose clients hung up.

Assumptions are the named `ASSUME`s of the modules, evaluated by TLC in every run that extends them.

Only model-checked:

* liveness (`EveryJobEnds`, `EveryRunEnds`, `EveryTransactionEnds`, `EveryFlushEnds`,
  `ShutdownEnds`), which needs fairness and `ENABLED`;
* `CancellationEnds` and `ShutdownIsNotAFailure`, the statements the two `_v_` runs refute;
* that the instances are not empty: that each action fires, which a theorem does not say.

## 5. What is not modelled, and the plan

Not modelled:

* wording of errors and logs, metrics, HTTP documents and status codes: nothing the program
  reads back;
* the scoring formula and the fingerprint: pure functions whose results are stored unread;
* the rules of single fields in `validateTransaction`: a record is valid or not (`ok`), and the
  database may refuse a valid one. What they miss is listed above;
* `cleanupOrphans`: nothing that runs calls it;
* timestamps other than the lease, and the length of the retry delays;
* row locks of single-statement updates, which hold nothing while they wait.

What is left is to prove more about how the modules fit together:

1. that one run of `ImportService` is a run of `ImportPipeline` with `position` for `flushed`;
2. which errors the policy tries again, as lemmas about `RetryPolicy` for any chain of causes;
3. that the state `ApiProcess` leaves of an accepted request is one `JobQueue` starts from.
