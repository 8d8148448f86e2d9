-------------------------- MODULE GracefulShutdown --------------------------
(***************************************************************************)
(* The worker process from its first job to its exit.  Four threads of     *)
(* control share one event loop: the poller's loop, the signal handler of  *)
(* registerGracefulShutdown with the steps worker.main gives it, its grace *)
(* timer, and the handler enableShutdownHooks installs on the same signals *)
(* (the framework's: it disconnects the database client, shuts the pool    *)
(* down by onApplicationShutdown, and then raises the signal again).       *)
(*                                                                         *)
(* begin() and poller.stop() up to its first await run in one turn of the  *)
(* event loop, so "a signal was handled" stands for shuttingDown and for   *)
(* not polling.  The poller waits for each batch, so a batch is in a       *)
(* thread and never queued.  JobQueue has what other workers, cancels and  *)
(* expiring leases do to the rows; ShutdownInterruptedError is not thrown  *)
(* anywhere, so the branches that expect it are left out.                  *)
(***************************************************************************)
EXTENDS Naturals

CONSTANTS
    Jobs,
    None,
    MAX_SIGNALS,    \* bound on the signals the process is sent
    Hazards

\* "error": an awaited call rejects, or its reply is lost.
ASSUME ShutdownAssumption ==
    /\ None \notin Jobs
    /\ MAX_SIGNALS \in Nat \ {0}
    /\ Hazards \subseteq {"error"}

VARIABLES
    loop,       \* where the poller's loop stands
    running,    \* the job execute works on, the loop's local variable
    currentJob, \* the job stop() would release
    job,        \* each job's row: "LEASED" is CLAIMED or PROCESSING by this worker
    forgotten,  \* the leased jobs this process no longer knows of
    pool,       \* the scoring pool
    handler,    \* the step the signal handler awaits; "idle" before a signal
    hooks,      \* the framework's handler
    signals,    \* signals sent so far
    exit        \* "running", or how the process ended

loopVars == <<loop, running, currentJob, job, forgotten>>
vars     == <<loopVars, pool, handler, hooks, signals, exit>>

\* Inside execute, until it returns.
InExecute == {"opening", "executing", "scoring", "failing"}
Steps     == {"stop", "release", "pool", "poolWait", "close"}

TypeOK ==
    /\ loop \in {"top", "claiming", "asleep", "ended"} \cup InExecute
    /\ running \in Jobs \cup {None}
    /\ currentJob \in Jobs \cup {None}
    /\ job \in [Jobs -> {"PENDING", "LEASED", "COMPLETED", "FAILED"}]
    /\ forgotten \subseteq Jobs
    /\ pool \in {"up", "terminating", "down"}
    /\ handler \in {"idle"} \cup Steps
    /\ hooks \in {"off", "destroy", "pool", "poolWait", "raise"}
    /\ signals \in 0..MAX_SIGNALS
    /\ exit \in {"running", "clean", "forced"}

Init ==
    /\ loop = "top"
    /\ running = None
    /\ currentJob = None
    /\ job = [j \in Jobs |-> "PENDING"]
    /\ forgotten = {}
    /\ pool = "up"
    /\ handler = "idle"
    /\ hooks = "off"
    /\ signals = 0
    /\ exit = "running"

-----------------------------------------------------------------------------
(***************************************************************************)
(* The poller's loop.                                                      *)
(***************************************************************************)
\* this.polling && !shutdownState.isShuttingDown
GoesOn == handler = "idle"

LoopTop ==
    /\ loop = "top"
    /\ loop' = IF GoesOn THEN "claiming" ELSE "ended"
    /\ UNCHANGED <<running, currentJob, job, forgotten, pool, handler, hooks, signals, exit>>

\* A job an escaped error left in currentJob is written over.
Claim(j) ==
    /\ loop = "claiming" /\ job[j] = "PENDING"
    /\ job' = [job EXCEPT ![j] = "LEASED"]
    /\ running' = j
    /\ currentJob' = j
    /\ forgotten' = forgotten \cup ({currentJob} \ {None})
    /\ loop' = "opening"
    /\ UNCHANGED <<pool, handler, hooks, signals, exit>>

\* Nothing to claim: a sweep perhaps, then sleep.
ClaimNothing ==
    /\ loop = "claiming" /\ \A j \in Jobs : job[j] # "PENDING"
    /\ loop' = "asleep"
    /\ UNCHANGED <<running, currentJob, job, forgotten, pool, handler, hooks, signals, exit>>

\* claimNext rejects, before or after it leased a job.
ClaimFails ==
    /\ "error" \in Hazards
    /\ loop = "claiming"
    /\ loop' = "asleep"
    /\ \/ UNCHANGED <<job, forgotten>>
       \/ \E j \in Jobs : /\ job[j] = "PENDING"
                          /\ job' = [job EXCEPT ![j] = "LEASED"]
                          /\ forgotten' = forgotten \cup {j}
    /\ UNCHANGED <<running, currentJob, pool, handler, hooks, signals, exit>>

Wake ==
    /\ loop = "asleep"
    /\ loop' = "top"
    /\ UNCHANGED <<running, currentJob, job, forgotten, pool, handler, hooks, signals, exit>>

\* The file's row is found, its lines are counted, the import is marked PROCESSING.
Open ==
    /\ loop = "opening"
    /\ loop' = "executing"
    /\ UNCHANGED <<running, currentJob, job, forgotten, pool, handler, hooks, signals, exit>>

\* scoreBatch throws at once when the pool is shutting down.
ScoreBatch ==
    /\ loop = "executing"
    /\ loop' = IF pool = "up" THEN "scoring" ELSE "failing"
    /\ UNCHANGED <<running, currentJob, job, forgotten, pool, handler, hooks, signals, exit>>

\* The thread's answer, unless terminate() was faster: then the exit event finds
\* the pool shutting down and the batch is never settled.
BatchScored ==
    /\ loop = "scoring" /\ pool # "down"
    /\ loop' = "executing"
    /\ UNCHANGED <<running, currentJob, job, forgotten, pool, handler, hooks, signals, exit>>

\* A batch is answered with an error, or another call inside the try block rejects:
\* markCompleted perhaps, after it took effect.
ExecuteFails ==
    /\ "error" \in Hazards
    /\ \/ loop = "scoring" /\ pool = "up" /\ UNCHANGED job
       \/ loop = "executing" /\ UNCHANGED job
       \/ loop = "executing" /\ job' = [job EXCEPT ![running] = "COMPLETED"]
    /\ loop' = "failing"
    /\ UNCHANGED <<running, currentJob, forgotten, pool, handler, hooks, signals, exit>>

\* execute returns: markCompleted, or markFailed in its catch.
Return(status) ==
    /\ job' = [job EXCEPT ![running] = status]
    /\ currentJob' = None
    /\ loop' = "top"
    /\ UNCHANGED <<running, forgotten, pool, handler, hooks, signals, exit>>

Complete == loop = "executing" /\ Return("COMPLETED")

MarkFailed == loop = "failing" /\ Return("FAILED")

\* An error outside the try block, or a rejected markFailed: logged by the loop,
\* which keeps currentJob and goes on.
Escape ==
    /\ "error" \in Hazards
    /\ \/ loop \in {"opening", "failing"} /\ UNCHANGED job
       \/ loop = "failing" /\ job' = [job EXCEPT ![running] = "FAILED"]
    /\ loop' = "top"
    /\ UNCHANGED <<running, currentJob, forgotten, pool, handler, hooks, signals, exit>>

-----------------------------------------------------------------------------
(***************************************************************************)
(* Signals, and the steps of the graceful shutdown.                        *)
(***************************************************************************)
\* process.on of both handlers: the framework's ignores a repeated signal.
HandleSignal ==
    /\ hooks' = IF hooks = "off" THEN "destroy" ELSE hooks
    /\ IF handler = "idle" THEN handler' = "stop" /\ UNCHANGED exit
                           ELSE exit' = "forced" /\ UNCHANGED handler

Signal ==
    /\ signals < MAX_SIGNALS
    /\ signals' = signals + 1
    /\ HandleSignal
    /\ UNCHANGED <<loopVars, pool>>

\* Mutant: stop() does not wait for the loop.
PollerStoppedUnawaited ==
    /\ handler = "stop"
    /\ handler' = IF currentJob = None THEN "pool" ELSE "release"
    /\ UNCHANGED <<loopVars, pool, hooks, signals, exit>>

\* stop() has waited for the loop.
PollerStopped ==
    /\ handler = "stop" /\ loop = "ended"
    /\ handler' = IF currentJob = None THEN "pool" ELSE "release"
    /\ UNCHANGED <<loopVars, pool, hooks, signals, exit>>

\* Mutant: the job is forgotten without its lease being given back.
ReleaseNothing ==
    /\ handler = "release"
    /\ currentJob' = None
    /\ handler' = "pool"
    /\ UNCHANGED <<loop, running, job, forgotten, pool, hooks, signals, exit>>

\* releaseLease, its WHERE clause included.
ReleaseLease ==
    /\ handler = "release"
    /\ job' = [job EXCEPT ![currentJob] = IF @ = "LEASED" THEN "PENDING" ELSE @]
    /\ currentJob' = None
    /\ handler' = "pool"
    /\ UNCHANGED <<loop, running, forgotten, pool, hooks, signals, exit>>

ReleaseFails ==
    /\ "error" \in Hazards
    /\ handler = "release"
    /\ forgotten' = forgotten \cup {currentJob}
    /\ currentJob' = None
    /\ handler' = "pool"
    /\ UNCHANGED <<loop, running, job, pool, hooks, signals, exit>>

\* WorkerThreadPool.shutdown for one of its callers, which goes from `at` to `at1`
\* and in the end to `next`: it returns at once when somebody else has begun it, and
\* otherwise waits for the threads.
ShutdownPool(at, at1, next) ==
    \/ at = "pool" /\ pool = "up" /\ pool' = "terminating" /\ at1 = "poolWait"
    \/ at = "pool" /\ pool # "up" /\ UNCHANGED pool /\ at1 = next
    \/ at = "poolWait" /\ pool = "down" /\ UNCHANGED pool /\ at1 = next

StopPool ==
    /\ ShutdownPool(handler, handler', "close")
    /\ UNCHANGED <<loopVars, hooks, signals, exit>>

\* The threads are gone.
Terminated ==
    /\ pool = "terminating"
    /\ pool' = "down"
    /\ UNCHANGED <<loopVars, handler, hooks, signals, exit>>

\* context.close() runs the hooks again (the pool's returns at once), then exit(0).
\* A hook that rejects leads to exit(1).
CloseContext ==
    /\ handler = "close"
    /\ \/ exit' = "clean"
       \/ "error" \in Hazards /\ exit' = "forced"
    /\ UNCHANGED <<loopVars, pool, handler, hooks, signals>>

\* Mutant: the timer is cleared before context.close().
ForceExitBeforeClose ==
    /\ handler \in Steps \ {"close"}
    /\ exit' = "forced"
    /\ UNCHANGED <<loopVars, pool, handler, hooks, signals>>

\* The grace period ends.
ForceExit ==
    /\ handler # "idle"
    /\ exit' = "forced"
    /\ UNCHANGED <<loopVars, pool, handler, hooks, signals>>

-----------------------------------------------------------------------------
(***************************************************************************)
(* The framework's handler.                                                *)
(***************************************************************************)
\* PrismaService.onModuleDestroy; the client connects again when it is used.
Disconnect ==
    /\ hooks = "destroy"
    /\ \/ hooks' = "pool" /\ UNCHANGED exit
       \/ "error" \in Hazards /\ exit' = "forced" /\ UNCHANGED hooks
    /\ UNCHANGED <<loopVars, pool, handler, signals>>

\* WorkerThreadPool.onApplicationShutdown.
ShutdownHook ==
    /\ ShutdownPool(hooks, hooks', "raise")
    /\ UNCHANGED <<loopVars, handler, signals, exit>>

\* process.kill(process.pid, signal), its own listener removed.
RaiseAgain ==
    /\ hooks = "raise"
    /\ HandleSignal
    /\ UNCHANGED <<loopVars, pool, signals>>

-----------------------------------------------------------------------------
Loop ==
    \/ LoopTop \/ (\E j \in Jobs : Claim(j)) \/ ClaimNothing \/ ClaimFails \/ Wake \/ Open
    \/ ScoreBatch \/ BatchScored \/ ExecuteFails \/ Complete \/ MarkFailed \/ Escape

Handler ==
    PollerStopped \/ ReleaseLease \/ ReleaseFails \/ StopPool \/ CloseContext

Hooks == Disconnect \/ ShutdownHook \/ RaiseAgain

Next == exit = "running" /\ (Loop \/ Signal \/ Handler \/ Terminated \/ ForceExit \/ Hooks)

Spec == Init /\ [][Next]_vars

\* setTimeout fires.  Nothing else is owed: a step, a hook or a batch may hang.
FairSpec == Spec /\ WF_vars(exit = "running" /\ ForceExit)

-----------------------------------------------------------------------------
(***************************************************************************)
(* Properties.                                                             *)
(***************************************************************************)
\* A job is not put back in the queue while it is executed: stop() releases it only
\* after the loop has left it.
ExecutedIsNotReleased == loop \in InExecute => job[running] # "PENDING"

\* exit(0) leaves no job leased that the process knows of: nobody waits for a lease
\* to run out after a clean shutdown, unless a claim's or release's reply was lost
\* or the job was written over.
CleanExitLeavesNoLease ==
    exit = "clean" => \A j \in Jobs : job[j] = "LEASED" => j \in forgotten

\* exit(0) comes after the loop has ended and the pool has been told to stop,
\* whichever of the two handlers told it.
CleanExitIsOrderly == exit = "clean" => loop = "ended" /\ pool # "up"

\* After a signal the loop starts no further claim.
NoClaimAfterSignal ==
    [][handler # "idle" /\ loop' = "claiming" => loop = "claiming"]_vars

\* A signal ends the process, whatever a step, a hook or a batch waits for.
ShutdownEnds == handler # "idle" ~> exit # "running"

\* No job fails when no call rejects: being told to stop is not a failure.
ShutdownIsNotAFailure ==
    "error" \notin Hazards => \A j \in Jobs : job[j] # "FAILED"
=============================================================================
