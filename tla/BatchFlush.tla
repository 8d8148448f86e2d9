------------------------------ MODULE BatchFlush ------------------------------
(***************************************************************************)
(* What flush does with a batch: it is scored by the pool, and then        *)
(* persisted under a permit of a Semaphore, which it gives back whether    *)
(* persisting succeeds or not.  Waiting flushes get permits in order; a    *)
(* permit that is given back goes straight to the first of them.           *)
(*                                                                         *)
(* As in WorkerThreadPool the batches are what callers may submit at the   *)
(* same time; one run of execute awaits each flush before the next line,   *)
(* so it never has two.  A flush whose batch is rejected throws before it  *)
(* reaches run(); one with nothing to score, which goes there at once, is  *)
(* left out.                                                               *)
(***************************************************************************)
EXTENDS WorkerThreadPool

CONSTANT MAX_CONCURRENT_PERSISTS    \* the semaphore's limit

ASSUME FlushAssumption == MAX_CONCURRENT_PERSISTS \in Nat \ {0}

VARIABLES
    available,  \* permits
    waiters,    \* the flushes that wait for one
    persist     \* where each flush stands

permitVars == <<available, waiters, persist>>
flushVars  == <<vars, permitVars>>

FlushTypeOK ==
    /\ TypeOK
    /\ available \in 0..MAX_CONCURRENT_PERSISTS
    /\ waiters \in Seq(Tasks)
    /\ persist \in [Tasks -> {"before", "waiting", "running", "done"}]

FlushInit ==
    /\ Init
    /\ available = MAX_CONCURRENT_PERSISTS
    /\ waiters = <<>>
    /\ persist = [k \in Tasks |-> "before"]

-----------------------------------------------------------------------------
Acquire(k) ==
    \/ /\ available > 0
       /\ available' = available - 1
       /\ persist' = [persist EXCEPT ![k] = "running"]
       /\ UNCHANGED waiters
    \/ /\ available = 0
       /\ waiters' = Append(waiters, k)
       /\ persist' = [persist EXCEPT ![k] = "waiting"]
       /\ UNCHANGED available

\* What awaits scoreBatch goes on in the turn that resolves it.
ContinueScored ==
    LET scored == {k \in Tasks : outcome[k] = "waiting" /\ outcome'[k] = "resolved"}
    IN  \/ \E k \in scored : Acquire(k)
        \/ scored = {} /\ UNCHANGED permitVars

\* Mutant: the permit is both handed on and put back.
ReleaseTwice(k) ==
    /\ available' = available + 1
    /\ IF waiters # <<>>
         THEN /\ persist' = [persist EXCEPT ![k] = "done", ![Head(waiters)] = "running"]
              /\ waiters' = Tail(waiters)
         ELSE /\ persist' = [persist EXCEPT ![k] = "done"]
              /\ UNCHANGED waiters

Release(k) ==
    \/ /\ waiters # <<>>
       /\ persist' = [persist EXCEPT ![k] = "done", ![Head(waiters)] = "running"]
       /\ waiters' = Tail(waiters)
       /\ UNCHANGED available
    \/ /\ waiters = <<>>
       /\ persist' = [persist EXCEPT ![k] = "done"]
       /\ available' = available + 1
       /\ UNCHANGED waiters

\* Mutant: the permit is given back when persisting succeeds, and not when it throws.
EndPersistOnSuccess(k) ==
    /\ persist[k] = "running"
    /\ \/ Release(k)
       \/ persist' = [persist EXCEPT ![k] = "done"] /\ UNCHANGED <<available, waiters>>
    /\ UNCHANGED vars

\* run: persistBatch and its retries succeed or throw, then the finally releases.
EndPersist(k) ==
    /\ persist[k] = "running"
    /\ Release(k)
    /\ UNCHANGED vars

-----------------------------------------------------------------------------
FlushNext ==
    \/ Next /\ ContinueScored
    \/ \E k \in Tasks : EndPersist(k)

FlushSpec == FlushInit /\ [][FlushNext]_flushVars

\* The event loop serves every event, a thread scores what it is given in finite time,
\* a terminated thread stops, and the retries of a batch end (BatchWrites).
FairFlushSpec ==
    /\ FlushSpec
    /\ \A t \in Threads :
          /\ WF_flushVars(Event(t) /\ ContinueScored)
          /\ WF_flushVars(Compute(t) /\ ContinueScored)
          /\ WF_flushVars(shuttingDown /\ Quit(t) /\ ContinueScored)
    /\ \A k \in Tasks : WF_flushVars(EndPersist(k))

-----------------------------------------------------------------------------
(***************************************************************************)
(* Properties.                                                             *)
(***************************************************************************)
\* The permits out and the permits left are the limit, and nobody waits beside one
\* that is left: the bound on concurrent transactions neither leaks nor locks up.
PermitsAccounted ==
    /\ available + Cardinality({k \in Tasks : persist[k] = "running"})
         = MAX_CONCURRENT_PERSISTS
    /\ waiters # <<>> => available = 0

\* Every flush ends: its batch is answered unless the pool is shut down, when a batch
\* in a thread is answered or hangs, and what was scored gets its permit and gives it
\* back.
EveryFlushEnds ==
    \A k \in Tasks :
        /\ outcome[k] = "waiting" ~> outcome[k] \in Settled \/ shuttingDown
        /\ outcome[k] = "resolved" ~> persist[k] = "done"
=============================================================================
