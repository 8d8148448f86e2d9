---------------------------- MODULE ImportService ----------------------------
(***************************************************************************)
(* The queue of JobQueue together with what its workers do to the tables   *)
(* while they read: who may process an import is decided by leases that    *)
(* are renewed, lost and swept, what is stored by the batches in between.  *)
(* ImportPipeline has the inside of one run and takes the order of runs as *)
(* it comes; here the runs are those the leases allow.                     *)
(*                                                                         *)
(* Every file has the same number of records, each of which ends up in     *)
(* `transactions` or `rejected_records`.  A batch is any next stretch of   *)
(* them: batch size, check interval, and commits whose reply is lost, after*)
(* which a retry counts a batch again, are ImportPipeline's.               *)
(***************************************************************************)
EXTENDS JobQueue

CONSTANT RECORDS        \* in each file

ASSUME ServiceAssumption == RECORDS \in Nat \ {0}

VARIABLES
    position,   \* the records each worker's run has flushed
    stored,     \* the records of each import that the tables have
    processed   \* imports.processedCount, saturating beyond every bound checked

tableVars   == <<stored, processed>>
serviceVars == <<vars, position, tableVars>>

MAX_PROCESSED == RECORDS * (MAX_JOB_ATTEMPTS + 1)

ServiceTypeOK ==
    /\ TypeOK
    /\ position \in [Workers -> 0..RECORDS]
    /\ stored \in [Imports -> SUBSET (1..RECORDS)]
    /\ processed \in [Imports -> 0..MAX_PROCESSED]

ServiceInit ==
    /\ Init
    /\ position = [w \in Workers |-> 0]
    /\ stored = [i \in Imports |-> {}]
    /\ processed = [i \in Imports |-> 0]

-----------------------------------------------------------------------------
Capped(n) == IF n > MAX_PROCESSED THEN MAX_PROCESSED ELSE n

\* persistBatch: the records from position[w] to `last`, in one transaction with the
\* counters.  The import is named by its id; nobody asks who holds the lease.
PersistTo(w, last) ==
    LET i == currentJob[w]
    IN  /\ stored' = [stored EXCEPT ![i] = @ \cup (position[w] + 1)..last]
        /\ processed' = [processed EXCEPT ![i] = Capped(@ + (last - position[w]))]

\* A flush, when a batch is full or the loop is left.
Flush(w) ==
    /\ pc[w] = "reading"
    /\ \E last \in (position[w] + 1)..RECORDS :
          PersistTo(w, last) /\ position' = [position EXCEPT ![w] = last]
    /\ UNCHANGED vars

\* Mutant: the loop is left with a record unflushed.
EndsFlushedButOne(w) == position[w] + 1 >= RECORDS

\* markCompleted comes after the last line and the flush behind the loop.
EndsFlushed(w) == position[w] = RECORDS

\* The accumulators and lineNumber are locals of execute: every run starts at the
\* first line again, whatever earlier ones have stored.
LocalsOfExecute ==
    position' = [w \in Workers |->
                   IF pc[w] = "reading" /\ pc'[w] = "reading" THEN position[w] ELSE 0]

QueueStep ==
    /\ Next
    /\ \A w \in Workers : EndOfFile(w) => EndsFlushed(w)
    /\ LocalsOfExecute
    /\ UNCHANGED tableVars

ServiceNext ==
    \/ QueueStep
    \/ \E w \in Workers : Flush(w)

ServiceSpec == ServiceInit /\ [][ServiceNext]_serviceVars

-----------------------------------------------------------------------------
(***************************************************************************)
(* Properties.                                                             *)
(***************************************************************************)
\* What an import that says COMPLETED promises is in the tables, all of it, even when
\* leases are lost and two workers, or a worker and a sweep, act on it: each run that
\* ends has stored the whole file itself.
CompletedMeansStored ==
    \A i \in Imports : imp[i] = "COMPLETED" => stored[i] = 1..RECORDS

\* Each claim buys one pass over the file, so crashes, lost leases and overlapping
\* workers count no record more often than the job was claimed.
CountedOncePerClaim ==
    \A i \in Imports :
        attempts[i] <= MAX_JOB_ATTEMPTS => processed[i] <= attempts[i] * RECORDS
=============================================================================
