--------------------------- MODULE ImportPipeline ---------------------------
(***************************************************************************)
(* What ProcessImportFileUseCase.execute does with the lines of a file,    *)
(* from markProcessing on: reading, batching, scoring, and persistBatch    *)
(* behind the retry policy.                                                *)
(*                                                                         *)
(* A run is one call of execute.  JobQueue decides when runs of the same   *)
(* import follow each other or, if a lease is lost, overlap; here any      *)
(* sequence it allows may happen.  A line is blank, bad (it becomes a      *)
(* rejected record) or the key (provider, transactionId) of a valid        *)
(* transaction.                                                            *)
(*                                                                         *)
(* The flush is awaited where it is called, so a run never has two batches *)
(* on their way and persistLimiter never makes one wait: the batch is the  *)
(* interval of lines after flushed[r] up to line[r].                       *)
(***************************************************************************)
EXTENDS Naturals, Sequences, FiniteSets

CONSTANTS
    Imports, Runs,
    Keys,               \* (provider, transactionId) pairs
    Blank, Bad,         \* the other kinds of line
    None,
    Unstorable,         \* the lines whose row PostgreSQL refuses, see Storable
    Files,              \* the files clients may have uploaded
    BATCH_SIZE,
    CANCELLATION_CHECK_INTERVAL,
    MAX_ATTEMPTS,       \* of the retry policy
    Hazards             \* what the environment may do

(***************************************************************************)
(* "crash": the worker dies.  "score": a batch fails in the scoring pool.  *)
(* "rollback": a transaction fails.  "reply": it commits and the reply is  *)
(* lost.  "cancel": the import is cancelled.  "overlap": two workers run   *)
(* the same import, or one runs it again after it was completed.           *)
(***************************************************************************)
HazardKinds == {"crash", "score", "rollback", "reply", "cancel", "overlap"}

Lines == Keys \cup {Blank, Bad}

ASSUME PipelineAssumption ==
    /\ IsFiniteSet(Keys)
    /\ Blank \notin Keys /\ Bad \notin Keys /\ Blank # Bad
    /\ None \notin Imports
    /\ Unstorable \subseteq Keys \cup {Bad}
    /\ Files \subseteq Seq(Lines)
    /\ BATCH_SIZE \in Nat \ {0}
    /\ CANCELLATION_CHECK_INTERVAL \in Nat \ {0}
    /\ MAX_ATTEMPTS \in Nat \ {0}
    /\ Hazards \subseteq HazardKinds

VARIABLES
    file,           \* the file of each import
    owner,          \* transactions: the import that holds each key
    rejectedRows,   \* rejected_records: rows per line of each import
    processed, accepted, duplicates, rejected,  \* the import's counters
    cancelling,     \* the job says CANCELLING
    importOf,       \* the import a run works on
    pc,
    line,           \* lines parsed so far
    flushed,        \* lines whose batch is known to be stored
    lastFlush,      \* the loop is over
    wasCancelled,
    attempt         \* persistBatch attempts made for this batch

store    == <<owner, rejectedRows, processed, accepted, duplicates, rejected>>
runVars  == <<importOf, pc, line, flushed, lastFlush, wasCancelled, attempt>>
vars     == <<file, store, cancelling, runVars>>

Active == {"reading", "scoring", "persisting", "closing"}
Ended  == {"completed", "cancelled", "failed", "gone"}

StoreTypeOK ==
    /\ file \in [Imports -> Files]
    /\ owner \in [Keys -> Imports \cup {None}]
    /\ \A i \in Imports : rejectedRows[i] \in [1..Len(file[i]) -> Nat]
    /\ processed \in [Imports -> Nat] /\ accepted \in [Imports -> Nat]
    /\ duplicates \in [Imports -> Nat] /\ rejected \in [Imports -> Nat]

RunTypeOK ==
    /\ cancelling \in [Imports -> BOOLEAN]
    /\ importOf \in [Runs -> Imports]
    /\ pc \in [Runs -> {"waiting"} \cup Active \cup Ended]
    /\ line \in [Runs -> Nat] /\ flushed \in [Runs -> Nat]
    /\ \A r \in Runs : flushed[r] <= line[r] /\ line[r] <= Len(file[importOf[r]])
    /\ lastFlush \in [Runs -> BOOLEAN] /\ wasCancelled \in [Runs -> BOOLEAN]
    /\ attempt \in [Runs -> 0..(MAX_ATTEMPTS - 1)]

TypeOK == StoreTypeOK /\ RunTypeOK

Init ==
    /\ file \in [Imports -> Files]
    /\ owner = [k \in Keys |-> None]
    /\ rejectedRows = [i \in Imports |-> [n \in 1..Len(file[i]) |-> 0]]
    /\ processed = [i \in Imports |-> 0]
    /\ accepted = [i \in Imports |-> 0]
    /\ duplicates = [i \in Imports |-> 0]
    /\ rejected = [i \in Imports |-> 0]
    /\ cancelling = [i \in Imports |-> FALSE]
    /\ importOf \in [Runs -> Imports]
    /\ pc = [r \in Runs |-> "waiting"]
    /\ line = [r \in Runs |-> 0]
    /\ flushed = [r \in Runs |-> 0]
    /\ lastFlush = [r \in Runs |-> FALSE]
    /\ wasCancelled = [r \in Runs |-> FALSE]
    /\ attempt = [r \in Runs |-> 0]

-----------------------------------------------------------------------------
Line(r, n) == file[importOf[r]][n]

\* The batch: pendingScoring and pendingRejected, by line number, after n lines.
PendingUpTo(r, n) == {m \in (flushed[r] + 1)..n : Line(r, m) # Blank}
Pending(r)        == PendingUpTo(r, line[r])
ScoringBatch(r)   == {m \in Pending(r) : Line(r, m) # Bad}
RejectedBatch(r)  == {m \in Pending(r) : Line(r, m) = Bad}

\* Mutant: only the valid lines count towards a full batch.
BatchFullOfValid(r, n) ==
    Cardinality({m \in PendingUpTo(r, n) : Line(r, m) # Bad}) >= BATCH_SIZE

BatchFull(r, n) == Cardinality(PendingUpTo(r, n)) >= BATCH_SIZE

\* Mutant: ON CONFLICT DO UPDATE.
UpsertedKeys(r) == {k \in Keys : \E m \in ScoringBatch(r) : Line(r, m) = k}

\* The keys an INSERT ... ON CONFLICT DO NOTHING of the batch really inserts.
NewKeys(r) == {k \in Keys : owner[k] = None /\ \E m \in ScoringBatch(r) : Line(r, m) = k}

\* Mutant: every scored line counts as inserted.
ScoredCount(r) == Cardinality(ScoringBatch(r))

InsertedCount(r) == Cardinality(NewKeys(r))

ProcessedDelta(r) == Cardinality(Pending(r))

Goto(r, label) == pc' = [pc EXCEPT ![r] = label]

\* markProcessing has written PROCESSING over whatever the job said.
Start(r) ==
    /\ pc[r] = "waiting"
    /\ "overlap" \in Hazards \/
       \A q \in Runs : importOf[q] = importOf[r] => pc[q] \in {"waiting", "failed", "gone"}
    /\ Goto(r, "reading")
    /\ cancelling' = [cancelling EXCEPT ![importOf[r]] = FALSE]
    /\ UNCHANGED <<file, store, importOf, line, flushed, lastFlush, wasCancelled, attempt>>

\* Line n is looked at for the cancellation before it is parsed.
SeesCancelling(r, n) ==
    n % CANCELLATION_CHECK_INTERVAL = 0 /\ cancelling[importOf[r]]

ReadLine(r) ==
    /\ pc[r] = "reading" /\ line[r] < Len(file[importOf[r]])
    /\ ~SeesCancelling(r, line[r] + 1)
    /\ line' = [line EXCEPT ![r] = @ + 1]
    /\ IF BatchFull(r, line[r] + 1) THEN Goto(r, "scoring") ELSE UNCHANGED pc
    /\ UNCHANGED <<file, store, cancelling, importOf, flushed, lastFlush,
                   wasCancelled, attempt>>

\* Mutant: no flush after the loop.
LeaveLoopUnflushed(r) ==
    /\ pc[r] = "reading"
    /\ \/ /\ line[r] < Len(file[importOf[r]]) /\ SeesCancelling(r, line[r] + 1)
          /\ wasCancelled' = [wasCancelled EXCEPT ![r] = TRUE]
       \/ line[r] = Len(file[importOf[r]]) /\ UNCHANGED wasCancelled
    /\ lastFlush' = [lastFlush EXCEPT ![r] = TRUE]
    /\ Goto(r, "closing")
    /\ UNCHANGED <<file, store, cancelling, importOf, line, flushed, attempt>>

\* The loop breaks or the stream ends: what is pending is flushed all the same.
LeaveLoop(r) ==
    /\ pc[r] = "reading"
    /\ \/ /\ line[r] < Len(file[importOf[r]]) /\ SeesCancelling(r, line[r] + 1)
          /\ wasCancelled' = [wasCancelled EXCEPT ![r] = TRUE]
       \/ line[r] = Len(file[importOf[r]]) /\ UNCHANGED wasCancelled
    /\ lastFlush' = [lastFlush EXCEPT ![r] = TRUE]
    /\ Goto(r, "scoring")
    /\ UNCHANGED <<file, store, cancelling, importOf, line, flushed, attempt>>

\* After a flush: the rest of the loop, or the end of execute.
FlushDone(r) ==
    /\ Goto(r, IF lastFlush[r] THEN "closing" ELSE "reading")
    /\ flushed' = [flushed EXCEPT ![r] = line[r]]
    /\ attempt' = [attempt EXCEPT ![r] = 0]

NothingToFlush(r) ==
    /\ pc[r] = "scoring" /\ Pending(r) = {}
    /\ FlushDone(r)
    /\ UNCHANGED <<file, store, cancelling, importOf, line, lastFlush, wasCancelled>>

ScoreBatch(r) ==
    /\ pc[r] = "scoring" /\ Pending(r) # {}
    /\ Goto(r, "persisting")
    /\ UNCHANGED <<file, store, cancelling, importOf, line, flushed, lastFlush,
                   wasCancelled, attempt>>

ScoringFails(r) ==
    /\ "score" \in Hazards
    /\ pc[r] = "scoring" /\ ScoringBatch(r) # {}
    /\ Goto(r, "failed")
    /\ UNCHANGED <<file, store, cancelling, importOf, line, flushed, lastFlush,
                   wasCancelled, attempt>>

\* No amount beyond Decimal(18, 2), which normalizeAmount lets through, and no NUL in
\* the raw text of a malformed line: one such row rolls the batch back every time.
Storable(r) == \A m \in Pending(r) : Line(r, m) \notin Unstorable

\* persistBatch, one transaction.
PersistBatch(r) ==
    LET i == importOf[r]
    IN  /\ owner' = [k \in Keys |-> IF k \in NewKeys(r) THEN i ELSE owner[k]]
        /\ rejectedRows' =
             [j \in Imports |-> [n \in 1..Len(file[j]) |->
                 IF j = i /\ n \in RejectedBatch(r) THEN rejectedRows[j][n] + 1
                                                   ELSE rejectedRows[j][n]]]
        /\ processed' = [processed EXCEPT ![i] = @ + ProcessedDelta(r)]
        /\ accepted' = [accepted EXCEPT ![i] = @ + InsertedCount(r)]
        /\ duplicates' = [duplicates EXCEPT
                            ![i] = @ + (Cardinality(ScoringBatch(r)) - InsertedCount(r))]
        /\ rejected' = [rejected EXCEPT ![i] = @ + Cardinality(RejectedBatch(r))]

Persist(r) ==
    /\ pc[r] = "persisting" /\ Storable(r)
    /\ PersistBatch(r)
    /\ FlushDone(r)
    /\ UNCHANGED <<file, cancelling, importOf, line, lastFlush, wasCancelled>>

\* Mutant: attempts without end.
RetryForever(r) ==
    attempt' = [attempt EXCEPT ![r] = (@ + 1) % MAX_ATTEMPTS] /\ UNCHANGED pc

\* wrapDatabaseError marks every database error retryable, and the policy never
\* looks at the cause: it tries again, until its attempts are used up and the use
\* case's catch runs.
Retry(r) ==
    IF attempt[r] + 1 < MAX_ATTEMPTS
      THEN attempt' = [attempt EXCEPT ![r] = @ + 1] /\ UNCHANGED pc
      ELSE Goto(r, "failed") /\ UNCHANGED attempt

PersistRolledBack(r) ==
    /\ "rollback" \in Hazards \/ ~Storable(r)
    /\ pc[r] = "persisting"
    /\ Retry(r)
    /\ UNCHANGED <<file, store, cancelling, importOf, line, flushed, lastFlush, wasCancelled>>

PersistReplyLost(r) ==
    /\ "reply" \in Hazards
    /\ pc[r] = "persisting" /\ Storable(r)
    /\ PersistBatch(r)
    /\ Retry(r)
    /\ UNCHANGED <<file, cancelling, importOf, line, flushed, lastFlush, wasCancelled>>

\* markCancelled or markCompleted.
Close(r) ==
    /\ pc[r] = "closing"
    /\ Goto(r, IF wasCancelled[r] THEN "cancelled" ELSE "completed")
    /\ UNCHANGED <<file, store, cancelling, importOf, line, flushed, lastFlush,
                   wasCancelled, attempt>>

Crash(r) ==
    /\ "crash" \in Hazards
    /\ pc[r] \in Active
    /\ Goto(r, "gone")
    /\ UNCHANGED <<file, store, cancelling, importOf, line, flushed, lastFlush,
                   wasCancelled, attempt>>

RequestCancellation(i) ==
    /\ "cancel" \in Hazards
    /\ ~cancelling[i]
    /\ cancelling' = [cancelling EXCEPT ![i] = TRUE]
    /\ UNCHANGED <<file, store, runVars>>

RunStep(r) ==
    \/ Start(r) \/ ReadLine(r) \/ LeaveLoop(r)
    \/ NothingToFlush(r) \/ ScoreBatch(r) \/ ScoringFails(r)
    \/ Persist(r) \/ PersistRolledBack(r) \/ PersistReplyLost(r)
    \/ Close(r)

Next ==
    \/ \E r \in Runs : RunStep(r) \/ Crash(r)
    \/ \E i \in Imports : RequestCancellation(i)

Spec == Init /\ [][Next]_vars

\* A started run is scheduled until it ends.
FairSpec == Spec /\ \A r \in Runs : WF_vars(RunStep(r))

-----------------------------------------------------------------------------
(***************************************************************************)
(* Properties.                                                             *)
(***************************************************************************)
\* A completed import lost nothing: every valid line's key is in the transaction
\* table and every bad line has a rejected record, for each line a run has behind
\* it; a run that ends normally has all it read behind it.
NoRecordLost ==
    \A r \in Runs :
        /\ \A n \in 1..flushed[r] :
             /\ Line(r, n) \in Keys => owner[Line(r, n)] # None
             /\ Line(r, n) = Bad => rejectedRows[importOf[r]][n] > 0
        /\ pc[r] = "completed" => flushed[r] = Len(file[importOf[r]])
        /\ pc[r] = "cancelled" => flushed[r] = line[r]

\* acceptedCount is the number of transactions the import owns, across retries,
\* crashes, second runs and other imports with the same keys.
AcceptedIsOwned ==
    \A i \in Imports : accepted[i] = Cardinality({k \in Keys : owner[k] = i})

\* The four counters agree: each processed line was accepted, a duplicate or
\* rejected.
CountersAddUp ==
    \A i \in Imports : processed[i] = accepted[i] + duplicates[i] + rejected[i]

\* The counters are true to the table and to each other.
CountersAgree == AcceptedIsOwned /\ CountersAddUp

\* A batch in memory never grows beyond BATCH_SIZE lines.
BatchBounded == \A r \in Runs : Cardinality(Pending(r)) <= BATCH_SIZE

\* The whole is a RecordStore: the import that stored a key first keeps it.
RS == INSTANCE RecordStore WITH Size <- Cardinality
StoreSpec == RS!Spec

\* A run that started ends: the file is finite and so are the retries.
EveryRunEnds == \A r \in Runs : pc[r] = "reading" ~> pc[r] \in Ended
=============================================================================
