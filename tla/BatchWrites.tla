----------------------------- MODULE BatchWrites -----------------------------
(***************************************************************************)
(* The transactions of the database at the level of their statements and   *)
(* the row locks these take: persistBatch of several workers, retried by   *)
(* the policy of RetryPolicy, next to cancel requests and sweeps, which    *)
(* are not retried.                                                        *)
(*                                                                         *)
(* A transaction works through its statements, each a set of rows to lock  *)
(* in the order the database likes; an INSERT's rows come one by one.  The *)
(* locks are kept until it ends.  Single-statement transactions (updateBoth,*)
(* releaseLease, claims, heartbeats) hold nothing while they wait and are  *)
(* left out, and so is the FOR KEY SHARE lock of the foreign keys, which   *)
(* the updates here do not conflict with.                                  *)
(***************************************************************************)
EXTENDS RetryPolicy, FiniteSets

CONSTANTS
    Imports, Keys, None,
    Writers,     \* the flushes that are persisted at the same time
    ImportOf,    \* the import of each
    Batches,     \* the scored batches there are: their keys in the file's order
    Unstorable,  \* the keys whose row PostgreSQL refuses: numeric overflow, NUL
    Cancels,     \* the imports clients cancel
    Sweeps,      \* the sweeps
    Expired,     \* the imports whose jobs' leases they found expired
    Hazards      \* "error": a statement fails; "reply": a commit's reply is lost

KeyRow(k)    == <<"transaction", k>>
ImportRow(i) == <<"import", i>>
JobRow(i)    == <<"job", i>>
Rows == {KeyRow(k) : k \in Keys} \cup {ImportRow(i) : i \in Imports}
            \cup {JobRow(i) : i \in Imports}

CancelTx(i) == <<"cancel", i>>
Others == {CancelTx(i) : i \in Cancels} \cup Sweeps
Txs    == Writers \cup Others

ASSUME WritesAssumption ==
    /\ IsFiniteSet(Keys)
    /\ None \notin Imports \cup Rows
    /\ Writers \cap Others = {}
    /\ ImportOf \in [Writers -> Imports]
    /\ Batches \subseteq Seq(Keys)
    /\ Unstorable \subseteq Keys
    /\ Cancels \cup Expired \subseteq Imports
    /\ Hazards \subseteq {"error", "reply"}

VARIABLES
    batch,    \* of each writer
    owner,    \* transactions: the import of each (provider, transactionId)
    accepted, \* imports.acceptedCount
    outcome,  \* of each transaction: "ready", "open", "done" or "failed"
    attempt,  \* the policy's, for writers
    plan,     \* the statements to come, each with the rows it has yet to lock
    held,     \* the row locks of each
    waits     \* the row it waits for

storeVars == <<owner, accepted>>
vars      == <<batch, storeVars, outcome, attempt, plan, held, waits>>

TypeOK ==
    /\ batch \in [Writers -> Batches]
    /\ owner \in [Keys -> Imports \cup {None}]
    /\ accepted \in [Imports -> Nat]
    /\ outcome \in [Txs -> {"ready", "open", "done", "failed"}]
    /\ attempt \in [Txs -> 0..MAX_ATTEMPTS]
    /\ plan \in [Txs -> Seq(SUBSET Rows)]
    /\ held \in [Txs -> SUBSET Rows]
    /\ waits \in [Txs -> Rows \cup {None}]

Init ==
    /\ batch \in [Writers -> Batches]
    /\ owner = [k \in Keys |-> None]
    /\ accepted = [i \in Imports |-> 0]
    /\ outcome = [t \in Txs |-> "ready"]
    /\ attempt = [t \in Txs |-> 0]
    /\ plan = [t \in Txs |-> <<>>]
    /\ held = [t \in Txs |-> {}]
    /\ waits = [t \in Txs |-> None]

-----------------------------------------------------------------------------
(***************************************************************************)
(* The statements of each transaction.                                     *)
(***************************************************************************)
InsertOf(w) == [n \in DOMAIN batch[w] |-> {KeyRow(batch[w][n])}]

\* Mutant: the batch also touches its job, say with the heartbeat in it.
PersistAndHeartbeat(w) ==
    InsertOf(w) \o <<{ImportRow(ImportOf[w])}, {JobRow(ImportOf[w])}>>

PersistStatements(w) == InsertOf(w) \o <<{ImportRow(ImportOf[w])}>>

CancelStatements(i) == <<{ImportRow(i)}, {JobRow(i)}>>

\* A statement is run for the rows there are, if any.
Statement(rows) == IF rows = {} THEN <<>> ELSE <<rows>>

\* toFail, then toReset; of the latter only the imports still PROCESSING.
SweepStatements(fail, reset, processing) ==
    Statement({JobRow(i) : i \in fail}) \o Statement({ImportRow(i) : i \in fail})
        \o Statement({JobRow(i) : i \in reset}) \o Statement({ImportRow(i) : i \in processing})

StatementsOf(t) ==
    IF t \in Writers THEN {PersistStatements(t)}
    ELSE IF t \in Sweeps
    THEN UNION {{SweepStatements(Expired \ reset, reset, processing) :
                   processing \in SUBSET reset} : reset \in SUBSET Expired}
    ELSE {CancelStatements(i) : i \in {j \in Cancels : t = CancelTx(j)}}

-----------------------------------------------------------------------------
(***************************************************************************)
(* The database.                                                           *)
(***************************************************************************)
Running(t) == outcome[t] = "open" /\ waits[t] = None

HeldByAnother(t, row) == \E u \in Txs \ {t} : row \in held[u]

Stored(row) == \E k \in Keys : row = KeyRow(k) /\ owner[k] # None

Refused(row) == \E k \in Unstorable : row = KeyRow(k)

\* ON CONFLICT DO NOTHING: a committed row, or the batch's own, is passed over.
Skips(t, row) == Stored(row) \/ row \in held[t]

\* What is left of the statements without the row just dealt with.
Without(t, row) ==
    [plan EXCEPT ![t] = Statement(Head(@) \ {row}) \o Tail(@)]

\* Mutant: the attempts are not counted.
BeginUncounted(t) ==
    /\ outcome[t] = "ready"
    /\ \E statements \in StatementsOf(t) : plan' = [plan EXCEPT ![t] = statements]
    /\ outcome' = [outcome EXCEPT ![t] = "open"]
    /\ UNCHANGED <<batch, storeVars, attempt, held, waits>>

Begin(t) ==
    /\ outcome[t] = "ready"
    /\ \E statements \in StatementsOf(t) : plan' = [plan EXCEPT ![t] = statements]
    /\ outcome' = [outcome EXCEPT ![t] = "open"]
    /\ attempt' = [attempt EXCEPT ![t] = @ + 1]
    /\ UNCHANGED <<batch, storeVars, held, waits>>

Lock(t) ==
    /\ Running(t) /\ plan[t] # <<>>
    /\ \E row \in Head(plan[t]) :
          /\ ~Skips(t, row) /\ ~Refused(row) /\ ~HeldByAnother(t, row)
          /\ held' = [held EXCEPT ![t] = @ \cup {row}]
          /\ plan' = Without(t, row)
    /\ UNCHANGED <<batch, storeVars, outcome, attempt, waits>>

SkipConflict(t) ==
    /\ Running(t) /\ plan[t] # <<>>
    /\ \E row \in Head(plan[t]) : Skips(t, row) /\ plan' = Without(t, row)
    /\ UNCHANGED <<batch, storeVars, outcome, attempt, held, waits>>

Wait(t) ==
    /\ Running(t) /\ plan[t] # <<>>
    /\ \E row \in Head(plan[t]) :
          /\ ~Skips(t, row) /\ ~Refused(row) /\ HeldByAnother(t, row)
          /\ waits' = [waits EXCEPT ![t] = row]
    /\ UNCHANGED <<batch, storeVars, outcome, attempt, plan, held>>

\* The holder has ended; the row is looked at again.
Wake(t) ==
    /\ waits[t] # None /\ ~HeldByAnother(t, waits[t])
    /\ waits' = [waits EXCEPT ![t] = None]
    /\ UNCHANGED <<batch, storeVars, outcome, attempt, plan, held>>

\* The transaction is over and `t`'s promise resolved or rejected.
End(t, how) ==
    /\ outcome' = [outcome EXCEPT ![t] = how]
    /\ held' = [held EXCEPT ![t] = {}]
    /\ plan' = [plan EXCEPT ![t] = <<>>]
    /\ waits' = [waits EXCEPT ![t] = None]
    /\ UNCHANGED <<batch, attempt>>

\* The error an SQLSTATE becomes: Prisma's own code, and the driver's below it
\* when it is a `cause` and not hidden under `meta`.
Chains(sqlstate) == {<<{"P2010"}, {sqlstate}>>, <<{"P2010"}>>}

\* The repository wraps it; only persistBatch is called through the policy.
Reject(t, sqlstate) ==
    \E chain \in Chains(sqlstate) :
        End(t, IF t \in Writers /\ Retries(WrapDatabaseError(chain), attempt[t])
                 THEN "ready" ELSE "failed")

\* numeric_value_out_of_range
RefuseRow(t) ==
    /\ Running(t) /\ plan[t] # <<>>
    /\ \E row \in Head(plan[t]) : Refused(row)
    /\ Reject(t, "22003")
    /\ UNCHANGED storeVars

StatementFails(t) ==
    /\ "error" \in Hazards
    /\ outcome[t] = "open"
    /\ Reject(t, "08006")
    /\ UNCHANGED storeVars

Waiting == {t \in Txs : waits[t] # None}

\* Those that wait for each other's rows in a circle.
Deadlocked(ts) == ts = {u \in Txs : \E t \in ts : waits[t] \in held[u]}

\* PostgreSQL fails one of them, whichever notices.
BreakDeadlock(t) ==
    /\ \E ts \in SUBSET Waiting : t \in ts /\ Deadlocked(ts)
    /\ Reject(t, "40P01")
    /\ UNCHANGED storeVars

NewKeys(t) == {k \in Keys : KeyRow(k) \in held[t]}

\* Mutant: insertedCount is the length of the batch.
InsertedCountOfBatch(t) == Len(batch[t])

InsertedCount(t) == Cardinality(NewKeys(t))

CommitRows(t) ==
    IF t \in Writers
      THEN /\ owner' = [k \in Keys |-> IF k \in NewKeys(t) THEN ImportOf[t] ELSE owner[k]]
           /\ accepted' = [accepted EXCEPT ![ImportOf[t]] = @ + InsertedCount(t)]
      ELSE UNCHANGED storeVars

Commit(t) ==
    /\ Running(t) /\ plan[t] = <<>>
    /\ CommitRows(t)
    /\ End(t, "done")

CommitReplyLost(t) ==
    /\ "reply" \in Hazards
    /\ Running(t) /\ plan[t] = <<>>
    /\ CommitRows(t)
    /\ Reject(t, "08006")

-----------------------------------------------------------------------------
Step(t) ==
    \/ Begin(t) \/ Lock(t) \/ SkipConflict(t) \/ Wait(t) \/ Wake(t)
    \/ RefuseRow(t) \/ BreakDeadlock(t) \/ Commit(t)

Next == \E t \in Txs : Step(t) \/ StatementFails(t) \/ CommitReplyLost(t)

Spec == Init /\ [][Next]_vars

\* While there is a statement to run, a deadlock to break or a retry whose delay is
\* over, one of them happens: no transaction need be favoured.
FairSpec == Spec /\ WF_vars(\E t \in Txs : Step(t))

-----------------------------------------------------------------------------
(***************************************************************************)
(* Properties.                                                             *)
(***************************************************************************)
\* A batch never deadlocks with a cancel request or a sweep, which nobody would try
\* again: one of these that waits for a batch waits for its last lock, so for its commit.
OthersWaitForCommits ==
    \A t \in Others : \A w \in Writers :
        waits[t] \in held[w] => waits[w] = None

\* A batch the database could store is given up, and its import failed, only when every
\* attempt has met a deadlock, a broken connection or a lost reply, however Prisma wraps
\* what the database said.
TransientFailuresAreRetried ==
    \A w \in Writers :
        /\ outcome[w] = "failed"
        /\ \A n \in DOMAIN batch[w] : batch[w][n] \notin Unstorable
        => attempt[w] = MAX_ATTEMPTS

\* Row locks taken in opposite orders, lost replies and rows that can never be stored
\* notwithstanding, every transaction ends and every flush is resolved or rejected.
EveryTransactionEnds == \A t \in Txs : <>(outcome[t] \in {"done", "failed"})

\* The unique index with its waiting inserts, the rollbacks and the repeated commits
\* keep what the store promises: one import for each record, and a counter that
\* counts the rows it owns.
Store == INSTANCE RecordStore WITH Size <- Cardinality
StoreSpec == Store!Spec
=============================================================================
