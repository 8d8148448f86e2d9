---------------------------- MODULE ImportReports ----------------------------
(***************************************************************************)
(* The reports a client reads while an import is written: its status, the  *)
(* pages of its rejected records (RejectedPages) and its summary, which is *)
(* five queries sent together without a transaction.  persistBatch commits *)
(* between any two of them.                                                *)
(*                                                                         *)
(* The summary's amounts and timestamps are aggregates over the same rows  *)
(* as its counts; the counts stand for them.  Writes after the end of an   *)
(* import are left to JobQueue (EndedImportsAreStill).                     *)
(***************************************************************************)
EXTENDS RejectedPages

CONSTANTS
    Transactions,        \* the transactions that name the import's records
    Currency, RiskLevel, Merchant,  \* of each of them
    TOP_MERCHANTS_LIMIT

ASSUME ReportsAssumption ==
    /\ IsFiniteSet(Transactions)
    /\ DOMAIN Currency = Transactions /\ DOMAIN RiskLevel = Transactions
    /\ DOMAIN Merchant = Transactions
    /\ TOP_MERCHANTS_LIMIT \in Nat \ {0}

VARIABLES
    stored,     \* transactions of the import
    counters,   \* acceptedCount and rejectedCount of its row
    ended,      \* its status is terminal
    informed,   \* the clients that have read a terminal status
    toRead,     \* of each client's summary, the queries not answered yet
    summary,    \* the answers
    settled     \* what each client began knowing that the import had ended

writerVars  == <<rows, stored, counters, ended>>
reportVars  == <<informed, toRead, summary, settled>>
allVars     == <<vars, stored, counters, ended, reportVars>>

Queries == {"import", "overall", "byCurrency", "byRiskLevel", "topMerchants"}

ReportsInit ==
    /\ Init
    /\ stored = {}
    /\ counters = [accepted |-> 0, rejected |-> 0]
    /\ ended = FALSE
    /\ informed = {}
    /\ toRead = [c \in Clients |-> {}]
    /\ summary = [c \in Clients |-> [q \in {} |-> 0]]
    /\ settled = [c \in Clients |-> {}]

-----------------------------------------------------------------------------
(***************************************************************************)
(* The worker.                                                             *)
(***************************************************************************)
\* A batch with its counters; transactions stored before, by this import's earlier
\* attempts, insert nothing.
CommitBatch(scored, S) ==
    /\ ~ended
    /\ InsertRows(S)
    /\ stored' = stored \cup scored
    /\ counters' = [accepted |-> counters.accepted + Cardinality(scored \ stored),
                    rejected |-> counters.rejected + Cardinality(S)]
    /\ UNCHANGED <<ended, reportVars>>

EndImport ==
    /\ ~ended
    /\ ended' = TRUE
    /\ UNCHANGED <<vars, stored, counters, reportVars>>

-----------------------------------------------------------------------------
(***************************************************************************)
(* The clients.                                                            *)
(***************************************************************************)
\* GET /v1/imports/:id with a terminal status in the answer.
ReadStatus(c) ==
    /\ ended /\ c \notin informed
    /\ informed' = informed \cup {c}
    /\ UNCHANGED <<vars, stored, counters, ended, toRead, summary, settled>>

Begins(c, what) ==
    settled' = [settled EXCEPT ![c] = IF c \in informed THEN @ \cup {what} ELSE @ \ {what}]

\* Another page of the rejections, or the first.
NextPage(c) ==
    /\ Request(c)
    /\ IF state[c] = "idle" THEN Begins(c, "pages") ELSE UNCHANGED settled
    /\ UNCHANGED <<stored, counters, ended, informed, toRead, summary>>

\* GET /v1/imports/:id/summary, as often as a client likes.
AskSummary(c) ==
    /\ toRead[c] = {}
    /\ toRead' = [toRead EXCEPT ![c] = Queries]
    /\ summary' = [summary EXCEPT ![c] = [q \in {} |-> 0]]
    /\ Begins(c, "summary")
    /\ UNCHANGED <<vars, stored, counters, ended, informed>>

GroupBy(attribute) ==
    [value \in {attribute[t] : t \in stored} |->
        Cardinality({t \in stored : attribute[t] = value})]

\* Mutant: byCurrency with the `take` of topMerchants.
ByCurrencyLimited ==
    {[v \in S |-> GroupBy(Currency)[v]] :
        S \in {T \in SUBSET DOMAIN GroupBy(Currency) :
                 Cardinality(T) = IF Cardinality(DOMAIN GroupBy(Currency)) < TOP_MERCHANTS_LIMIT
                                    THEN Cardinality(DOMAIN GroupBy(Currency))
                                    ELSE TOP_MERCHANTS_LIMIT}}

ByCurrency == {GroupBy(Currency)}

ByRiskLevel == {GroupBy(RiskLevel)}

\* orderBy count desc, take: with equal counts the database decides.
TopMerchants ==
    LET groups == GroupBy(Merchant)
    IN  {[v \in S |-> groups[v]] :
           S \in {T \in SUBSET DOMAIN groups :
                    /\ Cardinality(T) <= TOP_MERCHANTS_LIMIT
                    /\ \A v \in DOMAIN groups \ T :
                          /\ Cardinality(T) = TOP_MERCHANTS_LIMIT
                          /\ \A u \in T : groups[u] >= groups[v]}}

Answers(q) ==
    CASE q = "import"       -> {counters}
      [] q = "overall"      -> {Cardinality(stored)}
      [] q = "byCurrency"   -> ByCurrency
      [] q = "byRiskLevel"  -> ByRiskLevel
      [] q = "topMerchants" -> TopMerchants

\* One of the queries of Promise.all is answered.
ReadPart(c, q) ==
    /\ q \in toRead[c]
    /\ \E answer \in Answers(q) :
          summary' = [summary EXCEPT ![c] =
                        [p \in DOMAIN @ \cup {q} |-> IF p = q THEN answer ELSE @[p]]]
    /\ toRead' = [toRead EXCEPT ![c] = @ \ {q}]
    /\ UNCHANGED <<vars, stored, counters, ended, informed, settled>>

Client(c) ==
    \/ ReadStatus(c) \/ NextPage(c) \/ AskSummary(c)
    \/ \E q \in Queries : ReadPart(c, q)

ReportsNext ==
    \/ \E scored \in SUBSET Transactions : \E S \in SUBSET (Ids \ rows) : CommitBatch(scored, S)
    \/ EndImport
    \/ \E c \in Clients : Client(c)

ReportsSpec == ReportsInit /\ [][ReportsNext]_allVars

-----------------------------------------------------------------------------
(***************************************************************************)
(* Properties.                                                             *)
(***************************************************************************)
Complete(c) == DOMAIN summary[c] = Queries

\* What a breakdown counts in all: the sum of its groups' counts, as the size of the
\* disjoint union of as many elements for each.
Sum(groups) == Cardinality(UNION {{v} \X (1..groups[v]) : v \in DOMAIN groups})

\* The parts of a summary are read one by one, yet a client that asks for it after it
\* has read a terminal status gets parts that agree: the accepted counter, the total
\* and each breakdown count the same rows, and no merchant with more is left out.
SettledSummaryAgrees ==
    \A c \in Clients : Complete(c) /\ "summary" \in settled[c] =>
        LET s == summary[c]
        IN  /\ s["overall"] = s["import"].accepted
            /\ s["overall"] = Sum(s["byCurrency"])
            /\ s["overall"] = Sum(s["byRiskLevel"])
            /\ \A v \in DOMAIN GroupBy(Merchant) \ DOMAIN s["topMerchants"] :
                  \A u \in DOMAIN s["topMerchants"] :
                     s["topMerchants"][u] >= GroupBy(Merchant)[v]

\* A client that pages through the rejections of an import it knows to be over is
\* given exactly as many as rejectedCount says, retried batches included; and while it
\* is given a nextCursor some are left for the next page, which is never empty.
SettledPagesAreAll ==
    \A c \in Clients : "pages" \in settled[c] =>
        /\ state[c] = "done" => received[c] = counters.rejected
        /\ state[c] = "paging" => received[c] < counters.rejected
=============================================================================
