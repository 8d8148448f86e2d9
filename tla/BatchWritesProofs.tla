-------------------------- MODULE BatchWritesProofs --------------------------
(***************************************************************************)
(* Proofs about BatchWrites for every number of flushes, batches, cancel   *)
(* requests and sweeps, whatever fails.                                    *)
(*                                                                         *)
(* A batch takes the locks of its transactions before the one of its       *)
(* import, and a cancel request or a sweep only locks imports and jobs: so *)
(* a batch that holds something one of these wants has nothing left to     *)
(* lock, and a batch that lost its locks starts over with none.            *)
(***************************************************************************)
EXTENDS BatchWrites, FiniteSetTheorems, SequenceTheorems, TLAPS

KeyRows   == {KeyRow(k) : k \in Keys}
OtherRows == {ImportRow(i) : i \in Imports} \cup {JobRow(i) : i \in Imports}

\* A batch's statements: rows of transactions, and the import's at the end.
BatchPlan(w, p) ==
    \A n \in 1..Len(p) :
        p[n] \subseteq (IF n = Len(p) THEN {ImportRow(ImportOf[w])} ELSE KeyRows)

WriterOK(w) ==
    /\ BatchPlan(w, plan[w])
    /\ plan[w] # <<>> => held[w] \subseteq KeyRows
    /\ waits[w] # None => plan[w] # <<>>

OtherOK(t) ==
    /\ \A n \in 1..Len(plan[t]) : plan[t][n] \subseteq OtherRows
    /\ held[t] \subseteq OtherRows
    /\ waits[t] \in OtherRows \cup {None}

\* A transaction that has not begun, or has ended, holds and waits for nothing.
IdleOK(t) ==
    /\ outcome[t] # "open" => held[t] = {} /\ plan[t] = <<>> /\ waits[t] = None
    /\ outcome[t] = "ready" => attempt[t] # MAX_ATTEMPTS

\* wrapDatabaseError calls every error retryable, the permanent ones too.
GivenUpAtLimit ==
    \A w \in Writers : outcome[w] = "failed" => attempt[w] = MAX_ATTEMPTS

WritesInv ==
    /\ TypeOK
    /\ \A t \in Txs : IdleOK(t)
    /\ \A w \in Writers : WriterOK(w)
    /\ \A t \in Others : OtherOK(t)
    /\ GivenUpAtLimit

\* A row is locked by one transaction, and a transaction's row that is locked is not
\* stored yet.
LocksOK ==
    /\ \A t, u \in Txs : t # u => held[t] \cap held[u] = {}
    /\ \A t \in Txs : \A k \in Keys : KeyRow(k) \in held[t] => owner[k] = None

-----------------------------------------------------------------------------
(***************************************************************************)
(* Statements and what is left of them.                                    *)
(***************************************************************************)

\* A transaction's row is neither an import's nor a job's.
LEMMA RowsApart ==
    /\ KeyRows \cap OtherRows = {}
    /\ KeyRows \subseteq Rows /\ OtherRows \subseteq Rows
    /\ \A i \in Imports : ImportRow(i) \in OtherRows
    /\ \A k, l \in Keys : KeyRow(k) = KeyRow(l) => k = l
BY DEF KeyRows, OtherRows, Rows, KeyRow, ImportRow, JobRow

\* A statement for no rows is not run.
LEMMA StatementRows ==
    ASSUME NEW S, NEW rows \in SUBSET S
    PROVE  /\ Statement(rows) \in Seq(SUBSET S)
           /\ rows = {} => Statement(rows) = <<>>
           /\ rows # {} => Statement(rows) = <<rows>>
<1>1. CASE rows = {}
  <2>1. Statement(rows) = <<>>
    BY <1>1 DEF Statement
  <2> QED
    BY <1>1, <2>1, EmptySeq
<1>2. CASE rows # {}
  <2>1. Statement(rows) = <<rows>>
    BY <1>2 DEF Statement
  <2>2. <<rows>> \in Seq(SUBSET S)
    OBVIOUS
  <2> QED
    BY <1>2, <2>1, <2>2
<1> QED
  BY <1>1, <1>2

\* A sequence with an element in front of it.
LEMMA InFront ==
    ASSUME NEW S, NEW x \in S, NEW s \in Seq(S)
    PROVE  /\ <<x>> \o s \in Seq(S) /\ Len(<<x>> \o s) = Len(s) + 1
           /\ (<<x>> \o s)[1] = x
           /\ \A n \in 1..Len(s) : (<<x>> \o s)[n + 1] = s[n]
OBVIOUS

\* The head and the tail of a sequence.
LEMMA HeadAndTail ==
    ASSUME NEW S, NEW p \in Seq(S), p # <<>>
    PROVE  /\ Head(p) = p[1] /\ p[1] \in S
           /\ Len(p) \in Nat \ {0}
           /\ Tail(p) \in Seq(S) /\ Len(Tail(p)) = Len(p) - 1
           /\ \A n \in 1..(Len(p) - 1) : Tail(p)[n] = p[n + 1]
           /\ Len(p) = 1 => Tail(p) = <<>>
<1>1. /\ Head(p) = p[1] /\ p[1] \in S
      /\ Len(p) \in Nat \ {0}
      /\ Tail(p) \in Seq(S) /\ Len(Tail(p)) = Len(p) - 1
      /\ \A n \in 1..(Len(p) - 1) : Tail(p)[n] = p[n + 1]
  OBVIOUS
<1>2. Tail(p) # <<>> => Len(Tail(p)) # 0
  BY <1>1, EmptySeq
<1> QED
  BY <1>1, <1>2

\* q is p without its first element, or with a part of it only.
Shorter(q, p) ==
    \/ Len(q) = Len(p) - 1 /\ \A n \in 1..Len(q) : q[n] = p[n + 1]
    \/ Len(q) = Len(p) /\ \A n \in 1..Len(q) : q[n] \subseteq p[n]

\* Without a row, a plan loses its first statement or that row of it.
LEMMA PlanWithout ==
    ASSUME NEW p \in Seq(SUBSET Rows), p # <<>>, NEW row
    PROVE  LET q == Statement(Head(p) \ {row}) \o Tail(p)
           IN  /\ q \in Seq(SUBSET Rows)
               /\ Shorter(q, p)
               /\ Len(p) = 1 /\ p[1] \subseteq {row} => q = <<>>
<1> DEFINE rest == Head(p) \ {row}
           left == Tail(p)
           q    == Statement(rest) \o left
           L    == Len(p)
<1>1. /\ rest \subseteq p[1] /\ rest \in SUBSET Rows
      /\ p[1] \subseteq {row} => rest = {}
  BY HeadAndTail
<1>2. /\ L \in Nat \ {0}
      /\ left \in Seq(SUBSET Rows) /\ Len(left) = L - 1
      /\ \A n \in 1..(L - 1) : left[n] = p[n + 1]
      /\ L = 1 => left = <<>>
  BY HeadAndTail, Zenon
<1> HIDE DEF rest, left, L
<1>3. CASE rest = {}
  <2>1. q = left
    BY <1>2, <1>3, <1>1, StatementRows, ConcatEmptySeq
  <2>2. Shorter(left, p)
    BY <1>2 DEF Shorter, L
  <2> QED
    BY <1>2, <2>1, <2>2 DEF rest, left, L
<1>4. CASE rest # {}
  <2>1. q = <<rest>> \o left
    BY <1>1, <1>4, StatementRows
  <2>2. /\ q \in Seq(SUBSET Rows) /\ Len(q) = Len(left) + 1
        /\ q[1] = rest
        /\ \A n \in 1..Len(left) : q[n + 1] = left[n]
    BY <1>1, <1>2, <2>1, InFront
  <2> HIDE DEF q
  <2>3. Len(q) = L
    BY <1>2, <2>2
  <2>4. ASSUME NEW n \in 1..L PROVE q[n] \subseteq p[n]
    <3>1. CASE n = 1
      BY <1>1, <2>2, <3>1
    <3>2. CASE n # 1
      <4>1. n - 1 \in 1..(L - 1) /\ (n - 1) + 1 = n
        BY <1>2, <3>2
      <4>2. q[n] = left[n - 1] /\ left[n - 1] = p[n]
        BY <1>2, <2>2, <4>1
      <4> QED
        BY <4>2
    <3> QED
      BY <3>1, <3>2
  <2>5. Shorter(q, p)
    BY <2>3, <2>4 DEF Shorter, L
  <2>6. ~(p[1] \subseteq {row})
    BY <1>1, <1>4
  <2> QED
    BY <2>2, <2>5, <2>6 DEF q, rest, left
<1> QED
  BY <1>3, <1>4

\* A shorter plan locks in the same order, and nothing else.
LEMMA ShorterPlan ==
    ASSUME NEW p \in Seq(SUBSET Rows), NEW q \in Seq(SUBSET Rows), Shorter(q, p)
    PROVE  /\ \A w : BatchPlan(w, p) => BatchPlan(w, q)
           /\ \A S : (\A n \in 1..Len(p) : p[n] \subseteq S)
                        => \A n \in 1..Len(q) : q[n] \subseteq S
<1>1. Len(p) \in Nat /\ Len(q) \in Nat
  OBVIOUS
<1>2. CASE Len(q) = Len(p) - 1 /\ \A n \in 1..Len(q) : q[n] = p[n + 1]
  <2>1. \A n \in 1..Len(q) : n + 1 \in 1..Len(p) /\ (n + 1 = Len(p) <=> n = Len(q))
    BY <1>1, <1>2
  <2>2. ASSUME NEW w, BatchPlan(w, p) PROVE BatchPlan(w, q)
    BY <1>2, <2>1, <2>2, Zenon DEF BatchPlan
  <2> QED
    BY <1>2, <2>1, <2>2, Zenon
<1>3. CASE Len(q) = Len(p) /\ \A n \in 1..Len(q) : q[n] \subseteq p[n]
  <2>1. ASSUME NEW w, BatchPlan(w, p) PROVE BatchPlan(w, q)
    BY <1>3, <2>1, Zenon DEF BatchPlan
  <2> QED
    BY <1>3, <2>1, Zenon
<1> QED
  BY <1>2, <1>3 DEF Shorter

\* A batch's statements: its rows one by one, and the import's.
LEMMA PersistPlan ==
    ASSUME TypeOK, NEW w \in Writers
    PROVE  /\ PersistStatements(w) \in Seq(SUBSET Rows) \ {<<>>}
           /\ BatchPlan(w, PersistStatements(w))
<1> DEFINE s == PersistStatements(w)
           I == ImportRow(ImportOf[w])
<1>1. batch[w] \in Seq(Keys) /\ ImportOf[w] \in Imports
  BY WritesAssumption DEF TypeOK
<1>2. /\ InsertOf(w) \in Seq(SUBSET KeyRows) /\ Len(InsertOf(w)) = Len(batch[w])
      /\ \A n \in 1..Len(batch[w]) : InsertOf(w)[n] = {KeyRow(batch[w][n])}
  BY <1>1 DEF InsertOf, KeyRows
<1>3. I \in Rows /\ KeyRows \subseteq Rows
  BY <1>1, RowsApart
<1> HIDE DEF I
<1>4. s = InsertOf(w) \o <<{I}>>
  BY DEF PersistStatements, I
<1> HIDE DEF s
<1>5. InsertOf(w) \in Seq(SUBSET Rows) /\ <<{I}>> \in Seq(SUBSET Rows)
  BY <1>2, <1>3
<1>6. /\ s \in Seq(SUBSET Rows) /\ Len(s) = Len(InsertOf(w)) + 1 /\ s[Len(s)] = {I}
      /\ \A n \in 1..(Len(s) - 1) : s[n] = InsertOf(w)[n]
  BY <1>4, <1>5
<1>7. \A n \in 1..(Len(s) - 1) : s[n] \in SUBSET KeyRows
  BY <1>2, <1>6
<1>8. \A n \in 1..Len(s) : s[n] \subseteq (IF n = Len(s) THEN {I} ELSE KeyRows)
  BY <1>6, <1>7
<1>9. s # <<>>
  BY <1>6, EmptySeq
<1> QED
  BY <1>6, <1>8, <1>9 DEF s, I, BatchPlan

\* A cancel request and a sweep lock imports and jobs.
LEMMA OtherPlan ==
    ASSUME NEW t \in Others, NEW s \in StatementsOf(t)
    PROVE  s \in Seq(SUBSET OtherRows)
<1>1. t \notin Writers
  BY WritesAssumption
<1>2. CASE t \in Sweeps
  <2>1. PICK reset \in SUBSET Expired, processing \in SUBSET Expired :
           s = SweepStatements(Expired \ reset, reset, processing)
    BY <1>1, <1>2 DEF StatementsOf
  <2>2. \A is \in SUBSET Expired : /\ {JobRow(i) : i \in is} \in SUBSET OtherRows
                                   /\ {ImportRow(i) : i \in is} \in SUBSET OtherRows
    BY WritesAssumption DEF OtherRows
  <2>3. \A is \in SUBSET Expired :
           /\ Statement({JobRow(i) : i \in is}) \in Seq(SUBSET OtherRows)
           /\ Statement({ImportRow(i) : i \in is}) \in Seq(SUBSET OtherRows)
    BY <2>2, StatementRows
  <2>4. Expired \ reset \in SUBSET Expired
    OBVIOUS
  <2>5. ASSUME NEW a \in Seq(SUBSET OtherRows), NEW b \in Seq(SUBSET OtherRows),
               NEW c \in Seq(SUBSET OtherRows), NEW d \in Seq(SUBSET OtherRows)
        PROVE  a \o b \o c \o d \in Seq(SUBSET OtherRows)
    OBVIOUS
  <2> QED
    BY <2>1, <2>3, <2>4, <2>5 DEF SweepStatements
<1>3. CASE t \notin Sweeps
  <2>1. PICK i \in Cancels : s = CancelStatements(i)
    BY <1>1, <1>3 DEF StatementsOf
  <2>2. {ImportRow(i)} \in SUBSET OtherRows /\ {JobRow(i)} \in SUBSET OtherRows
    BY WritesAssumption DEF OtherRows
  <2> QED
    BY <2>1, <2>2 DEF CancelStatements
<1> QED
  BY <1>2, <1>3

-----------------------------------------------------------------------------
(***************************************************************************)
(* The invariant.                                                          *)
(***************************************************************************)

LEMMA InitWrites == Init => WritesInv
<1> SUFFICES ASSUME Init PROVE WritesInv
  OBVIOUS
<1>1. \A t \in Txs : plan[t] = <<>> /\ held[t] = {} /\ waits[t] = None
                     /\ outcome[t] = "ready" /\ attempt[t] = 0
  BY DEF Init
<1>2. TypeOK
  <2>1. <<>> \in Seq(SUBSET Rows)
    BY EmptySeq
  <2> QED
    BY <2>1, RetryAssumption DEF Init, TypeOK
<1>3. 0 # MAX_ATTEMPTS /\ Len(<<>>) = 0
  BY RetryAssumption
<1>4. \A t \in Txs : IdleOK(t)
  BY <1>1, <1>3 DEF IdleOK
<1>5. \A w \in Writers : WriterOK(w)
  BY <1>1, <1>3 DEF WriterOK, BatchPlan, Txs
<1>6. \A t \in Others : OtherOK(t)
  BY <1>1, <1>3 DEF OtherOK, Txs
<1>7. GivenUpAtLimit
  BY <1>1 DEF GivenUpAtLimit, Txs
<1> QED
  BY <1>2, <1>4, <1>5, <1>6, <1>7 DEF WritesInv

\* What every step but a Begin and one that deals with a row may do: a transaction ends.
LEMMA EndStep ==
    ASSUME WritesInv, NEW t \in Txs, NEW how \in {"ready", "done", "failed"}, End(t, how),
           how = "ready" => attempt[t] # MAX_ATTEMPTS,
           how = "failed" /\ t \in Writers => attempt[t] = MAX_ATTEMPTS,
           owner' \in [Keys -> Imports \cup {None}], accepted' \in [Imports -> Nat]
    PROVE  WritesInv'
<1> USE DEF WritesInv
<1>1. <<>> \in Seq(SUBSET Rows) /\ Len(<<>>) = 0
  BY EmptySeq
<1>2. TypeOK'
  BY <1>1 DEF TypeOK, End
<1>3. /\ outcome'[t] = how /\ held'[t] = {} /\ plan'[t] = <<>> /\ waits'[t] = None
      /\ \A u \in Txs \ {t} : /\ outcome'[u] = outcome[u] /\ held'[u] = held[u]
                              /\ plan'[u] = plan[u] /\ waits'[u] = waits[u]
      /\ attempt' = attempt
  BY DEF TypeOK, End
<1>4. ASSUME NEW u \in Txs PROVE IdleOK(u)'
  BY <1>3 DEF IdleOK
<1>5. ASSUME NEW w \in Writers PROVE WriterOK(w)'
  <2>1. w \in Txs
    BY DEF Txs
  <2> QED
    BY <1>1, <1>3, <2>1 DEF WriterOK, BatchPlan
<1>6. ASSUME NEW u \in Others PROVE OtherOK(u)'
  <2>1. u \in Txs
    BY DEF Txs
  <2> QED
    BY <1>1, <1>3, <2>1 DEF OtherOK
<1>7. GivenUpAtLimit'
  BY <1>3 DEF GivenUpAtLimit, Txs
<1> QED
  BY <1>2, <1>4, <1>5, <1>6, <1>7

\* An error of the database gives a batch up only at its last attempt.
LEMMA RejectEnds ==
    ASSUME NEW t \in Txs, NEW sqlstate, Reject(t, sqlstate)
    PROVE  \E how \in {"ready", "failed"} :
              /\ End(t, how)
              /\ how = "ready" => attempt[t] # MAX_ATTEMPTS
              /\ how = "failed" /\ t \in Writers => attempt[t] = MAX_ATTEMPTS
<1>1. PICK chain \in Chains(sqlstate) :
         End(t, IF t \in Writers /\ Retries(WrapDatabaseError(chain), attempt[t])
                  THEN "ready" ELSE "failed")
  BY DEF Reject
<1>2. Retries(WrapDatabaseError(chain), attempt[t]) <=> attempt[t] # MAX_ATTEMPTS
  BY DEF Retries, IsRetryable, WrapDatabaseError, DomainError
<1> QED
  BY <1>1, <1>2

\* A row of a transaction is dealt with, locked or not.
LEMMA RowStep ==
    ASSUME WritesInv, NEW t \in Txs, Running(t), plan[t] # <<>>, NEW row \in Head(plan[t]),
           plan' = Without(t, row),
           held' = [held EXCEPT ![t] = @ \cup {row}] \/ held' = held,
           UNCHANGED <<batch, storeVars, outcome, attempt, waits>>
    PROVE  WritesInv'
<1> USE DEF WritesInv
<1> DEFINE p == plan[t]
           q == Statement(Head(p) \ {row}) \o Tail(p)
<1>1. /\ p \in Seq(SUBSET Rows) /\ Len(p) \in Nat \ {0}
      /\ Head(p) = p[1] /\ p[1] \in SUBSET Rows /\ row \in p[1]
  BY HeadAndTail DEF TypeOK
<1>2. /\ q \in Seq(SUBSET Rows) /\ Shorter(q, p)
      /\ Len(p) = 1 /\ p[1] \subseteq {row} => q = <<>>
  BY <1>1, PlanWithout
<1>3. plan' = [plan EXCEPT ![t] = q]
  BY DEF Without
<1> HIDE DEF q
<1>5. row \in Rows
  BY <1>1
<1>6. TypeOK'
  <2>1. TypeOK /\ plan' \in [Txs -> Seq(SUBSET Rows)]
    BY <1>2, <1>3 DEF TypeOK
  <2>2. held' \in [Txs -> SUBSET Rows]
    <3>1. held \in [Txs -> SUBSET Rows]
      BY DEF TypeOK
    <3>2. [held EXCEPT ![t] = @ \cup {row}] \in [Txs -> SUBSET Rows]
      BY <1>5, <3>1
    <3> QED
      BY <3>1, <3>2, Zenon
  <2> QED
    BY <2>1, <2>2 DEF TypeOK, storeVars
<1>7. /\ plan'[t] = q /\ held'[t] \subseteq held[t] \cup {row} /\ waits'[t] = None
      /\ \A u \in Txs \ {t} : plan'[u] = plan[u] /\ held'[u] = held[u]
      /\ outcome' = outcome /\ attempt' = attempt /\ waits' = waits /\ outcome[t] = "open"
  BY <1>3 DEF TypeOK, Running
<1>8. ASSUME NEW u \in Txs PROVE IdleOK(u)'
  BY <1>7 DEF IdleOK
<1>9. ASSUME NEW w \in Writers PROVE WriterOK(w)'
  <2>1. w \in Txs /\ WriterOK(w)
    BY DEF Txs
  <2>2. CASE w # t
    BY <1>7, <2>1, <2>2 DEF WriterOK, BatchPlan
  <2>3. CASE w = t
    <3>1. BatchPlan(w, p) /\ held[w] \subseteq KeyRows
      BY <2>1, <2>3 DEF WriterOK
    <3>2. BatchPlan(w, q)
      BY <1>1, <1>2, <3>1, ShorterPlan
    <3>3. q # <<>> => row \in KeyRows
      <4>1. CASE Len(p) = 1
        <5>1. p[1] \subseteq {ImportRow(ImportOf[w])}
          BY <3>1, <4>1 DEF BatchPlan
        <5>2. p[1] \subseteq {row}
          BY <1>1, <5>1
        <5> QED
          BY <1>2, <4>1, <5>2
      <4>2. CASE Len(p) # 1
        <5>1. 1 \in 1..Len(p)
          BY <1>1
        <5> QED
          BY <1>1, <3>1, <4>2, <5>1 DEF BatchPlan
      <4> QED
        BY <4>1, <4>2
    <3> QED
      BY <1>7, <2>3, <3>1, <3>2, <3>3 DEF WriterOK
  <2> QED
    BY <2>2, <2>3
<1>10. ASSUME NEW u \in Others PROVE OtherOK(u)'
  <2>1. u \in Txs /\ OtherOK(u)
    BY DEF Txs
  <2>2. CASE u # t
    BY <1>7, <2>1, <2>2 DEF OtherOK
  <2>3. CASE u = t
    <3>1. \A n \in 1..Len(p) : p[n] \subseteq OtherRows
      BY <2>1, <2>3 DEF OtherOK
    <3>2. \A n \in 1..Len(q) : q[n] \subseteq OtherRows
      BY <1>1, <1>2, <3>1, ShorterPlan
    <3>3. row \in OtherRows
      BY <1>1, <3>1
    <3> QED
      BY <1>7, <2>1, <2>3, <3>2, <3>3 DEF OtherOK
  <2> QED
    BY <2>2, <2>3
<1>11. GivenUpAtLimit'
  BY <1>7 DEF GivenUpAtLimit
<1> QED
  BY <1>6, <1>8, <1>9, <1>10, <1>11

\* A transaction begins, with nothing held from an earlier attempt.
LEMMA BeginStep ==
    ASSUME WritesInv, NEW t \in Txs, Begin(t)
    PROVE  WritesInv'
<1> USE DEF WritesInv
<1>1. PICK s \in StatementsOf(t) : plan' = [plan EXCEPT ![t] = s]
  BY DEF Begin
<1>2. t \in Writers => s \in Seq(SUBSET Rows) \ {<<>>} /\ BatchPlan(t, s)
  BY PersistPlan DEF StatementsOf
<1>3. t \in Others => s \in Seq(SUBSET OtherRows)
  BY OtherPlan
<1>4. s \in Seq(SUBSET Rows)
  <2>1. OtherRows \subseteq Rows
    BY RowsApart
  <2>2. t \in Others => s \in Seq(SUBSET Rows)
    BY <1>3, <2>1
  <2> QED
    BY <1>2, <2>2 DEF Txs
<1>5. /\ outcome[t] = "ready" /\ held[t] = {} /\ waits[t] = None
      /\ attempt[t] \in 0..MAX_ATTEMPTS /\ attempt[t] # MAX_ATTEMPTS
  BY DEF Begin, IdleOK, TypeOK
<1>6. attempt[t] + 1 \in 0..MAX_ATTEMPTS
  BY <1>5, RetryAssumption
<1>7. TypeOK'
  BY <1>1, <1>4, <1>6 DEF TypeOK, Begin, storeVars
<1>8. /\ plan'[t] = s /\ outcome'[t] = "open"
      /\ \A u \in Txs \ {t} : plan'[u] = plan[u] /\ outcome'[u] = outcome[u]
                              /\ attempt'[u] = attempt[u]
      /\ held' = held /\ waits' = waits
  BY <1>1 DEF TypeOK, Begin
<1>9. ASSUME NEW u \in Txs PROVE IdleOK(u)'
  BY <1>8 DEF IdleOK
<1>10. ASSUME NEW w \in Writers PROVE WriterOK(w)'
  <2>1. w \in Txs /\ WriterOK(w)
    BY DEF Txs
  <2>2. CASE w = t
    BY <1>2, <1>5, <1>8, <2>2 DEF WriterOK
  <2>3. CASE w # t
    BY <1>8, <2>1, <2>3 DEF WriterOK
  <2> QED
    BY <2>2, <2>3
<1>11. ASSUME NEW u \in Others PROVE OtherOK(u)'
  <2>1. u \in Txs /\ OtherOK(u)
    BY DEF Txs
  <2>2. CASE u = t
    <3>1. \A n \in 1..Len(s) : s[n] \subseteq OtherRows
      BY <1>3, <2>2
    <3> QED
      BY <1>8, <2>1, <2>2, <3>1 DEF OtherOK
  <2>3. CASE u # t
    BY <1>8, <2>1, <2>3 DEF OtherOK
  <2> QED
    BY <2>2, <2>3
<1>12. GivenUpAtLimit'
  BY <1>8 DEF GivenUpAtLimit, Txs
<1> QED
  BY <1>7, <1>9, <1>10, <1>11, <1>12

\* A transaction waits for a row of its next statement, or stops waiting.
LEMMA WaitStep ==
    ASSUME WritesInv, NEW t \in Txs, Wait(t) \/ Wake(t)
    PROVE  WritesInv'
<1> USE DEF WritesInv
<1>1. PICK row : /\ waits' = [waits EXCEPT ![t] = row]
                 /\ \/ row = None
                    \/ Running(t) /\ plan[t] # <<>> /\ row \in Head(plan[t])
  BY DEF Wait, Wake
<1>2. UNCHANGED <<batch, owner, accepted, outcome, attempt, plan, held>>
  BY DEF Wait, Wake, storeVars
<1>3. row # None => /\ outcome[t] = "open" /\ plan[t] # <<>> /\ 1 \in 1..Len(plan[t])
                    /\ row \in plan[t][1] /\ plan[t][1] \in SUBSET Rows
  BY <1>1, HeadAndTail DEF TypeOK, Running
<1>4. TypeOK'
  <2>1. row \in Rows \cup {None}
    BY <1>3
  <2> QED
    BY <1>1, <1>2, <2>1 DEF TypeOK
<1>5. waits'[t] = row /\ \A u \in Txs \ {t} : waits'[u] = waits[u]
  BY <1>1 DEF TypeOK
<1>6. ASSUME NEW u \in Txs PROVE IdleOK(u)'
  BY <1>2, <1>3, <1>5 DEF IdleOK
<1>7. ASSUME NEW w \in Writers PROVE WriterOK(w)'
  BY <1>2, <1>3, <1>5 DEF WriterOK, Txs
<1>8. ASSUME NEW u \in Others PROVE OtherOK(u)'
  BY <1>2, <1>3, <1>5 DEF OtherOK, Txs
<1>9. GivenUpAtLimit'
  BY <1>2 DEF GivenUpAtLimit
<1> QED
  BY <1>4, <1>6, <1>7, <1>8, <1>9

\* The rows a commit stores, and what it counts.
LEMMA CommitType ==
    ASSUME TypeOK, NEW t \in Txs, CommitRows(t)
    PROVE  owner' \in [Keys -> Imports \cup {None}] /\ accepted' \in [Imports -> Nat]
<1>1. CASE t \in Writers
  <2>1. ImportOf[t] \in Imports
    BY <1>1, WritesAssumption
  <2>2. InsertedCount(t) \in Nat
    <3>1. NewKeys(t) \subseteq Keys /\ IsFiniteSet(Keys)
      BY WritesAssumption DEF NewKeys
    <3> QED
      BY <3>1, FS_Subset, FS_CardinalityType DEF InsertedCount
  <2>3. owner' \in [Keys -> Imports \cup {None}]
    BY <1>1, <2>1 DEF CommitRows, TypeOK
  <2>4. accepted[ImportOf[t]] + InsertedCount(t) \in Nat
    BY <2>1, <2>2 DEF TypeOK
  <2> HIDE DEF InsertedCount
  <2>5. accepted' \in [Imports -> Nat]
    BY <1>1, <2>1, <2>4 DEF CommitRows, TypeOK
  <2> QED
    BY <2>3, <2>5
<1>2. CASE t \notin Writers
  BY <1>2 DEF CommitRows, TypeOK, storeVars
<1> QED
  BY <1>1, <1>2

\* The invariant, over every step.
LEMMA WritesStep == WritesInv /\ [Next]_vars => WritesInv'
<1> SUFFICES ASSUME WritesInv, [Next]_vars PROVE WritesInv'
  OBVIOUS
<1>0. TypeOK
  BY DEF WritesInv
<1>1. ASSUME NEW t \in Txs, Begin(t) PROVE WritesInv'
  BY <1>1, BeginStep
<1>2. ASSUME NEW t \in Txs, Lock(t) PROVE WritesInv'
  <2>1. PICK row \in Head(plan[t]) : /\ held' = [held EXCEPT ![t] = @ \cup {row}]
                                     /\ plan' = Without(t, row)
    BY <1>2 DEF Lock
  <2>2. Running(t) /\ plan[t] # <<>> /\ UNCHANGED <<batch, storeVars, outcome, attempt, waits>>
    BY <1>2 DEF Lock
  <2> QED
    BY <2>1, <2>2, RowStep
<1>3. ASSUME NEW t \in Txs, SkipConflict(t) PROVE WritesInv'
  <2>1. PICK row \in Head(plan[t]) : plan' = Without(t, row)
    BY <1>3 DEF SkipConflict
  <2>2. /\ Running(t) /\ plan[t] # <<>> /\ held' = held
        /\ UNCHANGED <<batch, storeVars, outcome, attempt, waits>>
    BY <1>3 DEF SkipConflict
  <2> QED
    BY <2>1, <2>2, RowStep
<1>4. ASSUME NEW t \in Txs, Wait(t) \/ Wake(t) PROVE WritesInv'
  BY <1>4, WaitStep
<1>5. ASSUME NEW t \in Txs, NEW sqlstate, Reject(t, sqlstate), CommitRows(t) \/ UNCHANGED storeVars
      PROVE  WritesInv'
  <2>1. owner' \in [Keys -> Imports \cup {None}] /\ accepted' \in [Imports -> Nat]
    BY <1>0, <1>5, CommitType DEF TypeOK, storeVars
  <2> QED
    BY <1>5, <2>1, RejectEnds, EndStep
<1>6. ASSUME NEW t \in Txs, Commit(t) PROVE WritesInv'
  <2>1. End(t, "done") /\ CommitRows(t)
    BY <1>6 DEF Commit
  <2> QED
    BY <1>0, <2>1, CommitType, EndStep
<1>7. ASSUME UNCHANGED vars PROVE WritesInv'
  BY <1>7 DEF vars, storeVars, WritesInv, TypeOK, IdleOK, WriterOK, BatchPlan, OtherOK,
              GivenUpAtLimit
<1> QED
  BY <1>1, <1>2, <1>3, <1>4, <1>5, <1>6, <1>7
  DEF Next, Step, RefuseRow, StatementFails, BreakDeadlock, CommitReplyLost

LEMMA WritesInvariant == Spec => []WritesInv
BY InitWrites, WritesStep, PTL DEF Spec

\* Batches, plans, locks, attempts and counters keep their types: in particular no
\* transaction is begun more often than the policy allows.
THEOREM TypeCorrect == Spec => []TypeOK
<1>1. WritesInv => TypeOK
  BY DEF WritesInv
<1> QED
  BY <1>1, WritesInvariant, PTL

\* A batch of rows the database accepts is given up, and its import failed, only after
\* MAX_ATTEMPTS failed attempts, whatever the wrapping hides of their errors.
THEOREM TransientsUseEveryAttempt == Spec => []TransientFailuresAreRetried
<1>1. WritesInv => TransientFailuresAreRetried
  BY DEF WritesInv, GivenUpAtLimit, TransientFailuresAreRetried
<1> QED
  BY <1>1, WritesInvariant, PTL

\* A cancel request or a sweep is never part of a deadlock with a batch: the batch whose
\* lock it waits for has its last lock and waits for nothing.
THEOREM OthersNeverDeadlock == Spec => []OthersWaitForCommits
<1>1. WritesInv => OthersWaitForCommits
  <2> SUFFICES ASSUME WritesInv, NEW t \in Others, NEW w \in Writers, waits[t] \in held[w]
               PROVE  waits[w] = None
    BY DEF OthersWaitForCommits
  <2>1. held[w] \subseteq Rows /\ None \notin Rows
    BY WritesAssumption DEF WritesInv, TypeOK, Txs
  <2>2. waits[t] \in OtherRows
    BY <2>1 DEF WritesInv, OtherOK
  <2>3. ~(held[w] \subseteq KeyRows)
    BY <2>2, RowsApart
  <2> QED
    BY <2>3 DEF WritesInv, WriterOK
<1> QED
  BY <1>1, WritesInvariant, PTL

-----------------------------------------------------------------------------
(***************************************************************************)
(* The transactions implement the record store.                            *)
(***************************************************************************)

LEMMA LocksStep == TypeOK /\ LocksOK /\ [Next]_vars => LocksOK'
<1> SUFFICES ASSUME TypeOK, LocksOK, [Next]_vars PROVE LocksOK'
  OBVIOUS
<1> USE DEF LocksOK
<1>1. ASSUME NEW t \in Txs, Lock(t) PROVE LocksOK'
  <2>1. PICK row \in Head(plan[t]) : /\ ~Skips(t, row) /\ ~HeldByAnother(t, row)
                                     /\ held' = [held EXCEPT ![t] = @ \cup {row}]
    BY <1>1 DEF Lock
  <2>2. /\ held'[t] = held[t] \cup {row} /\ \A u \in Txs \ {t} : held'[u] = held[u]
        /\ owner' = owner
    BY <1>1, <2>1 DEF TypeOK, Lock, storeVars
  <2>3. \A u \in Txs \ {t} : row \notin held[u]
    BY <2>1 DEF HeldByAnother
  <2>4. \A k \in Keys : row = KeyRow(k) => owner[k] = None
    BY <2>1 DEF Skips, Stored
  <2> QED
    BY <2>2, <2>3, <2>4
<1>2. ASSUME NEW t \in Txs, NEW how, End(t, how), CommitRows(t) \/ UNCHANGED storeVars
      PROVE  LocksOK'
  <2>1. held'[t] = {} /\ \A u \in Txs \ {t} : held'[u] = held[u]
    BY <1>2 DEF TypeOK, End
  <2>2. \A k \in Keys : owner'[k] = owner[k] \/ KeyRow(k) \in held[t]
    BY <1>2 DEF CommitRows, storeVars, NewKeys
  <2>3. ASSUME NEW u \in Txs, NEW k \in Keys, KeyRow(k) \in held'[u] PROVE owner'[k] = None
    <3>1. u # t /\ KeyRow(k) \in held[u]
      BY <2>1, <2>3
    <3>2. KeyRow(k) \notin held[t]
      BY <3>1
    <3> QED
      BY <2>2, <3>1, <3>2
  <2> QED
    BY <2>1, <2>3
<1>3. ASSUME NEW t \in Txs, NEW sqlstate, Reject(t, sqlstate), CommitRows(t) \/ UNCHANGED storeVars
      PROVE  LocksOK'
  BY <1>2, <1>3, RejectEnds
<1>4. ASSUME UNCHANGED <<owner, held>> PROVE LocksOK'
  BY <1>4
<1> QED
  BY <1>1, <1>2, <1>3, <1>4
  DEF Next, Step, Begin, SkipConflict, Wait, Wake, RefuseRow, StatementFails, BreakDeadlock,
      Commit, CommitReplyLost, vars, storeVars

LEMMA LocksInvariant == Spec => [](TypeOK /\ LocksOK)
<1>1. Init => LocksOK
  BY DEF Init, LocksOK
<1> QED
  BY <1>1, LocksStep, TypeCorrect, PTL DEF Spec

\* A step is a store of rows nobody owns, or leaves the store alone.
LEMMA StoreStep ==
    TypeOK /\ LocksOK /\ [Next]_vars => [Store!Next]_<<owner, accepted>>
<1> SUFFICES ASSUME TypeOK, LocksOK, [Next]_vars PROVE [Store!Next]_<<owner, accepted>>
  OBVIOUS
<1>1. ASSUME NEW t \in Txs, CommitRows(t) PROVE [Store!Next]_<<owner, accepted>>
  <2>1. CASE t \in Writers
    <3>1. ImportOf[t] \in Imports /\ NewKeys(t) \in SUBSET Keys
      BY <2>1, WritesAssumption DEF NewKeys
    <3>2. \A k \in NewKeys(t) : owner[k] = None
      BY DEF LocksOK, NewKeys
    <3>3. Store!Store(ImportOf[t], NewKeys(t))
      BY <1>1, <2>1, <3>2 DEF CommitRows, InsertedCount, Store!Store
    <3> QED
      BY <3>1, <3>3 DEF Store!Next
  <2>2. CASE t \notin Writers
    BY <1>1, <2>2 DEF CommitRows, storeVars
  <2> QED
    BY <2>1, <2>2
<1> QED
  BY <1>1
  DEF Next, Step, Begin, Lock, SkipConflict, Wait, Wake, RefuseRow, StatementFails,
      BreakDeadlock, Commit, CommitReplyLost, vars, storeVars

\* Under row locks, rollbacks, deadlocks and commits repeated because their reply was
\* lost, the tables implement RecordStore: a record has one import for good, and the
\* counter of an import counts its records, each once.
THEOREM WritesImplementStore == Spec => StoreSpec
<1>1. Init => Store!Init
  BY DEF Init, Store!Init
<1> QED
  BY <1>1, StoreStep, LocksInvariant, PTL DEF Spec, StoreSpec, Store!Spec
=============================================================================
