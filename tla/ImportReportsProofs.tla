------------------------- MODULE ImportReportsProofs -------------------------
(***************************************************************************)
(* Theorems of RejectedPages and ImportReports: keyset paging gives no row *)
(* twice and misses none that was there, whatever is inserted and whatever *)
(* limits are used; and a client that knows the import to be over is given *)
(* all its rejections and a summary whose parts agree.                     *)
(***************************************************************************)
EXTENDS ImportReports, FiniteSetTheorems, FunctionTheorems, TLAPS

\* The rows of a traversal so far: all it was given lie up to the cursor, and of
\* those there were at the start all up to the cursor were given.  A cursor has rows
\* beyond it, for none is ever deleted.
PagingInv ==
    \A c \in Clients :
        /\ state[c] = "idle" => cursor[c] = None /\ seen[c] = {}
        /\ state[c] = "paging" => cursor[c] \in Ids
        /\ state[c] = "paging" => \A x \in seen[c] : x <= cursor[c]
        /\ state[c] = "paging" =>
             \A x \in start[c] : x <= cursor[c] => x \in seen[c]
        /\ state[c] = "paging" => \E x \in rows : x > cursor[c]
        /\ start[c] \subseteq rows

PagesInv == TypeOK /\ NoRowTwice /\ StartRowsSeen /\ PagingInv

\* The limit used is a page size.
LEMMA LimitIsPageSize ==
  ASSUME NEW requested \in RequestedLimits
  PROVE  ClampLimit(requested) \in 1..MAX_PAGE_SIZE
<1>1. CASE requested = None
  BY <1>1, PagesAssumption DEF ClampLimit
<1>2. CASE requested # None
  <2>1. requested \in Int
    BY <1>2, PagesAssumption
  <2> QED
    BY <1>2, <2>1, PagesAssumption DEF ClampLimit, Capped
<1> QED
  BY <1>1, <1>2

\* A set of ids is finite, and what comes before a member of it is smaller.
LEMMA IdsFinite ==
  ASSUME NEW S \in SUBSET Ids
  PROVE  IsFiniteSet(S) /\ Cardinality(S) \in Nat /\ S \subseteq Nat
  BY PagesAssumption, FS_Subset, FS_CardinalityType

\* The first of S are all of S when there are no more, and otherwise everything up
\* to their last.
LEMMA FirstIsPrefix ==
  ASSUME NEW S \in SUBSET Ids, NEW limit \in Nat,
         NEW x \in S, NEW last \in FirstOf(S, limit), x <= last
  PROVE  x \in FirstOf(S, limit)
<1> DEFINE Before(z) == {y \in S : y < z}
<1>1. Before(x) \subseteq Before(last)
  BY IdsFinite DEF FirstOf
<1>2. /\ IsFiniteSet(Before(last))
      /\ Cardinality(Before(x)) \in Nat /\ Cardinality(Before(last)) \in Nat
  BY IdsFinite
<1>3. Cardinality(Before(x)) <= Cardinality(Before(last))
  BY <1>1, <1>2, FS_Subset
<1> QED
  BY <1>2, <1>3 DEF FirstOf

LEMMA FirstIsAll ==
  ASSUME NEW S \in SUBSET Ids, NEW limit \in Nat, ~HasMore(S, limit)
  PROVE  FirstOf(S, limit) = S
<1> SUFFICES ASSUME NEW x \in S PROVE Cardinality({y \in S : y < x}) < limit
  BY DEF FirstOf
<1> DEFINE Before == {y \in S : y < x}
<1>1. Before \subseteq S /\ Before # S
  BY IdsFinite
<1>2. Cardinality(Before) < Cardinality(S) /\ Cardinality(S) <= limit
  BY <1>1, IdsFinite, FS_Subset DEF HasMore
<1>3. Cardinality(Before) \in Nat /\ Cardinality(S) \in Nat
  BY IdsFinite
<1> QED
  BY <1>2, <1>3

\* A page is no longer than its limit.
LEMMA PageFits ==
  ASSUME NEW S \in SUBSET Ids, NEW limit \in Nat,
         NEW last \in FirstOf(S, limit), \A x \in FirstOf(S, limit) : x <= last
  PROVE  Cardinality(FirstOf(S, limit)) <= limit
<1> DEFINE Before == {y \in S : y < last}
<1>1. FirstOf(S, limit) \subseteq Before \cup {last}
  BY IdsFinite DEF FirstOf
<1>2. Before \in SUBSET Ids /\ last \notin Before /\ Cardinality(Before) < limit
  BY IdsFinite DEF FirstOf
<1>3. /\ IsFiniteSet(Before \cup {last})
      /\ Cardinality(Before \cup {last}) = Cardinality(Before) + 1
  BY <1>2, IdsFinite, FS_AddElement
<1>4. Cardinality(FirstOf(S, limit)) <= Cardinality(Before \cup {last})
  BY <1>1, <1>3, FS_Subset
<1>5. FirstOf(S, limit) \in SUBSET Ids
  BY DEF FirstOf
<1> QED
  BY <1>2, <1>3, <1>4, <1>5, IdsFinite

\* The invariant holds at first.
LEMMA InitPages == Init => PagesInv
  BY FS_EmptySet, PagesAssumption
  DEF Init, PagesInv, TypeOK, NoRowTwice, StartRowsSeen, PagingInv

\* Rows that come in change no traversal.
LEMMA InsertPreserves ==
  ASSUME PagesInv, NEW S \in SUBSET (Ids \ rows), InsertRows(S) PROVE PagesInv'
  BY DEF InsertRows, clientVars, PagesInv, TypeOK, NoRowTwice, StartRowsSeen, PagingInv

\* A page is new to the traversal, fits, and completes what lies up to its last row.
LEMMA PagePreserves ==
  ASSUME PagesInv, NEW c \in Clients, NEW requested \in RequestedLimits,
         ReadPage(c, requested)
  PROVE  PagesInv'
<1> DEFINE limit == ClampLimit(requested)
           items == FirstOf(Beyond(c), limit)
<1> USE DEF PagesInv, TypeOK
<1>1. limit \in Nat /\ limit <= MAX_PAGE_SIZE
  BY LimitIsPageSize, PagesAssumption
<1>2. Beyond(c) \in SUBSET Ids /\ items \in SUBSET Ids /\ items \subseteq rows
  BY DEF Beyond, FirstOf
<1>3. items \cap seen[c] = {}
  <2>1. CASE state[c] = "idle"
    BY <2>1 DEF PagingInv
  <2>2. CASE state[c] = "paging"
    <3>1. cursor[c] \in Ids /\ cursor[c] # None
      BY <2>2, PagesAssumption DEF PagingInv
    <3> QED
      BY <2>2, <3>1, IdsFinite DEF PagingInv, Beyond, FirstOf
  <2> QED
    BY <2>1, <2>2 DEF ReadPage
<1>4. /\ IsFiniteSet(seen[c]) /\ Cardinality(seen[c]) \in Nat
      /\ IsFiniteSet(items) /\ Cardinality(items) \in Nat
  BY <1>2, IdsFinite
<1>5. Cardinality(seen[c] \cup items) = Cardinality(seen[c]) + Cardinality(items)
  <2>1. Cardinality(seen[c] \cap items) = 0
    BY <1>3, FS_EmptySet
  <2>2. Cardinality(seen[c] \cup items)
          = Cardinality(seen[c]) + Cardinality(items) - Cardinality(seen[c] \cap items)
    <3> HIDE DEF items, TypeOK
    <3> QED
      BY <1>4, FS_Union
  <2> QED
    BY <1>4, <2>1, <2>2
<1>6. Cardinality(items) <= MAX_PAGE_SIZE
  <2>1. CASE HasMore(Beyond(c), limit)
    <3>1. PICK last \in items : \A x \in items : x <= last
      BY <2>1 DEF ReadPage, NextCursor
    <3> HIDE DEF limit
    <3> QED
      BY <1>1, <1>2, <1>4, <3>1, PageFits, PagesAssumption
  <2>2. CASE ~HasMore(Beyond(c), limit)
    <3>1. items = Beyond(c)
      BY <1>1, <1>2, <2>2, FirstIsAll
    <3>2. Cardinality(Beyond(c)) <= limit
      BY <1>1, <1>2, <2>2, IdsFinite DEF HasMore
    <3> QED
      BY <1>1, <1>2, <1>4, <3>1, <3>2, PagesAssumption, IdsFinite
  <2> QED
    BY <2>1, <2>2
<1>7. TypeOK'
  <2>1. /\ rows' = rows
        /\ seen' = [seen EXCEPT ![c] = @ \cup items]
        /\ received' = [received EXCEPT ![c] = @ + Cardinality(items)]
        /\ page' = [page EXCEPT ![c] = Cardinality(items)]
        /\ start' = [start EXCEPT ![c] = IF state[c] = "idle" THEN rows ELSE @]
    BY DEF ReadPage
  <2>2. /\ state' \in [Clients -> {"idle", "paging", "done"}]
        /\ cursor' \in [Clients -> Ids \cup {None}]
    BY <1>2 DEF ReadPage, NextCursor
  <2>3. Cardinality(items) \in 0..MAX_PAGE_SIZE
    BY <1>4, <1>6, PagesAssumption
  <2> HIDE DEF items
  <2>4. /\ rows' \subseteq Ids
        /\ seen' \in [Clients -> SUBSET Ids]
        /\ start' \in [Clients -> SUBSET Ids]
    BY <1>2, <2>1
  <2>5. /\ received' \in [Clients -> Nat]
        /\ page' \in [Clients -> 0..MAX_PAGE_SIZE]
    BY <1>4, <2>1, <2>3
  <2> QED
    BY <2>2, <2>4, <2>5
<1>8. NoRowTwice'
  BY <1>4, <1>5 DEF ReadPage, NoRowTwice
<1>9. CASE HasMore(Beyond(c), limit)
  <2>1. PICK last \in items : /\ \A x \in items : x <= last
                             /\ cursor' = [cursor EXCEPT ![c] = last]
    BY <1>9 DEF ReadPage, NextCursor
  <2>2. /\ state' = [state EXCEPT ![c] = "paging"]
        /\ seen' = [seen EXCEPT ![c] = @ \cup items]
        /\ start' = [start EXCEPT ![c] = IF state[c] = "idle" THEN rows ELSE @]
        /\ rows' = rows
        /\ state[c] \in {"idle", "paging"}
    BY <1>9 DEF ReadPage, NextCursor
  <2>3. last \in Ids /\ last \in Beyond(c)
    BY <1>2, <2>1 DEF FirstOf
  <2>4. \A x \in seen[c] : x <= last
    <3>1. CASE state[c] = "idle"
      BY <3>1 DEF PagingInv
    <3>2. CASE state[c] = "paging"
      <4>1. cursor[c] \in Ids /\ cursor[c] # None /\ \A x \in seen[c] : x <= cursor[c]
        BY <3>2, PagesAssumption DEF PagingInv
      <4>2. cursor[c] < last
        BY <2>3, <4>1, PagesAssumption DEF Beyond
      <4> HIDE DEF items
      <4>3. /\ seen[c] \subseteq Nat
            /\ cursor[c] \in Nat /\ last \in Nat
        BY <2>3, <4>1, PagesAssumption
      <4> QED
        BY <4>1, <4>2, <4>3
    <3> QED
      BY <2>2, <3>1, <3>2
  <2>5. \A x \in start'[c] : x <= last => x \in seen[c] \cup items
    <3>1. ASSUME NEW x \in start'[c], x <= last PROVE x \in seen[c] \cup items
      <4>1. x \in rows /\ x \in Ids
        BY <2>2, <3>1 DEF PagingInv
      <4>2. CASE x \in Beyond(c)
        <5> HIDE DEF limit
        <5> QED
          BY <1>1, <1>2, <2>1, <3>1, <4>2, FirstIsPrefix
      <4>3. CASE x \notin Beyond(c)
        <5>1. cursor[c] # None /\ ~(x > cursor[c])
          BY <4>1, <4>3 DEF Beyond
        <5>2. state[c] = "paging" /\ x \in start[c] /\ cursor[c] \in Ids
          BY <2>2, <3>1, <5>1 DEF PagingInv
        <5>3. x <= cursor[c]
          <6>1. x \in Nat /\ cursor[c] \in Nat
            BY <4>1, <5>2, PagesAssumption
          <6> HIDE DEF items, TypeOK
          <6> QED
            BY <5>1, <6>1
        <5> QED
          BY <5>2, <5>3 DEF PagingInv
      <4> QED
        BY <4>2, <4>3
    <3> QED
      BY <3>1
  <2>6. \E x \in rows : x > last
    <3>1. PICK x \in Beyond(c) : x \notin items
      <4>1. Cardinality(items) <= limit
        <5> HIDE DEF limit
        <5> QED
          BY <1>1, <1>2, <2>1, PageFits
      <4>2. Cardinality(Beyond(c)) > limit
        BY <1>9 DEF HasMore
      <4>3. items # Beyond(c) /\ items \subseteq Beyond(c)
        <5>1. items \subseteq Beyond(c)
          BY DEF FirstOf
        <5> HIDE DEF items, limit
        <5> QED
          BY <1>1, <1>2, <1>4, <4>1, <4>2, <5>1, IdsFinite
      <4> QED
        BY <4>3
    <3>2. ~(x <= last)
      <4> HIDE DEF limit
      <4> QED
        BY <1>1, <1>2, <2>1, <3>1, FirstIsPrefix
    <3>3. x \in Nat /\ last \in Nat /\ x \in rows
      BY <1>2, <2>3, <3>1, PagesAssumption DEF Beyond
    <3> QED
      BY <3>2, <3>3
  <2>7. PagingInv'
    BY <2>1, <2>2, <2>3, <2>4, <2>5, <2>6 DEF PagingInv
  <2>8. StartRowsSeen'
    BY <2>2 DEF StartRowsSeen
  <2> QED
    BY <1>7, <1>8, <2>7, <2>8
<1>10. CASE ~HasMore(Beyond(c), limit)
  <2>1. /\ state' = [state EXCEPT ![c] = "done"]
        /\ seen' = [seen EXCEPT ![c] = @ \cup items]
        /\ start' = [start EXCEPT ![c] = IF state[c] = "idle" THEN rows ELSE @]
        /\ rows' = rows /\ cursor' = cursor
        /\ state[c] \in {"idle", "paging"}
    BY <1>10 DEF ReadPage, NextCursor
  <2>2. items = Beyond(c)
    BY <1>1, <1>2, <1>10, FirstIsAll
  <2>3. start'[c] \subseteq seen[c] \cup items
    <3>1. ASSUME NEW x \in start'[c], x \notin Beyond(c) PROVE x \in seen[c]
      <4>1. x \in rows /\ x \in Ids
        BY <2>1, <3>1 DEF PagingInv
      <4>2. cursor[c] # None /\ ~(x > cursor[c])
        BY <3>1, <4>1 DEF Beyond
      <4>3. state[c] = "paging" /\ x \in start[c] /\ cursor[c] \in Ids
        BY <2>1, <3>1, <4>2 DEF PagingInv
      <4>4. x <= cursor[c]
        <5>1. x \in Nat /\ cursor[c] \in Nat
          BY <4>1, <4>3, PagesAssumption
        <5> HIDE DEF items, TypeOK
        <5> QED
          BY <4>2, <5>1
      <4> QED
        BY <4>3, <4>4 DEF PagingInv
    <3> QED
      BY <2>2, <3>1
  <2>4. StartRowsSeen'
    BY <2>1, <2>3 DEF StartRowsSeen
  <2>5. PagingInv'
    BY <2>1 DEF PagingInv
  <2> QED
    BY <1>7, <1>8, <2>4, <2>5
<1> QED
  BY <1>9, <1>10

\* PagesInv is an invariant.
LEMMA PagesStep == PagesInv /\ [Next]_vars => PagesInv'
<1> SUFFICES ASSUME PagesInv, [Next]_vars PROVE PagesInv'
  OBVIOUS
<1>1. CASE Next
  BY <1>1, InsertPreserves, PagePreserves DEF Next, Request
<1>2. CASE UNCHANGED vars
  BY <1>2 DEF vars, clientVars, PagesInv, TypeOK, NoRowTwice, StartRowsSeen, PagingInv
<1> QED
  BY <1>1, <1>2

LEMMA Invariance == Spec => []PagesInv
  BY InitPages, PagesStep, PTL DEF Spec

\* Type correctness; among others that no page is longer than MAX_PAGE_SIZE.
THEOREM TypeCorrect == Spec => []TypeOK
<1>1. PagesInv => TypeOK
  BY DEF PagesInv
<1> QED
  BY Invariance, <1>1, PTL

\* No row is given twice.
THEOREM NoRowIsTwice == Spec => []NoRowTwice
<1>1. PagesInv => NoRowTwice
  BY DEF PagesInv
<1> QED
  BY Invariance, <1>1, PTL

\* Every row there was when a traversal began is given.
THEOREM NothingIsMissed == Spec => []StartRowsSeen
<1>1. PagesInv => StartRowsSeen
  BY DEF PagesInv
<1> QED
  BY Invariance, <1>1, PTL

-----------------------------------------------------------------------------
(***************************************************************************)
(* The counts of a breakdown.                                              *)
(***************************************************************************)

\* The groups of a breakdown share the rows out: their counts add up to all of them.
LEMMA SumOfGroups ==
    ASSUME IsFiniteSet(stored), NEW attribute
    PROVE  Sum(GroupBy(attribute)) = Cardinality(stored)
<1> DEFINE groups == GroupBy(attribute)
           Members(v) == {t \in stored : attribute[t] = v}
           D == {attribute[t] : t \in stored}
           Pairs == UNION {{v} \X (1..groups[v]) : v \in DOMAIN groups}
           number == [v \in D |-> CHOOSE f : f \in Bijection(Members(v), 1..Cardinality(Members(v)))]
           place == [t \in stored |-> <<attribute[t], number[attribute[t]][t]>>]
<1>1. DOMAIN groups = D /\ \A v \in D : groups[v] = Cardinality(Members(v))
  BY DEF GroupBy
<1>2. ASSUME NEW v \in D
      PROVE  number[v] \in Bijection(Members(v), 1..Cardinality(Members(v)))
  <2>1. IsFiniteSet(Members(v))
    BY FS_Subset
  <2>2. ExistsBijection(Members(v), 1..Cardinality(Members(v)))
    BY <2>1, FS_CardinalityType, Fun_ExistsBijSymmetric
  <2>3. \E f : f \in Bijection(Members(v), 1..Cardinality(Members(v)))
    BY <2>2, Fun_ExistsBij
  <2> HIDE DEF Members
  <2> QED
    BY <2>3
<1>3. \A t \in stored : attribute[t] \in D /\ t \in Members(attribute[t])
  OBVIOUS
<1>4. \A v \in D : \A t \in Members(v) : t \in stored /\ attribute[t] = v
  OBVIOUS
<1>5. \A p : p \in Pairs <=> \E v \in D : \E n \in 1..Cardinality(Members(v)) : p = <<v, n>>
  <2>1. Pairs = UNION {{v} \X (1..groups[v]) : v \in D}
    BY <1>1
  <2> HIDE DEF D, groups, Pairs, Members
  <2>2. \A p : p \in Pairs <=> \E v \in D : p \in {v} \X (1..groups[v])
    BY <2>1
  <2>3. \A v : \A S : \A p : p \in {v} \X S <=> \E n \in S : p = <<v, n>>
    OBVIOUS
  <2>4. \A p : p \in Pairs <=> \E v \in D : \E n \in 1..groups[v] : p = <<v, n>>
    <3>1. ASSUME NEW v \in D, NEW p
          PROVE  p \in {v} \X (1..groups[v]) <=> \E n \in 1..groups[v] : p = <<v, n>>
      BY <2>3
    <3> QED
      BY <2>2, <3>1
  <2> QED
    BY <1>1, <2>4, Zenon
<1> HIDE DEF groups, D, Members, Pairs, number
<1>6. \A t \in stored : place[t] = <<attribute[t], number[attribute[t]][t]>>
  OBVIOUS
<1>7. \A S : (\A t \in stored : place[t] \in S) => place \in [stored -> S]
  OBVIOUS
<1> HIDE DEF place
<1>8. \A v \in D : /\ \A t \in Members(v) : number[v][t] \in 1..Cardinality(Members(v))
                   /\ \A t, u \in Members(v) : number[v][t] = number[v][u] => t = u
                   /\ \A n \in 1..Cardinality(Members(v)) : \E t \in Members(v) : number[v][t] = n
  BY <1>2 DEF Bijection, Injection, Surjection, IsInjective
<1>9. place \in [stored -> Pairs]
  <2>1. ASSUME NEW t \in stored PROVE place[t] \in Pairs
    <3>1. attribute[t] \in D /\ t \in Members(attribute[t])
      BY <1>3
    <3>2. number[attribute[t]][t] \in 1..Cardinality(Members(attribute[t]))
      BY <1>8, <3>1
    <3> QED
      BY <1>5, <1>6, <3>1, <3>2, Zenon
  <2> QED
    BY <1>7, <2>1
<1>10. \A t, u \in stored : place[t] = place[u] => t = u
  <2> SUFFICES ASSUME NEW t \in stored, NEW u \in stored, place[t] = place[u] PROVE t = u
    OBVIOUS
  <2>1. attribute[t] = attribute[u] /\ number[attribute[t]][t] = number[attribute[t]][u]
    BY <1>6
  <2> QED
    BY <1>3, <1>8, <2>1
<1>11. \A p \in Pairs : \E t \in stored : place[t] = p
  <2> SUFFICES ASSUME NEW p \in Pairs PROVE \E t \in stored : place[t] = p
    OBVIOUS
  <2>0. PICK v \in D : \E n \in 1..Cardinality(Members(v)) : p = <<v, n>>
    BY <1>5
  <2>1. PICK n \in 1..Cardinality(Members(v)) : p = <<v, n>>
    BY <2>0
  <2>2. PICK t \in Members(v) : number[v][t] = n
    BY <1>8
  <2> QED
    BY <1>4, <1>6, <2>1, <2>2
<1>12. place \in Bijection(stored, Pairs)
  BY <1>9, <1>10, <1>11 DEF Bijection, Injection, Surjection, IsInjective
<1>13. Cardinality(Pairs) = Cardinality(stored)
  BY <1>12, Fun_ExistsBij, FS_Bijection
<1> QED
  BY <1>13 DEF Sum, Pairs, groups

-----------------------------------------------------------------------------
(***************************************************************************)
(* The reports.                                                            *)
(***************************************************************************)

\* A reader does not notice the writer but by its rows: the reports' steps page as
\* RejectedPages says.
LEMMA ReportsStepPages == [ReportsNext]_allVars => [Next]_vars
<1> SUFFICES ASSUME [ReportsNext]_allVars PROVE [Next]_vars
  OBVIOUS
<1>1. ASSUME NEW scored, NEW S \in SUBSET (Ids \ rows), CommitBatch(scored, S) PROVE Next
  BY <1>1 DEF CommitBatch, Next
<1>2. ASSUME NEW c \in Clients, NextPage(c) PROVE Next
  BY <1>2 DEF NextPage, Next
<1> QED
  BY <1>1, <1>2
  DEF ReportsNext, EndImport, Client, ReadStatus, AskSummary, ReadPart, allVars, vars, clientVars

\* The paging of an import's rejections while its batches are committed is the paging
\* of RejectedPages, so what is proved of that holds here.
THEOREM ReportsImplementPages == ReportsSpec => Spec
<1>1. ReportsInit => Init
  BY DEF ReportsInit
<1> QED
  BY <1>1, ReportsStepPages, PTL DEF ReportsSpec, Spec

\* The counters count the rows; a client is only told of the end of an ended import.
WriterInv ==
    /\ stored \subseteq Transactions
    /\ counters = [accepted |-> Cardinality(stored), rejected |-> Cardinality(rows)]
    /\ ended \in BOOLEAN
    /\ informed \subseteq Clients /\ (informed # {} => ended)
    /\ settled \in [Clients -> SUBSET {"pages", "summary"}]
    /\ \A c \in Clients : settled[c] # {} => ended

\* A traversal known to be of an ended import began with all its rows.
SettledPaging ==
    \A c \in Clients :
        /\ seen[c] \subseteq rows
        /\ "pages" \in settled[c] /\ state[c] # "idle" => start[c] = rows

\* The answers a client got since it knew are those it would get now.
SettledAnswers ==
    /\ summary = [c \in Clients |-> summary[c]]
    /\ \A c \in Clients : "summary" \in settled[c] =>
          \A q \in DOMAIN summary[c] : summary[c][q] \in Answers(q)

ReportsInv == PagesInv /\ WriterInv /\ SettledPaging /\ SettledAnswers

LEMMA InitReports == ReportsInit => ReportsInv
<1> SUFFICES ASSUME ReportsInit PROVE ReportsInv
  OBVIOUS
<1>1. PagesInv
  BY InitPages DEF ReportsInit
<1>2. WriterInv
  BY FS_EmptySet DEF ReportsInit, Init, WriterInv
<1>3. SettledPaging
  BY DEF ReportsInit, Init, SettledPaging
<1>4. SettledAnswers
  BY DEF ReportsInit, SettledAnswers
<1> QED
  BY <1>1, <1>2, <1>3, <1>4 DEF ReportsInv

\* Sizes of sets to which new elements are added.
LEMMA SizeAdds ==
    ASSUME NEW U, IsFiniteSet(U), NEW S \in SUBSET U, NEW T \in SUBSET U
    PROVE  Cardinality(S \cup T) = Cardinality(S) + Cardinality(T \ S)
<1>1. IsFiniteSet(S) /\ IsFiniteSet(T \ S)
  BY FS_Subset
<1>2. S \cup T = S \cup (T \ S) /\ S \cap (T \ S) = {}
  OBVIOUS
<1>3. Cardinality(S \cup T) = Cardinality(S) + Cardinality(T \ S) - Cardinality({})
  BY <1>1, <1>2, FS_Union
<1>4. Cardinality(S) \in Nat /\ Cardinality(T \ S) \in Nat /\ Cardinality({}) = 0
  BY <1>1, FS_CardinalityType, FS_EmptySet
<1> QED
  BY <1>3, <1>4

\* A batch, with its counters; nobody has been told of the end yet.
LEMMA CommitReports ==
    ASSUME ReportsInv, NEW scored \in SUBSET Transactions, NEW S \in SUBSET (Ids \ rows),
           CommitBatch(scored, S), PagesInv'
    PROVE  ReportsInv'
<1> USE DEF ReportsInv
<1>1. /\ rows' = rows \cup S /\ stored' = stored \cup scored
      /\ counters' = [accepted |-> counters.accepted + Cardinality(scored \ stored),
                      rejected |-> counters.rejected + Cardinality(S)]
      /\ UNCHANGED <<state, cursor, seen, received, page, start, ended, informed, toRead,
                     summary, settled>>
      /\ ~ended
  BY DEF CommitBatch, InsertRows, clientVars, reportVars
<1>2. \A c \in Clients : settled[c] = {}
  BY <1>1 DEF WriterInv
<1>3. Cardinality(stored') = Cardinality(stored) + Cardinality(scored \ stored)
  BY <1>1, ReportsAssumption, SizeAdds DEF WriterInv
<1>4. Cardinality(rows') = Cardinality(rows) + Cardinality(S)
  <2>1. rows \in SUBSET Ids /\ S \in SUBSET Ids /\ IsFiniteSet(Ids) /\ S \ rows = S
    BY PagesAssumption DEF PagesInv, TypeOK
  <2> QED
    BY <1>1, <2>1, SizeAdds
<1>5. WriterInv'
  BY <1>1, <1>3, <1>4 DEF WriterInv
<1>6. SettledPaging'
  BY <1>1, <1>2 DEF SettledPaging
<1>7. SettledAnswers'
  BY <1>1, <1>2 DEF SettledAnswers
<1> QED
  BY <1>5, <1>6, <1>7

\* What the steps of a client, and the end, leave alone.
LEMMA AnswersStay ==
    ASSUME stored' = stored, counters' = counters, NEW q
    PROVE  Answers(q)' = Answers(q)
BY DEF Answers, ByCurrency, ByRiskLevel, TopMerchants, GroupBy

\* Another page: the rows it is given are the import's, and the first one fixes the start.
LEMMA PageReports ==
    ASSUME ReportsInv, NEW c \in Clients, NextPage(c), PagesInv'
    PROVE  ReportsInv'
<1> USE DEF ReportsInv
<1>1. PICK requested \in RequestedLimits : ReadPage(c, requested)
  BY DEF NextPage, Request
<1> DEFINE items == FirstOf(Beyond(c), ClampLimit(requested))
<1>2. /\ items \subseteq rows
      /\ seen' = [seen EXCEPT ![c] = @ \cup items]
      /\ start' = [start EXCEPT ![c] = IF state[c] = "idle" THEN rows ELSE @]
      /\ \A d \in Clients \ {c} : state'[d] = state[d]
      /\ rows' = rows
  BY <1>1 DEF ReadPage, NextCursor, FirstOf, Beyond, PagesInv, TypeOK
<1>3. UNCHANGED <<stored, counters, ended, informed, toRead, summary>>
  BY DEF NextPage
<1> HIDE DEF items
<1>4. /\ settled' \in [Clients -> SUBSET {"pages", "summary"}]
      /\ \A d \in Clients \ {c} : settled'[d] = settled[d]
      /\ "summary" \in settled'[c] => "summary" \in settled[c]
      /\ state[c] # "idle" => settled'[c] = settled[c]
      /\ settled'[c] # {} => ended
  BY DEF NextPage, Begins, WriterInv
<1>5. WriterInv'
  BY <1>2, <1>3, <1>4 DEF WriterInv
<1>6. SettledPaging'
  BY <1>2, <1>4 DEF SettledPaging, PagesInv, TypeOK
<1>7. SettledAnswers'
  BY <1>3, <1>4, AnswersStay DEF SettledAnswers
<1> QED
  BY <1>5, <1>6, <1>7

\* A summary is begun with no answers, and gets those of the moment.
LEMMA SummaryReports ==
    ASSUME ReportsInv, NEW c \in Clients, AskSummary(c) \/ \E q \in Queries : ReadPart(c, q),
           PagesInv'
    PROVE  ReportsInv'
<1> USE DEF ReportsInv
<1>1. UNCHANGED <<rows, state, seen, start, stored, counters, ended, informed>>
  BY DEF AskSummary, ReadPart, vars, clientVars
<1>2. CASE AskSummary(c)
  <2>1. /\ settled' \in [Clients -> SUBSET {"pages", "summary"}]
        /\ \A d \in Clients \ {c} : settled'[d] = settled[d]
        /\ "pages" \in settled'[c] <=> "pages" \in settled[c]
        /\ settled'[c] # {} => ended
    BY <1>2 DEF AskSummary, Begins, WriterInv
  <2>2. /\ summary' = [d \in Clients |-> summary'[d]] /\ DOMAIN summary'[c] = {}
        /\ \A d \in Clients \ {c} : summary'[d] = summary[d]
    BY <1>2 DEF AskSummary, SettledAnswers
  <2>3. WriterInv'
    BY <1>1, <2>1 DEF WriterInv
  <2>4. SettledPaging'
    BY <1>1, <2>1 DEF SettledPaging
  <2>5. SettledAnswers'
    BY <1>1, <2>1, <2>2, AnswersStay DEF SettledAnswers
  <2> QED
    BY <2>3, <2>4, <2>5
<1>3. ASSUME NEW q \in Queries, ReadPart(c, q) PROVE ReportsInv'
  <2>1. settled' = settled
    BY <1>3 DEF ReadPart
  <2>2. PICK answer \in Answers(q) :
           summary' = [summary EXCEPT ![c] =
                         [p \in DOMAIN @ \cup {q} |-> IF p = q THEN answer ELSE @[p]]]
    BY <1>3 DEF ReadPart
  <2>3. /\ summary' = [d \in Clients |-> summary'[d]]
        /\ \A d \in Clients \ {c} : summary'[d] = summary[d]
        /\ DOMAIN summary'[c] = DOMAIN summary[c] \cup {q}
        /\ \A p \in DOMAIN summary'[c] : summary'[c][p] = IF p = q THEN answer ELSE summary[c][p]
    BY <2>2 DEF SettledAnswers
  <2>4. WriterInv'
    BY <1>1, <2>1 DEF WriterInv
  <2>5. SettledPaging'
    BY <1>1, <2>1 DEF SettledPaging
  <2>6. SettledAnswers'
    BY <1>1, <2>1, <2>3, AnswersStay DEF SettledAnswers
  <2> QED
    BY <2>4, <2>5, <2>6
<1> QED
  BY <1>2, <1>3

LEMMA ReportsStep == ReportsInv /\ [ReportsNext]_allVars => ReportsInv'
<1> SUFFICES ASSUME ReportsInv, [ReportsNext]_allVars PROVE ReportsInv'
  OBVIOUS
<1>1. PagesInv'
  BY ReportsStepPages, PagesStep DEF ReportsInv
<1>2. ASSUME NEW scored \in SUBSET Transactions, NEW S \in SUBSET (Ids \ rows),
             CommitBatch(scored, S)
      PROVE  ReportsInv'
  BY <1>1, <1>2, CommitReports
<1>3. ASSUME NEW c \in Clients, Client(c) PROVE ReportsInv'
  <2>1. CASE ReadStatus(c)
    <3>1. /\ ended /\ informed' = informed \cup {c}
          /\ UNCHANGED <<rows, state, seen, start, stored, counters, ended, summary, settled>>
      BY <2>1 DEF ReadStatus, vars, clientVars
    <3>2. WriterInv' /\ SettledPaging'
      BY <3>1 DEF ReportsInv, WriterInv, SettledPaging
    <3>3. SettledAnswers'
      BY <3>1, AnswersStay DEF ReportsInv, SettledAnswers
    <3> QED
      BY <1>1, <3>2, <3>3 DEF ReportsInv
  <2> QED
    BY <1>1, <1>3, <2>1, PageReports, SummaryReports DEF Client
<1>4. ASSUME EndImport \/ UNCHANGED allVars PROVE ReportsInv'
  <2>1. /\ UNCHANGED <<rows, state, seen, start, stored, counters, informed, summary, settled>>
        /\ ended' = TRUE \/ ended' = ended
    BY <1>4 DEF EndImport, allVars, vars, clientVars, reportVars
  <2>2. WriterInv' /\ SettledPaging'
    BY <2>1 DEF ReportsInv, WriterInv, SettledPaging
  <2>3. SettledAnswers'
    BY <2>1, AnswersStay DEF ReportsInv, SettledAnswers
  <2> QED
    BY <1>1, <2>2, <2>3 DEF ReportsInv
<1> QED
  BY <1>2, <1>3, <1>4 DEF ReportsNext

LEMMA ReportsInvariant == ReportsSpec => []ReportsInv
BY InitReports, ReportsStep, PTL DEF ReportsSpec

\* A client that pages through the rejections of an import it knows to be over is given
\* as many as rejectedCount says, and fewer for as long as it is given a nextCursor.
THEOREM SettledPagesComplete == ReportsSpec => []SettledPagesAreAll
<1>1. ReportsInv => SettledPagesAreAll
  <2> SUFFICES ASSUME ReportsInv, NEW c \in Clients, "pages" \in settled[c]
               PROVE  /\ state[c] = "done" => received[c] = counters.rejected
                      /\ state[c] = "paging" => received[c] < counters.rejected
    BY DEF SettledPagesAreAll
  <2>1. /\ seen[c] \subseteq rows /\ received[c] = Cardinality(seen[c])
        /\ counters.rejected = Cardinality(rows)
    BY DEF ReportsInv, SettledPaging, WriterInv, PagesInv, NoRowTwice
  <2>2. CASE state[c] = "done"
    <3>1. start[c] = rows /\ start[c] \subseteq seen[c]
      BY <2>2 DEF ReportsInv, SettledPaging, PagesInv, StartRowsSeen
    <3>2. seen[c] = rows
      BY <2>1, <3>1
    <3> QED
      BY <2>1, <2>2, <3>2
  <2>3. CASE state[c] = "paging"
    <3>1. PICK x \in rows : x > cursor[c]
      BY <2>3 DEF ReportsInv, PagesInv, PagingInv
    <3>2. cursor[c] \in Nat /\ x \in Nat /\ seen[c] \subseteq Nat
      BY <2>1, <2>3, PagesAssumption DEF ReportsInv, PagesInv, TypeOK, PagingInv
    <3>3. \A y \in seen[c] : y <= cursor[c]
      BY <2>3 DEF ReportsInv, PagesInv, PagingInv
    <3>4. seen[c] # rows
      BY <3>1, <3>2, <3>3
    <3>5. IsFiniteSet(rows)
      BY IdsFinite DEF ReportsInv, PagesInv, TypeOK
    <3>6. Cardinality(seen[c]) < Cardinality(rows)
      <4>1. seen[c] \in SUBSET rows /\ IsFiniteSet(seen[c])
        BY <2>1, <3>5, FS_Subset
      <4>2. Cardinality(seen[c]) \in Nat /\ Cardinality(rows) \in Nat
        BY <3>5, <4>1, FS_CardinalityType
      <4> QED
        BY <3>4, <3>5, <4>1, <4>2, FS_Subset
    <3> QED
      BY <2>1, <2>3, <3>6
  <2> QED
    BY <2>2, <2>3
<1> QED
  BY <1>1, ReportsInvariant, PTL

\* The five queries of a summary are answered one by one between commits, and agree all
\* the same when the client knew the import to be over.
THEOREM SettledSummaryIsConsistent == ReportsSpec => []SettledSummaryAgrees
<1>1. ReportsInv => SettledSummaryAgrees
  <2> SUFFICES ASSUME ReportsInv, NEW c \in Clients, Complete(c), "summary" \in settled[c]
               PROVE  LET s == summary[c]
                      IN  /\ s["overall"] = s["import"].accepted
                          /\ s["overall"] = Sum(s["byCurrency"])
                          /\ s["overall"] = Sum(s["byRiskLevel"])
                          /\ \A v \in DOMAIN GroupBy(Merchant) \ DOMAIN s["topMerchants"] :
                                \A u \in DOMAIN s["topMerchants"] :
                                   s["topMerchants"][u] >= GroupBy(Merchant)[v]
    BY DEF SettledSummaryAgrees
  <2> DEFINE s == summary[c]
  <2>1. \A q \in Queries : s[q] \in Answers(q)
    BY DEF ReportsInv, SettledAnswers, Complete
  <2> HIDE DEF s
  <2>2. s["import"] = counters /\ s["overall"] = Cardinality(stored)
    BY <2>1 DEF Queries, Answers
  <2>3. s["byCurrency"] = GroupBy(Currency) /\ s["byRiskLevel"] = GroupBy(RiskLevel)
    BY <2>1 DEF Queries, Answers, ByCurrency, ByRiskLevel
  <2>4. s["topMerchants"] \in TopMerchants
    BY <2>1 DEF Queries, Answers
  <2>5. counters.accepted = Cardinality(stored) /\ IsFiniteSet(stored)
    BY ReportsAssumption, FS_Subset DEF ReportsInv, WriterInv
  <2>6. /\ Sum(s["byCurrency"]) = Cardinality(stored)
        /\ Sum(s["byRiskLevel"]) = Cardinality(stored)
    BY <2>3, <2>5, SumOfGroups
  <2>7. \A v \in DOMAIN GroupBy(Merchant) \ DOMAIN s["topMerchants"] :
           \A u \in DOMAIN s["topMerchants"] : s["topMerchants"][u] >= GroupBy(Merchant)[v]
    <3> DEFINE groups == GroupBy(Merchant)
    <3>1. PICK T \in SUBSET DOMAIN groups :
             /\ s["topMerchants"] = [v \in T |-> groups[v]]
             /\ \A v \in DOMAIN groups \ T : \A u \in T : groups[u] >= groups[v]
      BY <2>4 DEF TopMerchants
    <3> HIDE DEF groups
    <3> QED
      BY <3>1 DEF groups
  <2> QED
    BY <2>2, <2>5, <2>6, <2>7 DEF s
<1> QED
  BY <1>1, ReportsInvariant, PTL
=============================================================================
