---------------------------- MODULE RejectedPages ----------------------------
(***************************************************************************)
(* GET /v1/imports/:id/rejections: clients page through the rejected       *)
(* records of an import, by id, while the worker still inserts some.  Ids  *)
(* are random UUIDs: a number stands for an id's place in their order, and *)
(* a new row can fall anywhere, behind a client's cursor too.              *)
(*                                                                         *)
(* A traversal starts without a cursor and follows nextCursor until it is  *)
(* null; each request may ask for another limit.  A request only reads, so *)
(* one that fails and is repeated is no step.                              *)
(***************************************************************************)
EXTENDS Integers, FiniteSets

CONSTANTS
    Ids,
    Clients,
    None,               \* JavaScript's null and undefined
    RequestedLimits,    \* the limits clients ask for, None if they give none
    DEFAULT_PAGE_SIZE,
    MAX_PAGE_SIZE

ASSUME PagesAssumption ==
    /\ Ids \subseteq Nat /\ IsFiniteSet(Ids) /\ None \notin Ids
    /\ RequestedLimits \ {None} \subseteq Int
    /\ MAX_PAGE_SIZE \in Nat \ {0}
    /\ DEFAULT_PAGE_SIZE \in 1..MAX_PAGE_SIZE

VARIABLES
    rows,       \* rejected_records of the import
    state,      \* of each client's traversal
    cursor,
    seen,       \* the rows it was given
    received,   \* how many it was given
    page,       \* the size of its last page
    start       \* the rows there were when it began

clientVars == <<state, cursor, seen, received, page, start>>
vars       == <<rows, clientVars>>

TypeOK ==
    /\ rows \subseteq Ids
    /\ state \in [Clients -> {"idle", "paging", "done"}]
    /\ cursor \in [Clients -> Ids \cup {None}]
    /\ seen \in [Clients -> SUBSET Ids]
    /\ received \in [Clients -> Nat]
    /\ page \in [Clients -> 0..MAX_PAGE_SIZE]
    /\ start \in [Clients -> SUBSET Ids]

Init ==
    /\ rows = {}
    /\ state = [c \in Clients |-> "idle"]
    /\ cursor = [c \in Clients |-> None]
    /\ seen = [c \in Clients |-> {}]
    /\ received = [c \in Clients |-> 0]
    /\ page = [c \in Clients |-> 0]
    /\ start = [c \in Clients |-> {}]

-----------------------------------------------------------------------------
\* Mutant: the limit is not capped.
ClampUncapped(requested) ==
    IF requested = None \/ requested < 1 THEN DEFAULT_PAGE_SIZE ELSE requested

Capped(n) == IF n < MAX_PAGE_SIZE THEN n ELSE MAX_PAGE_SIZE

\* clampLimit, for integers.
ClampLimit(requested) ==
    IF requested = None \/ requested < 1 THEN DEFAULT_PAGE_SIZE ELSE Capped(requested)

\* Mutant: { gte: cursor }.
BeyondOrAt(c) == {x \in rows : cursor[c] = None \/ x >= cursor[c]}

\* where id > cursor
Beyond(c) == {x \in rows : cursor[c] # None => x > cursor[c]}

\* orderBy id asc, the first `limit` of S
FirstOf(S, limit) == {x \in S : Cardinality({y \in S : y < x}) < limit}

\* Mutant: a full page is taken for one that is followed by another.
HasMoreWhenFull(S, limit) == Cardinality(S) >= limit

\* take is limit + 1: whether a row follows the page.
HasMore(S, limit) == Cardinality(S) > limit

\* persistBatch commits the rejected rows of a batch.
InsertRows(S) ==
    /\ rows' = rows \cup S
    /\ UNCHANGED clientVars

\* Mutant: the cursor is the extra row's id.
NextCursorBeyond(c, items, limit) ==
    IF HasMore(Beyond(c), limit)
      THEN /\ \E last \in FirstOf(Beyond(c), limit + 1) :
                /\ \A x \in FirstOf(Beyond(c), limit + 1) : x <= last
                /\ cursor' = [cursor EXCEPT ![c] = last]
           /\ state' = [state EXCEPT ![c] = "paging"]
      ELSE /\ state' = [state EXCEPT ![c] = "done"]
           /\ UNCHANGED cursor

\* nextCursor: the last item's id when there is more, or null and the end.
NextCursor(c, items, limit) ==
    IF HasMore(Beyond(c), limit)
      THEN /\ \E last \in items : /\ \A x \in items : x <= last
                                  /\ cursor' = [cursor EXCEPT ![c] = last]
           /\ state' = [state EXCEPT ![c] = "paging"]
      ELSE /\ state' = [state EXCEPT ![c] = "done"]
           /\ UNCHANGED cursor

\* A request: getRejectedRecords is one query.
ReadPage(c, requested) ==
    LET limit == ClampLimit(requested)
        items == FirstOf(Beyond(c), limit)
    IN  /\ state[c] # "done"
        /\ start' = [start EXCEPT ![c] = IF state[c] = "idle" THEN rows ELSE @]
        /\ seen' = [seen EXCEPT ![c] = @ \cup items]
        /\ received' = [received EXCEPT ![c] = @ + Cardinality(items)]
        /\ page' = [page EXCEPT ![c] = Cardinality(items)]
        /\ NextCursor(c, items, limit)
        /\ UNCHANGED rows

Request(c) == \E requested \in RequestedLimits : ReadPage(c, requested)

Next ==
    \/ \E S \in SUBSET (Ids \ rows) : InsertRows(S)
    \/ \E c \in Clients : Request(c)

Spec == Init /\ [][Next]_vars

-----------------------------------------------------------------------------
(***************************************************************************)
(* Properties.                                                             *)
(***************************************************************************)
\* A traversal is given no row twice, whatever limits it asks for and whatever is
\* inserted meanwhile.
NoRowTwice == \A c \in Clients : received[c] = Cardinality(seen[c])

\* A traversal that ended was given every row there was when it began.  A row
\* inserted later, behind the cursor, is missed.
StartRowsSeen == \A c \in Clients : state[c] = "done" => start[c] \subseteq seen[c]
=============================================================================
