---------------------------- MODULE RecordStore ----------------------------
(***************************************************************************)
(* What the transaction table promises: a record belongs for good to the   *)
(* import that stored it first, and an import's accepted counter counts    *)
(* the records it owns.                                                    *)
(***************************************************************************)
EXTENDS Naturals

CONSTANTS Imports, Keys, None,
          Size(_)       \* the number of elements of a set

VARIABLES owner, accepted

Init ==
    /\ owner = [k \in Keys |-> None]
    /\ accepted = [i \in Imports |-> 0]

\* An import stores any set of records nobody owns.
Store(i, new) ==
    /\ \A k \in new : owner[k] = None
    /\ owner' = [k \in Keys |-> IF k \in new THEN i ELSE owner[k]]
    /\ accepted' = [accepted EXCEPT ![i] = @ + Size(new)]

Next == \E i \in Imports : \E new \in SUBSET Keys : Store(i, new)

Spec == Init /\ [][Next]_<<owner, accepted>>
=============================================================================
