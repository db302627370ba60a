------------------------------ MODULE QueueTable ------------------------------
(***************************************************************************)
(* The queue table of persistence/queue_repository.py: each row is a uid    *)
(* with its position, so the table is a function from uids to positions.    *)
(* The operators are what one transaction of SqlQueueRepository does to it; *)
(* the columns that carry the content of an item are left out.             *)
(***************************************************************************)
EXTENDS Integers, FiniteSets, Functions

Uids(t) == DOMAIN t
Count(t) == Cardinality(DOMAIN t)

\* max(0, min(index, count))
Clamp(k, n) == IF k < 0 THEN 0 ELSE IF k > n THEN n ELSE k

\* Mutant: the shift misses the row at the insertion point.
InsertedNoShift(t, i, k) ==
    LET p == Clamp(k, Count(t))
    IN  [j \in Uids(t) \cup {i} |->
            IF j = i THEN p ELSE IF t[j] > p THEN t[j] + 1 ELSE t[j]]

\* insert: the rows at and behind the position move back by one.
Inserted(t, i, k) ==
    LET p == Clamp(k, Count(t))
    IN  [j \in Uids(t) \cup {i} |->
            IF j = i THEN p ELSE IF t[j] >= p THEN t[j] + 1 ELSE t[j]]

\* Mutant: nothing is renumbered.
RemovedGap(t, i) == [j \in Uids(t) \ {i} |-> t[j]]

\* remove: the rows behind the deleted one move up by one.
Removed(t, i) ==
    [j \in Uids(t) \ {i} |-> IF t[j] > t[i] THEN t[j] - 1 ELSE t[j]]

\* The row that ORDER BY position LIMIT 1 selects.
FrontUid(t) == CHOOSE i \in Uids(t) : \A j \in Uids(t) : t[i] <= t[j]

\* pop_front: the front row is deleted, every other position decremented.
Popped(t) == [j \in Uids(t) \ {FrontUid(t)} |-> t[j] - 1]

\* "Positions are dense integers": 0, 1, ..., one row each.
Dense(t) ==
    /\ \A i, j \in Uids(t) : t[i] = t[j] => i = j
    /\ \A i \in Uids(t) : t[i] \in 0..(Count(t) - 1)
    /\ \A p \in 0..(Count(t) - 1) : \E i \in Uids(t) : t[i] = p

\* list_items, ORDER BY position: the p-th is a row with fewer than p rows below
\* its position and at least p at or below it.
ListOf(t) ==
    [p \in 1..Count(t) |->
        CHOOSE i \in Uids(t) :
            /\ Cardinality({j \in Uids(t) : t[j] < t[i]}) < p
            /\ Cardinality({j \in Uids(t) : t[j] <= t[i]}) >= p]
=============================================================================
