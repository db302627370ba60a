------------------------------ MODULE QueueList ------------------------------
(***************************************************************************)
(* The queue as the repository protocol promises it (queue/repository.py)   *)
(* and as InMemoryQueueRepository has it: a list without duplicates, and    *)
(* operations on it that happen at once or not at all.                     *)
(***************************************************************************)
EXTENDS Integers, Sequences, SequencesExt

CONSTANT Items
VARIABLE list

Init == list = <<>>

\* list.insert(max(0, min(index, len)), item)
ListInsert(i) ==
    /\ i \notin ToSet(list)
    /\ \E k \in 0..Len(list) : list' = InsertAt(list, k + 1, i)

ListRemove(i) == \E k \in DOMAIN list : list[k] = i /\ list' = RemoveAt(list, k)

ListPopFront == list # <<>> /\ list' = Tail(list)

ListClear == list' = <<>>

Next ==
    \/ \E i \in Items : ListInsert(i) \/ ListRemove(i)
    \/ ListPopFront \/ ListClear

Spec == Init /\ [][Next]_list
=============================================================================
