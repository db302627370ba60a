---------------------------- MODULE QueueContract ----------------------------
(***************************************************************************)
(* What a run queue promises its clients, with neither threads nor steps   *)
(* of code: items wait in a line; the first is taken when the queue is     *)
(* permitted to run and nothing else is on; it ends with some state and    *)
(* that is written to the history before another item is taken; an item    *)
(* that does not complete takes the permission away.  A crash, of the      *)
(* process or of its runner (a plan that calls exit()), loses the item     *)
(* being run and nothing else.                                             *)
(***************************************************************************)
EXTENDS Sequences, SequencesExt

CONSTANTS Items, States, None

VARIABLES waiting,   \* the line of items
          current,   \* None, or the item being run and how it ended so far
          written,   \* the history
          permitted  \* a client has the queue run

vars == <<waiting, current, written, permitted>>

Init ==
    /\ waiting = <<>> /\ current = None /\ written = <<>> /\ permitted = FALSE

Submit(i) ==
    /\ waiting' \in {Append(waiting, i), <<i>> \o waiting}
    /\ UNCHANGED <<current, written, permitted>>

Withdraw(i) ==
    /\ \E k \in DOMAIN waiting : waiting[k] = i /\ waiting' = RemoveAt(waiting, k)
    /\ UNCHANGED <<current, written, permitted>>

Permit == permitted' = TRUE /\ UNCHANGED <<waiting, current, written>>

Take ==
    /\ permitted /\ current = None /\ waiting # <<>>
    /\ current' = [item |-> Head(waiting), state |-> None]
    /\ waiting' = Tail(waiting)
    /\ UNCHANGED <<written, permitted>>

End(s) ==
    /\ current # None /\ current.state = None
    /\ current' = [current EXCEPT !.state = s]
    /\ permitted' = (permitted /\ s = "completed")
    /\ UNCHANGED <<waiting, written>>

Write ==
    /\ current # None /\ current.state # None
    /\ written' = Append(written, current)
    /\ current' = None
    /\ UNCHANGED <<waiting, permitted>>

Crash ==
    /\ current' = None /\ permitted' = FALSE
    /\ UNCHANGED <<waiting, written>>

Next ==
    \/ \E i \in Items : Submit(i) \/ Withdraw(i)
    \/ Permit \/ Take \/ Write \/ Crash
    \/ \E s \in States : End(s)

Spec == Init /\ [][Next]_vars
=============================================================================
