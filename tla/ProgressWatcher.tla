---------------------------- MODULE ProgressWatcher ----------------------------
(***************************************************************************)
(* Device progress (engine/progress.py): the waiting hook of the RunEngine *)
(* and the callbacks it registers on the statuses that a plan waits for.   *)
(*                                                                         *)
(* The RunEngine (external) calls the hook with the statuses of a wait and *)
(* with None when the wait ends, which is when they are all finished or    *)
(* when one has failed; a status belongs to one wait.  A status (external) *)
(* calls its progress callback from its own thread while it moves, and its *)
(* completion callback from a thread once it has finished.  Every callback *)
(* takes ProgressWatcher._lock, leaves it, and emits an event after that:  *)
(* a step is one critical section or one emission.                         *)
(***************************************************************************)
EXTENDS Integers, FiniteSets

CONSTANTS Statuses, None

ASSUME ProgressAssumption == None \notin {"moving", "done"}

VARIABLES
    unused,      \* bound: statuses that may still be waited for
    hook,        \* where the thread that calls the hook is
    todo,        \* the statuses of the call that are still to be watched
    watched,     \* ProgressWatcher._watched
    payload,     \* ProgressWatcher._last_payload, by what it says of done
    updated,     \* the keys of ProgressWatcher._last_sent
    finished,    \* status.done
    update,      \* where the progress callback of each status is
    sawDone,     \* its local variable done
    completion,  \* where the completion callback of each status is
    snapshot,    \* per callback: its local variable statuses, not yet emitted
    shown        \* the event that clients were sent last

progressVars == <<unused, hook, todo, watched, payload, updated, finished,
                  update, sawDone, completion, snapshot, shown>>

\* What is known of each status; the value of _snapshot().
Pictures == [Statuses -> {"moving", "done", None}]
Nothing == [s \in Statuses |-> None]

Update == "update"
Completion == "completion"
Callbacks == {Update, Completion}

\* The event that says that the wait is over: it shows no status.
Completed == [s \in Statuses |-> "over"]

\* A type for every variable.
ProgressTypeOK ==
    /\ unused \subseteq Statuses /\ todo \subseteq Statuses /\ watched \subseteq Statuses
    /\ hook \in {"out", "adding", "waiting", "clearing"}
    /\ payload \in Pictures
    /\ updated \subseteq Statuses /\ finished \subseteq Statuses
    /\ update \in [Statuses -> {"none", "armed", "lock", "emit"}]
    /\ sawDone \in [Statuses -> BOOLEAN]
    /\ completion \in
           [Statuses -> {"none", "refused", "armed", "read", "write", "emit", "over"}]
    /\ snapshot \in [Callbacks \X Statuses -> Pictures]
    /\ shown \in Pictures \cup {Completed}

ProgressInit ==
    /\ unused \in SUBSET Statuses /\ hook = "out" /\ todo = {} /\ watched = {}
    /\ payload = Nothing /\ updated = {} /\ finished = {}
    /\ update = [s \in Statuses |-> "none"]
    /\ sawDone = [s \in Statuses |-> FALSE]
    /\ completion = [s \in Statuses |-> "none"]
    /\ snapshot = [c \in Callbacks \X Statuses |-> Nothing]
    /\ shown = Completed

-----------------------------------------------------------------------------
(* The hook. *)

\* __call__ with the statuses of a wait.
BeginWait(S) ==
    /\ hook = "out" /\ S \subseteq unused /\ S # {}
    /\ hook' = "adding" /\ todo' = S /\ unused' = unused \ S
    /\ UNCHANGED <<watched, payload, updated, finished, update, sawDone, completion,
                   snapshot, shown>>

\* add_callback
ArmCompletion(s) == completion' = [completion EXCEPT ![s] = "armed"]

\* One turn of the loop: the status is marked, and watched unless it has finished
\* by now or does not support watch(); it may refuse a completion callback.
WatchStatus(s) ==
    /\ hook = "adding" /\ s \in todo
    /\ todo' = todo \ {s}
    /\ watched' = watched \cup {s}
    /\ \/ /\ s \notin finished
          /\ update' = [update EXCEPT ![s] = "armed"]
          /\ \/ ArmCompletion(s)
             \/ completion' = [completion EXCEPT ![s] = "refused"]
       \/ UNCHANGED <<update, completion>>
    /\ hook' = IF todo = {s} THEN "waiting" ELSE hook
    /\ UNCHANGED <<unused, payload, updated, finished, sawDone, snapshot, shown>>

\* __call__(None), first _send_completed.
EndWait ==
    /\ hook = "waiting"
    /\ shown' = Completed
    /\ hook' = "clearing"
    /\ UNCHANGED <<unused, todo, watched, payload, updated, finished, update, sawDone,
                   completion, snapshot>>

\* Then the maps are cleared.
ClearMaps ==
    /\ hook = "clearing"
    /\ watched' = {} /\ payload' = Nothing /\ updated' = {}
    /\ hook' = "out"
    /\ UNCHANGED <<unused, todo, finished, update, sawDone, completion, snapshot, shown>>

-----------------------------------------------------------------------------
(* The statuses. *)

\* A status finishes, before or after the hook has got to it.
Finish(s) ==
    /\ s \in todo \cup watched \/ update[s] # "none"
    /\ s \notin finished
    /\ finished' = finished \cup {s}
    /\ UNCHANGED <<unused, hook, todo, watched, payload, updated, update, sawDone,
                   completion, snapshot, shown>>

CompletionRuns(s) ==
    /\ completion[s] = "armed" /\ s \in finished
    /\ completion' = [completion EXCEPT ![s] = "read"]
    /\ UNCHANGED <<unused, hook, todo, watched, payload, updated, finished, update,
                   sawDone, snapshot, shown>>

\* A moving status reports; done is computed before the lock is taken, from the
\* status or from a fraction that has reached 1 although the status has not.
UpdateRuns(s) ==
    /\ update[s] = "armed" /\ s \notin finished
    /\ update' = [update EXCEPT ![s] = "lock"]
    /\ \E full \in BOOLEAN : sawDone' = [sawDone EXCEPT ![s] = full]
    /\ UNCHANGED <<unused, hook, todo, watched, payload, updated, finished, completion,
                   snapshot, shown>>

\* Mutant: a late update is merged whatever was reported.
NeverReported(s) == FALSE

\* "completion already reported"
Reported(s) == payload[s] = "done"

\* callback, its critical section: it returns if the completion was reported, or
\* (the throttle, whose clock is left out) if it reported a short while ago.
UpdateLock(s) ==
    /\ update[s] = "lock"
    /\ IF Reported(s)
       THEN update' = [update EXCEPT ![s] = "armed"] /\ UNCHANGED <<payload, updated, snapshot>>
       ELSE /\ payload' = [payload EXCEPT ![s] = IF sawDone[s] THEN "done" ELSE "moving"]
            /\ \/ /\ ~sawDone[s] /\ s \in updated
                  /\ update' = [update EXCEPT ![s] = "armed"]
                  /\ UNCHANGED <<updated, snapshot>>
               \/ /\ update' = [update EXCEPT ![s] = "emit"]
                  /\ updated' = updated \cup {s}
                  /\ snapshot' = [snapshot EXCEPT ![<<Update, s>>] = payload']
    /\ UNCHANGED <<unused, hook, todo, watched, finished, sawDone, completion, shown>>

UpdateEmit(s) ==
    /\ update[s] = "emit"
    /\ shown' = snapshot[<<Update, s>>]
    /\ snapshot' = [snapshot EXCEPT ![<<Update, s>>] = Nothing]
    /\ update' = [update EXCEPT ![s] = "armed"]
    /\ UNCHANGED <<unused, hook, todo, watched, payload, updated, finished, sawDone,
                   completion>>

\* on_done, its first critical section: it returns if done was reported.
OnDoneRead(s) ==
    /\ completion[s] = "read"
    /\ completion' = [completion EXCEPT ![s] = IF Reported(s) THEN "over" ELSE "write"]
    /\ UNCHANGED <<unused, hook, todo, watched, payload, updated, finished, update,
                   sawDone, snapshot, shown>>

\* Its second one.
OnDoneWrite(s) ==
    /\ completion[s] = "write"
    /\ payload' = [payload EXCEPT ![s] = "done"]
    /\ snapshot' = [snapshot EXCEPT ![<<Completion, s>>] = payload']
    /\ completion' = [completion EXCEPT ![s] = "emit"]
    /\ UNCHANGED <<unused, hook, todo, watched, updated, finished, update, sawDone, shown>>

OnDoneEmit(s) ==
    /\ completion[s] = "emit"
    /\ shown' = snapshot[<<Completion, s>>]
    /\ snapshot' = [snapshot EXCEPT ![<<Completion, s>>] = Nothing]
    /\ completion' = [completion EXCEPT ![s] = "over"]
    /\ UNCHANGED <<unused, hook, todo, watched, payload, updated, finished, update,
                   sawDone>>

-----------------------------------------------------------------------------
HookStep ==
    \/ \E S \in SUBSET Statuses : BeginWait(S)
    \/ \E s \in Statuses : WatchStatus(s)
    \/ EndWait \/ ClearMaps

StatusStep ==
    \E s \in Statuses :
        \/ Finish(s) \/ CompletionRuns(s) \/ UpdateRuns(s)
        \/ UpdateLock(s) \/ UpdateEmit(s)
        \/ OnDoneRead(s) \/ OnDoneWrite(s) \/ OnDoneEmit(s)

ProgressNext == HookStep \/ StatusStep

-----------------------------------------------------------------------------
(* Properties. *)

\* "completion already reported": within a wait, a status once recorded as done
\* is not moving again, although the two callbacks race and each of them acts on
\* what it saw before it had the lock.
DoneStaysDone ==
    [][\A s \in Statuses :
          payload[s] = "done" => payload'[s] = "done" \/ hook = "clearing"]_progressVars

\* progress.py:114, "Statuses already finished stay in the map with done: true until
\* the wait ends", and not those of an earlier wait: a callback that runs after the maps
\* were cleared puts its status back, to be shown with the next.
OnlyTheWaitInTheMap ==
    \A s \in Statuses \ watched : payload[s] = None

\* progress.py:7: "completed: True is published when the wait ends", that is, no
\* progress is published after it until something is waited for again.
CompletedIsLast ==
    hook = "out" => shown = Completed
================================================================================
