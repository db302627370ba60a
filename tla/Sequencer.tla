------------------------------ MODULE Sequencer ------------------------------
(***************************************************************************)
(* The queue loop of qs (sequencer/sequencer.py) and the operations that   *)
(* HTTP clients perform on it while it runs.                               *)
(*                                                                         *)
(* Two threads act.  Seq is the "qs-sequencer" thread: it decides whether  *)
(* to run, pops the head of the queue, submits it to the engine, waits,    *)
(* records the outcome.  Http is the event-loop thread, which serves one   *)
(* request at a time, each to its end.  A step of either thread is the     *)
(* code between two points at which the other one can act: a transaction   *)
(* of the database, a critical section of Sequencer._lock, or an access    *)
(* to a field that no lock protects.                                       *)
(*                                                                         *)
(* queue and history live in the database; a call made while the database  *)
(* is down raises.  The engine is reduced to what the loop sees of it:     *)
(* idle or running, and an exit status at the end of a plan.               *)
(***************************************************************************)
EXTENDS Integers, Sequences, SequencesExt

CONSTANTS
    Items,          \* the item uids that clients and loop mode can use
    Exits,          \* the exit statuses a plan can end with
    RequireSynced,  \* engine.require_synced_experiment
    MaxOutages,     \* bound: how often the database goes down
    MaxRestarts,    \* bound: how often the process dies and starts again
    None            \* Python's None

Loop == "seq"
Http == "http"
Threads == {Loop, Http}

\* _EXIT_TO_STATE, with the .get default of _record.
ExitState(e) ==
    CASE e = "success" -> "completed"
      [] e = "abort"   -> "aborted"
      [] e = "stop"    -> "stopped"
      [] e = "halt"    -> "halted"
      [] OTHER         -> "failed"

States == {"completed", "aborted", "stopped", "halted", "failed"}
Entries == [item : Items, state : States]

ASSUME SequencerAssumption ==
    /\ None \notin Items \cup States \cup [item : Items, state : States \cup {None}]
    /\ {"success", "fail"} \subseteq Exits
    /\ RequireSynced \in BOOLEAN
    /\ MaxOutages \in Nat
    /\ MaxRestarts \in Nat

VARIABLES
    queue,           \* the queue table, in order of position
    history,         \* the history table, in order of id
    running,         \* Sequencer._running
    stopPending,     \* Sequencer._stop_pending
    autostart,       \* Sequencer._autostart
    loopMode,        \* Sequencer._loop_mode
    closing,         \* Sequencer._closing
    runningItem,     \* Sequencer._running_item
    pendingHistory,  \* Sequencer._pending_history
    pc,              \* where each thread is
    read,            \* the entry each thread has read to flush
    item,            \* the local variable of _loop and _run_one
    exit,            \* outcome.exit_status
    engine,          \* EngineHost.state: "idle" or "running"
    dbUp,            \* the database answers
    synced,          \* RE.md has a data_session
    outages,         \* database outages so far
    restarts         \* process deaths so far

\* Auxiliary variables: they record the past and no guard reads them.
VARIABLES
    submitted,       \* uids ever accepted into the queue
    withdrawn,       \* uids that a client removed from the queue
    handed,          \* uids popped by the sequencer, in order
    lost,            \* uids whose outcome went with a process or with a plan that
                     \* calls exit()
    overlapped,      \* both threads have been in the middle of a flush at once
    authority,       \* who has started the queue since it last had to stop
    sinceStop        \* items popped since a stop was accepted, or NoStop

dbVars    == <<queue, history>>
flagVars  == <<running, stopPending>>
modeVars  == <<autostart, loopMode, closing>>
envVars   == <<dbUp, synced, outages, restarts>>
itemVars  == <<submitted, withdrawn, handed, lost>>
auxVars   == <<itemVars, authority, sinceStop>>
planVars  == <<runningItem, item, exit, engine>>
flushVars == <<pendingHistory, read, overlapped>>
heldVars  == <<flushVars, planVars>>
vars == <<dbVars, flagVars, modeVars, pc, heldVars, envVars, auxVars>>

NoStop == -1

SeqPCs  == {"check", "pop", "empty", "take", "run", "flush", "append", "drop",
            "record", "hold", "settle", "finish", "dead", "closed"}
HttpPCs == {"idle", "start", "flush", "append", "drop", "enter", "count"}

\* The Boolean fields.
FlagsOK ==
    /\ running \in BOOLEAN /\ stopPending \in BOOLEAN
    /\ autostart \in BOOLEAN /\ loopMode \in BOOLEAN /\ closing \in BOOLEAN
    /\ dbUp \in BOOLEAN /\ synced \in BOOLEAN /\ overlapped \in BOOLEAN

\* Where the threads are, and what they hold there.
ControlOK ==
    /\ pc \in [Threads -> SeqPCs \cup HttpPCs]
    /\ pc[Loop] \in SeqPCs /\ pc[Http] \in HttpPCs
    /\ read \in [Threads -> Entries \cup {None}]
    /\ \A t \in Threads : pc[t] = "append" => read[t] \in Entries
    /\ item \in Items \cup {None} /\ runningItem \in Items \cup {None}
    /\ exit \in Exits \cup {None}
    /\ pc[Loop] \in {"take", "run", "flush", "append", "drop", "record", "hold",
                     "settle", "finish"} => item \in Items
    /\ pc[Loop] \in {"flush", "append", "drop", "record", "hold", "settle"}
          => exit \in Exits

\* The tables, the held entries and the auxiliary variables.
DataOK ==
    /\ queue \in Seq(Items) /\ history \in Seq(Entries)
    /\ pendingHistory \in Seq(Entries)
    /\ engine \in {"idle", "running"}
    /\ outages \in Nat /\ restarts \in Nat
    /\ submitted \subseteq Items /\ withdrawn \subseteq Items /\ lost \subseteq Items
    /\ handed \in Seq(Items)
    /\ authority \in {"none", "human", "autostart"}
    /\ sinceStop \in Nat \cup {NoStop}

\* A type for every variable; what the threads hold is tied to where they are.
TypeOK == FlagsOK /\ ControlOK /\ DataOK

Init ==
    /\ queue = <<>> /\ history = <<>>
    /\ running = FALSE /\ stopPending = FALSE
    /\ autostart = FALSE /\ loopMode = FALSE /\ closing = FALSE
    /\ runningItem = None /\ pendingHistory = <<>>
    /\ pc = [t \in Threads |-> IF t = Loop THEN "check" ELSE "idle"]
    /\ read = [t \in Threads |-> None]
    /\ item = None /\ exit = None /\ engine = "idle"
    /\ dbUp = TRUE /\ synced \in BOOLEAN /\ outages = 0 /\ restarts = 0
    /\ submitted = {} /\ withdrawn = {} /\ handed = <<>> /\ lost = {}
    /\ overlapped = FALSE
    /\ authority = "none" /\ sinceStop = NoStop

-----------------------------------------------------------------------------
(* Helpers shared by the actions. *)

Goto(t, label) == pc' = [pc EXCEPT ![t] = label]
OnlyPc == UNCHANGED <<dbVars, flagVars, modeVars, heldVars, envVars, auxVars>>

\* Http holds Sequencer._lock while queue_start counts the items a second time.
LockFree == pc[Http] # "count"

\* The whole of _check_experiment.
ExperimentOK == RequireSynced => synced

Entry(i, e) == [item |-> i, state |-> ExitState(e)]

\* Mutants of the next definition.
SelfStopForgotten    == UNCHANGED flagVars
SelfStopKeepsRequest == running' = FALSE /\ UNCHANGED stopPending

\* The queue stops itself: `self._running = False; self._stop_pending = False`.
SelfStop == running' = FALSE /\ stopPending' = FALSE

\* What queue_stop sets.
RequestStop == stopPending' = TRUE /\ UNCHANGED running

\* Mutant: the request is never looked at.
NoStopRequest == FALSE

\* The test of it in _should_run.
StopRequested == running /\ stopPending

\* Mutant: `> 1` for `> 0`.
AutostartWaitsForTwo == autostart /\ ~running /\ Len(queue) > 1

\* The test of autostart in _should_run, when the database answers it.
AutostartDue == autostart /\ ~running /\ Len(queue) > 0

-----------------------------------------------------------------------------
(* The sequencer thread. *)

\* _should_run, first the branch of a requested stop.
SeqStopAsRequested ==
    /\ pc[Loop] = "check" /\ LockFree /\ ~closing
    /\ StopRequested
    /\ SelfStop
    /\ sinceStop' = NoStop
    /\ UNCHANGED <<dbVars, modeVars, pc, heldVars, envVars, itemVars, authority>>

\* _should_run: autostart finds items.  len(self._queue) is a database read.
SeqAutostart ==
    /\ pc[Loop] = "check" /\ LockFree /\ ~closing
    /\ dbUp /\ AutostartDue
    /\ running' = TRUE
    /\ authority' = IF authority = "none" THEN "autostart" ELSE authority
    /\ sinceStop' = NoStop
    /\ IF engine = "idle" THEN Goto(Loop, "pop") ELSE UNCHANGED pc
    /\ UNCHANGED <<dbVars, stopPending, modeVars, heldVars, envVars, itemVars>>

\* _should_run: the queue is started and the engine idle.
SeqGo ==
    /\ pc[Loop] = "check" /\ LockFree /\ ~closing
    /\ running /\ ~StopRequested /\ engine = "idle"
    /\ Goto(Loop, "pop")
    /\ OnlyPc

\* _should_run asks the database for the length of the queue, which raises.
\* _loop catches nothing: the thread is gone and the flags stay as they are.
SeqDieChecking ==
    /\ pc[Loop] = "check" /\ LockFree /\ ~closing
    /\ autostart /\ ~running /\ ~dbUp
    /\ Goto(Loop, "dead")
    /\ OnlyPc

\* `while not self._closing` ends the thread.
SeqClose ==
    /\ pc[Loop] = "check" /\ closing
    /\ Goto(Loop, "closed")
    /\ OnlyPc

\* Mutant: the row is read and not deleted.
PopForgetsDelete(q) == q

\* What pop_front leaves in the table.
AfterPop(q) == Tail(q)

\* QueueService.pop_front: one transaction, which commits or raises.
SeqPop ==
    /\ pc[Loop] = "pop"
    /\ \/ /\ dbUp /\ queue # <<>>
          /\ item' = Head(queue)
          /\ queue' = AfterPop(queue)
          /\ handed' = Append(handed, Head(queue))
          /\ sinceStop' = IF sinceStop = NoStop THEN NoStop ELSE sinceStop + 1
          /\ Goto(Loop, "take")
       \/ /\ dbUp /\ queue = <<>>
          /\ Goto(Loop, "empty")
          /\ UNCHANGED <<item, queue, handed, sinceStop>>
       \/ /\ ~dbUp
          /\ Goto(Loop, "dead")
          /\ UNCHANGED <<item, queue, handed, sinceStop>>
    /\ UNCHANGED <<history, flagVars, modeVars, flushVars,
                   runningItem, exit, engine, envVars, submitted, withdrawn, lost, authority>>

\* pop_front returned None: the queue goes idle.
SeqEmpty ==
    /\ pc[Loop] = "empty" /\ LockFree
    /\ SelfStop
    /\ sinceStop' = NoStop
    /\ Goto(Loop, "check")
    /\ UNCHANGED <<dbVars, modeVars, heldVars, envVars, itemVars, authority>>

\* A failed, aborted, stopped or halted item must stop the queue until it is
\* started again; so must an outcome that could not be written.
MustStop(e) == IF e = "success" THEN authority ELSE "none"

\* _run_one up to the submission: resolve may refuse the item, run_plan refuses
\* when the engine is not idle; both end in a failed outcome.
SeqTake ==
    /\ pc[Loop] = "take"
    /\ runningItem' = item
    /\ \/ /\ engine = "idle"
          /\ engine' = "running"
          /\ Goto(Loop, "run")
          /\ UNCHANGED <<exit, authority>>
       \/ /\ exit' = "fail"
          /\ authority' = MustStop("fail")
          /\ Goto(Loop, "flush")
          /\ UNCHANGED engine
    /\ UNCHANGED <<dbVars, flagVars, modeVars, flushVars, item, envVars,
                   itemVars, sinceStop>>

\* The engine thread finishes the plan and resolves the future.
PlanEnds(e) ==
    /\ pc[Loop] = "run" /\ engine = "running"
    /\ engine' = "idle"
    /\ exit' = e
    /\ authority' = MustStop(e)
    /\ Goto(Loop, "flush")
    /\ UNCHANGED <<dbVars, flagVars, modeVars, flushVars, runningItem, item,
                   envVars, itemVars, sinceStop>>

\* `except BaseException` of _run_one: code of the profile calls exit(), as the
\* name is resolved or in the plan.  Nothing catches it: the thread is gone, the
\* item has no outcome, the flags stay as they are, and so does the engine.
SeqExits ==
    /\ pc[Loop] \in {"take", "run"}
    /\ runningItem' = None /\ item' = None
    /\ lost' = lost \cup {item}
    /\ Goto(Loop, "dead")
    /\ UNCHANGED <<dbVars, flagVars, modeVars, flushVars, exit, engine, envVars,
                   submitted, withdrawn, handed, authority, sinceStop>>

-----------------------------------------------------------------------------
(* flush_pending_history, which both threads run and no lock protects. *)

\* Mutant: the loop takes "flushed" for "recorded".
FlushedIsRecorded(t) == IF t = Loop THEN "settle" ELSE "enter"

\* Mutant: the pop(0) is in a `finally`: an entry that was not written goes too.
DroppedUnwritten(t) == "drop"

\* Where each thread goes when nothing is left, when a write fails, and when
\* the pop raises IndexError: _record ignores the result of the flush, but an
\* exception ends the sequencer thread; queue_start refuses.
Flushed(t)     == IF t = Loop THEN "record" ELSE "enter"
FlushFailed(t) == IF t = Loop THEN "record" ELSE "idle"
FlushRaised(t) == IF t = Loop THEN "dead" ELSE "idle"

\* Where a thread has an entry of pendingHistory in its hands.
Flushing(t) == pc[t] \in {"append", "drop"}

\* The test of the while loop and the read of the first entry.
FlushRead(t) ==
    /\ pc[t] = "flush"
    /\ IF pendingHistory = <<>>
       THEN Goto(t, Flushed(t)) /\ UNCHANGED <<read, overlapped>>
       ELSE /\ Goto(t, "append")
            /\ read' = [read EXCEPT ![t] = Head(pendingHistory)]
            /\ overlapped' = (overlapped \/ \E other \in Threads \ {t} : Flushing(other))
    /\ UNCHANGED <<dbVars, flagVars, modeVars, pendingHistory, planVars,
                   envVars, auxVars>>

\* QueueService.record_history of the entry that was read.
FlushAppend(t) ==
    /\ pc[t] = "append"
    /\ IF dbUp
       THEN history' = Append(history, read[t]) /\ Goto(t, "drop")
       ELSE UNCHANGED history /\ Goto(t, FlushFailed(t))
    /\ read' = [read EXCEPT ![t] = None]
    /\ UNCHANGED <<queue, flagVars, modeVars, pendingHistory, overlapped, planVars,
                   envVars, auxVars>>

\* pop(0) takes whatever is first by now, or raises IndexError.
FlushDrop(t) ==
    /\ pc[t] = "drop"
    /\ IF pendingHistory # <<>>
       THEN pendingHistory' = Tail(pendingHistory) /\ Goto(t, "flush")
       ELSE UNCHANGED pendingHistory /\ Goto(t, FlushRaised(t))
    /\ UNCHANGED <<dbVars, flagVars, modeVars, read, overlapped, planVars, envVars,
                   auxVars>>

-----------------------------------------------------------------------------
(* The sequencer thread, after the flush. *)

\* _record: write the entry, or hold it in memory.
SeqRecord ==
    /\ pc[Loop] = "record"
    /\ \/ /\ dbUp
          /\ history' = Append(history, Entry(item, exit))
          /\ Goto(Loop, "settle")
          /\ UNCHANGED <<pendingHistory, authority>>
       \/ /\ ~dbUp
          /\ pendingHistory' = Append(pendingHistory, Entry(item, exit))
          /\ authority' = "none"
          /\ Goto(Loop, "hold")
          /\ UNCHANGED history
    /\ UNCHANGED <<queue, flagVars, modeVars, read, overlapped, planVars, envVars,
                   itemVars, sinceStop>>

\* _record: the critical section that stops the queue; it leaves _stop_pending.
SeqHold ==
    /\ pc[Loop] = "hold" /\ LockFree
    /\ running' = FALSE
    /\ Goto(Loop, "settle")
    /\ UNCHANGED <<dbVars, stopPending, modeVars, heldVars, envVars, auxVars>>

\* Loop mode puts a successful item back under a fresh uid, at the back.
\* Bound: when no uid is left nothing is added.
SeqLoopItem ==
    /\ pc[Loop] = "settle" /\ exit = "success" /\ loopMode
    /\ \/ /\ dbUp
          /\ \E fresh \in Items \ submitted :
                /\ queue' = Append(queue, fresh)
                /\ submitted' = submitted \cup {fresh}
          /\ UNCHANGED running
       \/ /\ dbUp /\ Items \subseteq submitted
          /\ UNCHANGED <<queue, submitted, running>>
       \/ /\ ~dbUp /\ LockFree      \* _safe: the queue stops
          /\ running' = FALSE
          /\ UNCHANGED <<queue, submitted>>
    /\ Goto(Loop, "finish")
    /\ UNCHANGED <<history, stopPending, modeVars, heldVars, envVars,
                   withdrawn, handed, lost, authority, sinceStop>>

SeqSuccess ==
    /\ pc[Loop] = "settle" /\ exit = "success" /\ ~loopMode
    /\ Goto(Loop, "finish")
    /\ OnlyPc

\* Stop-and-wait.
SeqStopAndWait ==
    /\ pc[Loop] = "settle" /\ exit # "success" /\ LockFree
    /\ SelfStop
    /\ sinceStop' = NoStop
    /\ Goto(Loop, "finish")
    /\ UNCHANGED <<dbVars, modeVars, heldVars, envVars, itemVars, authority>>

\* The end of _run_one.
SeqFinish ==
    /\ pc[Loop] = "finish"
    /\ runningItem' = None
    /\ item' = None /\ exit' = None
    /\ Goto(Loop, "check")
    /\ UNCHANGED <<dbVars, flagVars, modeVars, flushVars, engine, envVars, auxVars>>

-----------------------------------------------------------------------------
(* HTTP requests.  A refused request that changes nothing is no step. *)

Serving == pc[Http] = "idle" /\ ~closing

\* POST /queue/item/add at the back of the queue (QueueService.add).
AddItem(i) ==
    /\ Serving /\ dbUp /\ i \notin submitted
    /\ queue' = Append(queue, i)
    /\ submitted' = submitted \cup {i}
    /\ UNCHANGED <<history, flagVars, modeVars, pc, heldVars, envVars,
                   withdrawn, handed, lost, authority, sinceStop>>

\* POST /queue/item/remove (QueueService.remove).
RemoveItem(i) ==
    /\ Serving /\ dbUp
    /\ \E k \in DOMAIN queue : queue[k] = i /\ queue' = RemoveAt(queue, k)
    /\ withdrawn' = withdrawn \cup {i}
    /\ UNCHANGED <<history, flagVars, modeVars, pc, heldVars, envVars,
                   submitted, handed, lost, authority, sinceStop>>

\* POST /queue/item/execute: the item goes to the front, then queue_start runs.
ExecuteNow(i) ==
    /\ Serving /\ dbUp /\ i \notin submitted
    /\ queue' = <<i>> \o queue
    /\ submitted' = submitted \cup {i}
    /\ Goto(Http, "start")
    /\ UNCHANGED <<history, flagVars, modeVars, heldVars, envVars, withdrawn,
                   handed, lost, authority, sinceStop>>

\* POST /queue/start.
StartCall ==
    /\ Serving
    /\ Goto(Http, "start")
    /\ OnlyPc

\* queue_start checks the experiment, then flushes.
StartCheck ==
    /\ pc[Http] = "start"
    /\ Goto(Http, IF ExperimentOK THEN "flush" ELSE "idle")
    /\ OnlyPc

\* queue_start, the critical section up to the flags.  The sequencer never
\* holds the lock across two steps.  (The NO_ENGINE refusal is never taken by
\* the composed service: it exits when no profile loads.)
StartEnter ==
    /\ pc[Http] = "enter"
    /\ \/ /\ dbUp /\ queue # <<>>
          /\ running' = TRUE /\ stopPending' = FALSE
          /\ authority' = "human" /\ sinceStop' = NoStop
          /\ Goto(Http, "count")
       \/ /\ ~dbUp \/ queue = <<>>
          /\ Goto(Http, "idle")
          /\ UNCHANGED <<flagVars, authority, sinceStop>>
    /\ UNCHANGED <<dbVars, modeVars, heldVars, envVars, itemVars>>

\* `n_items = len(self._queue)`, still under the lock, after the flags are set:
\* if it raises, the client is told the start failed but the queue runs.
StartCount ==
    /\ pc[Http] = "count"
    /\ Goto(Http, "idle")
    /\ OnlyPc

\* POST /queue/stop.
StopCall ==
    /\ Serving /\ running
    /\ RequestStop
    /\ sinceStop' = IF stopPending THEN sinceStop ELSE 0
    /\ UNCHANGED <<dbVars, modeVars, pc, heldVars, envVars, itemVars, authority>>

\* POST /queue/stop/cancel.
StopCancel ==
    /\ Serving
    /\ stopPending' = FALSE
    /\ sinceStop' = NoStop
    /\ UNCHANGED <<dbVars, running, modeVars, pc, heldVars, envVars, itemVars,
                   authority>>

\* POST /queue/autostart; only enabling it asks for an experiment.
SetAutostart(enable) ==
    /\ Serving
    /\ enable => ExperimentOK
    /\ autostart' = enable
    /\ authority' = IF enable THEN "human" ELSE authority
    /\ UNCHANGED <<dbVars, flagVars, loopMode, closing, pc, heldVars, envVars,
                   itemVars, sinceStop>>

\* POST /queue/mode/set with a loop key.
SetLoopMode(enable) ==
    /\ Serving
    /\ loopMode' = enable
    /\ UNCHANGED <<dbVars, flagVars, autostart, closing, pc, heldVars, envVars,
                   auxVars>>

\* Application.close: the HTTP server is gone by then.
Close ==
    /\ Serving
    /\ closing' = TRUE
    /\ UNCHANGED <<dbVars, flagVars, autostart, loopMode, pc, heldVars,
                   envVars, auxVars>>

-----------------------------------------------------------------------------
(* The environment. *)

DbFail ==
    /\ dbUp /\ outages < MaxOutages
    /\ dbUp' = FALSE /\ outages' = outages + 1
    /\ UNCHANGED <<dbVars, flagVars, modeVars, pc, heldVars, synced, restarts,
                   auxVars>>

DbRecover ==
    /\ ~dbUp
    /\ dbUp' = TRUE
    /\ UNCHANGED <<dbVars, flagVars, modeVars, pc, heldVars, synced, outages,
                   restarts, auxVars>>

\* RE.md is shared by every process of the beamline and changes at any time.
ExperimentChanges ==
    /\ RequireSynced
    /\ synced' = ~synced
    /\ UNCHANGED <<dbVars, flagVars, modeVars, pc, heldVars, dbUp, outages,
                   restarts, auxVars>>

\* The item whose outcome exists only in this process.
InHand ==
    IF pc[Loop] \in {"take", "run", "flush", "append", "drop", "record"}
    THEN {item} ELSE {}

PendingItems == {e.item : e \in ToSet(pendingHistory)}

\* The held entries that are not in the history: the first one is, while a
\* thread is between its append and its pop(0).
NotYetWritten ==
    IF pendingHistory # <<>> /\ \E t \in Threads : pc[t] = "drop"
    THEN Tail(pendingHistory)
    ELSE pendingHistory

\* The items of a sequence of entries.
ItemsOf(entries) == [k \in DOMAIN entries |-> entries[k].item]

HeldItems == ItemsOf(NotYetWritten)
Hand == IF InHand = {} THEN <<>> ELSE <<item>>

\* What ran and is in memory only, in order.
Unwritten == HeldItems \o Hand

\* The process dies (or ends, with the plan still running) and is started
\* again; the tables survive, every field has its initial value.  The start
\* needs the database (create_all).
Restart ==
    /\ restarts < MaxRestarts /\ dbUp
    /\ restarts' = restarts + 1
    /\ running' = FALSE /\ stopPending' = FALSE
    /\ autostart' = FALSE /\ loopMode' = FALSE /\ closing' = FALSE
    /\ runningItem' = None /\ pendingHistory' = <<>>
    /\ pc' = [t \in Threads |-> IF t = Loop THEN "check" ELSE "idle"]
    /\ read' = [t \in Threads |-> None]
    /\ item' = None /\ exit' = None /\ engine' = "idle"
    /\ lost' = lost \cup ToSet(Unwritten)
    /\ authority' = "none" /\ sinceStop' = NoStop
    /\ UNCHANGED <<dbVars, overlapped, dbUp, synced, outages, submitted, withdrawn,
                   handed>>

-----------------------------------------------------------------------------
SeqStep ==
    \/ SeqStopAsRequested \/ SeqAutostart \/ SeqGo \/ SeqDieChecking \/ SeqClose
    \/ SeqPop \/ SeqEmpty \/ SeqTake
    \/ FlushRead(Loop) \/ FlushAppend(Loop) \/ FlushDrop(Loop)
    \/ SeqRecord \/ SeqHold
    \/ SeqLoopItem \/ SeqSuccess \/ SeqStopAndWait \/ SeqFinish

\* The rest of a request that has begun.
HttpStep ==
    \/ StartCheck \/ FlushRead(Http) \/ FlushAppend(Http) \/ FlushDrop(Http)
    \/ StartEnter \/ StartCount

HttpRequest ==
    \/ \E i \in Items : AddItem(i) \/ RemoveItem(i) \/ ExecuteNow(i)
    \/ StartCall \/ StopCall \/ StopCancel
    \/ \E b \in BOOLEAN : SetAutostart(b) \/ SetLoopMode(b)

PlanStep == SeqExits \/ \E e \in Exits : PlanEnds(e)

Environment == DbFail \/ DbRecover \/ ExperimentChanges \/ Close \/ Restart

Next == SeqStep \/ HttpStep \/ HttpRequest \/ PlanStep \/ Environment

Spec == Init /\ [][Next]_vars

\* The loop polls, a request is served to its end, a plan ends (or is
\* interrupted) and the database comes back.  Strong fairness of the loop: it
\* gets Sequencer._lock although requests take it again and again.
Fairness ==
    /\ SF_vars(SeqStep) /\ WF_vars(HttpStep) /\ WF_vars(PlanStep)
    /\ WF_vars(DbRecover)

FairSpec == Spec /\ Fairness
-----------------------------------------------------------------------------
(* Properties. *)

\* pop_front hands out each item exactly once: an accepted item is in the queue,
\* or was withdrawn, or was handed to the loop, once, and never two of these,
\* whatever fails and however often the process dies (queue/repository.py:3-5).
HandedOutOnce ==
    /\ IsInjective(queue) /\ IsInjective(handed)
    /\ ToSet(queue) \cap ToSet(handed) = {}
    /\ withdrawn \cap (ToSet(queue) \cup ToSet(handed)) = {}
    /\ submitted = ToSet(queue) \cup ToSet(handed) \cup withdrawn

\* Stop-and-wait (_run_one, _record): once an item has not succeeded, or its
\* outcome could not be written, no further item is taken until a client starts
\* the queue or autostart does.  A start that races with the bookkeeping of the
\* failure may be forgotten, never the failure.
RunsOnlyWhenAuthorised ==
    pc[Loop] \in {"take", "run"} => authority # "none"

\* queue_stop: after a stop is accepted at most one more item starts, the one
\* that the loop had already decided to pop (unless the client starts the queue
\* again, cancels the stop, or autostart restarts the queue).
StopTakesEffect == sinceStop <= 1

\* While the loop takes and runs an item the queue is reported running: only
\* the loop's own thread ever clears the flag.
RunningWhileBusy ==
    pc[Loop] \in {"pop", "empty", "take", "run"} => running

\* While the database answers no outcome is held in memory and neither thread
\* finds anything to flush.
Undisturbed ==
    /\ dbUp /\ outages = 0 /\ pendingHistory = <<>>
    /\ \A t \in Threads : pc[t] \notin {"append", "drop", "hold"}

\* Why the queue may be running without anyone's authority: the loop is about to
\* stop it, after a failure or an outcome it could not write, or it has died.
RevokedOnlyWhileSettling ==
    running /\ authority = "none"
        => \/ pc[Loop] \in {"hold", "dead"}
           \/ /\ pc[Loop] \in {"flush", "append", "drop", "record", "settle"}
              /\ exit # "success"

\* Items are counted only while the stop is pending, and the one item that may
\* still start after it leaves no second one behind at the pop.
CountedWhileStopPending ==
    /\ sinceStop # NoStop => stopPending
    /\ sinceStop >= 1 => pc[Loop] # "pop"

\* The inductive invariant behind the safety properties above: the reasons why
\* they survive every step of either thread.
SafetyInv ==
    /\ RunningWhileBusy
    /\ RevokedOnlyWhileSettling
    /\ CountedWhileStopPending
    /\ StopTakesEffect

\* Where the outcome of each item that ran is or will be: the rows of the
\* history, the held entries, the item in hand.
HistoryItems == ItemsOf(history)
Ran == HistoryItems \o Unwritten

\* What comes earlier in s comes earlier in t.
InOrderOf(s, t) ==
    \A j, k \in DOMAIN s : j < k =>
        \E a, b \in DOMAIN t : a < b /\ t[a] = s[j] /\ t[b] = s[k]

\* _record and flush_pending_history, through outages and restarts: an item that
\* ran has one row of the history or will have it, and none is missing but what
\* went with a process or with a plan that calls exit(); after one outage the
\* rows are still in the order in which the items ran.  This holds as long as
\* the two threads do not flush at once (OutcomeNotLost shows what follows).
HistoryIsTheRunOrder ==
    ~overlapped =>
        /\ IsInjective(Ran)
        /\ ToSet(Ran) = ToSet(handed) \ lost
        /\ outages <= 1 => InOrderOf(Ran, handed)

\* A flush that no other one disturbs drops the entry that it has written.
FlushesApart ==
    ~overlapped =>
        /\ ~(Flushing(Loop) /\ Flushing(Http))
        /\ \A t \in Threads :
              /\ Flushing(t) => pendingHistory # <<>>
              /\ pc[t] = "append" => read[t] = Head(pendingHistory)

\* In the first outage an entry is held only once the loop has stopped: the next
\* item is popped, and its outcome recorded, when the database is back.
HeldSinceTheOutage ==
    /\ dbUp \/ outages >= 1
    /\ outages <= 1 /\ pendingHistory # <<>> =>
          /\ outages = 1
          /\ InHand # {} => dbUp
          /\ pc[Loop] # "record"

\* Nothing is lost that was not handed out.
LostWasHanded == ~overlapped => lost \subseteq ToSet(handed)

\* The item being run as QueueContract sees it: with its state once it has ended.
Current ==
    IF InHand = {} THEN None
    ELSE [item |-> item,
          state |-> IF pc[Loop] \in {"take", "run"} THEN None ELSE ExitState(exit)]

\* The loop implements the promise of QueueContract when the database answers;
\* a plan that calls exit() is a crash of the runner.
Contract == INSTANCE QueueContract WITH
    waiting <- queue, written <- history, current <- Current,
    permitted <- authority # "none" /\ pc[Loop] # "dead"
ImplementsContract == Contract!Spec

\* sequencer.py:9-10: "A fault here (a database error, a bad item) stops the
\* queue and is reported".  A loop that a plan has ended by exit() has lost its
\* item, and is not what this speaks of.
FaultStopsTheQueue == pc[Loop] = "dead" /\ lost = {} => ~running

\* sequencer.py:6-8: "on abort or failure the item is recorded as such, the
\* queue stops, and nothing further runs until a human starts it again".
NothingRunsUntilAHumanStarts ==
    pc[Loop] \in {"take", "run"} => authority # "autostart"

\* sequencer.py:350-351: "The queue stops so nothing runs unrecorded".
NothingRunsUnrecorded == pc[Loop] = "run" => pendingHistory = <<>>

\* sequencer.py:350: "The outcome is not lost: it is held here and written when
\* the database returns".
OutcomeNotLost ==
    \A k \in DOMAIN handed :
        \/ handed[k] \in InHand \cup PendingItems \cup lost
        \/ \E e \in ToSet(history) : e.item = handed[k]

\* runtime/config.py:76-77: "Refuse queue_start/autostart while the profile's
\* RE.md has no synced experiment".
NeverStartsUnsynced == [][~running /\ running' => ExperimentOK]_vars

\* sequencer.py:224-225: "a started queue that runs empty goes idle".
IdleOnlyWhenEmpty ==
    [][pc[Loop] = "empty" /\ pc'[Loop] = "check" /\ UNCHANGED restarts
            => queue = <<>>]_vars

\* A stop that was accepted is carried out or withdrawn, unless a plan has ended
\* the loop by exit().
StopHonoured == stopPending ~> (~stopPending \/ closing \/ pc[Loop] = "dead")

\* An item handed to the loop reaches the history, or its outcome went with the
\* process or with a plan that calls exit().
EveryRunIsRecorded ==
    \A i \in Items : i \in ToSet(handed)
                        ~> (i \in lost \/ \E e \in ToSet(history) : e.item = i)

\* With autostart on, a waiting item does not wait for ever: something is
\* taken, or the queue is emptied, or a stop is asked for, or autostart or the
\* service is turned off, or a plan has ended the loop by exit().
AutostartTakesItems ==
    (autostart /\ queue # <<>>)
        ~> \/ ~autostart \/ queue = <<>> \/ pc[Loop] = "take"
           \/ stopPending \/ closing \/ pc[Loop] = "dead"

\* An entry held in memory is written before those of later items: it is not when
\* a second outage comes between the flush and the record of the next item.
WrittenInRunOrder == ~overlapped => InOrderOf(Ran, handed)

\* sequencer.py:178: "Finish the current item, then stop" (queue_stop): a stop is
\* pending only while there is something to stop.
StopPendingOnlyWhileRunning == stopPending => running
=============================================================================
