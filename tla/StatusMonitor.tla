----------------------------- MODULE StatusMonitor -----------------------------
(***************************************************************************)
(* The status document and the websocket that streams it (api/status.py,   *)
(* api/routers/ws.py, api/streams.py, engine/events.py), beside the        *)
(* sequencer whose state it shows.                                         *)
(*                                                                         *)
(* The document is built on the event-loop thread, field by field, while   *)
(* the sequencer's thread goes on.  Each publisher changes its state first *)
(* and emits an event after it; an event crosses to the event loop through *)
(* call_soon_threadsafe and only then is put in the socket's queue.  The   *)
(* document does not depend on which events there were, so the model keeps *)
(* whether one is on its way and whether the queue holds one; its bound,   *)
(* which drops the oldest of 1000, then makes no difference.               *)
(***************************************************************************)
EXTENDS Sequencer

VARIABLES
    reader,   \* what _status_body does next
    onItsWay, \* an event was emitted, or is about to be, and not yet delivered
    box,      \* the socket's asyncio.Queue is not empty
    doc,      \* the fields that snapshot() has read so far
    shown     \* the document that the client has

monitorVars == <<reader, onItsWay, box, doc, shown>>
allVars == <<vars, monitorVars>>

\* snapshot() reads running_item, the two tables, pending_history, host.state,
\* queue_running and stop_pending in this order.
Reading == {"item", "tables", "pending", "engine", "flag", "stop"}

NoDoc == [item |-> None, done |-> 0, busy |-> FALSE, stop |-> FALSE]

Docs == [item : Items \cup {None}, done : Nat, busy : BOOLEAN, stop : BOOLEAN]

\* A type for every variable.
MonitorTypeOK ==
    /\ TypeOK
    /\ reader \in Reading \cup {"send", "wait"}
    /\ onItsWay \in BOOLEAN /\ box \in BOOLEAN
    /\ doc \in Docs /\ shown \in Docs

\* A client connects before anything has happened.
MonitorInit ==
    /\ Init /\ synced
    /\ reader = "item" /\ onItsWay = FALSE /\ box = FALSE
    /\ doc = NoDoc /\ shown = NoDoc

-----------------------------------------------------------------------------
(* What the publishers emit. *)

\* Mutant: one kind is missing, as events.py fears of a second copy of the set.
KindsWithoutItemFinished ==
    {"state", "re_state", "queue_state", "plan_started", "plan_finished", "item_started"}

\* STATUS_CHANGE_KINDS
StatusChangeKinds ==
    {"state", "re_state", "queue_state", "plan_started", "plan_finished",
     "item_started", "item_finished"}

\* The events that follow a step of the sequencer, its engine or a request: the
\* flags, the item it takes, the plan and the entry it records.  Nothing tells
\* that an item was added or removed, that loop mode changed, or that
\* _running_item is None again.
Emitted ==
    UNION {
      IF <<running', stopPending', autostart'>> # <<running, stopPending, autostart>>
         THEN {"queue_state"} ELSE {},
      IF pc[Loop] = "take" /\ pc'[Loop] # "take" THEN {"item_started"} ELSE {},
      IF engine = "idle" /\ engine' = "running"
         THEN {"state", "re_state", "plan_started"} ELSE {},
      IF engine = "running" /\ engine' = "idle"
         THEN {"state", "re_state", "plan_finished"} ELSE {},
      IF pc[Loop] = "record" /\ pc'[Loop] = "settle" THEN {"item_finished"} ELSE {} }

Publish == onItsWay' = (onItsWay \/ Emitted \cap StatusChangeKinds # {})

\* The event loop is not in the middle of building a document.
LoopAvailable == reader \notin Reading

\* A step of the sequencer's thread or the engine.
Run ==
    /\ SeqStep \/ PlanStep
    /\ Publish
    /\ UNCHANGED <<reader, box, doc, shown>>

\* A request, and the steps that finish it, on the event loop.
Serve ==
    /\ HttpStep \/ HttpRequest
    /\ LoopAvailable
    /\ Publish
    /\ UNCHANGED <<reader, box, doc, shown>>

\* EventBroadcaster.deliver, which call_soon_threadsafe has scheduled.
Deliver ==
    /\ onItsWay
    /\ LoopAvailable /\ pc[Http] = "idle"
    /\ onItsWay' = FALSE /\ box' = TRUE
    /\ UNCHANGED <<vars, reader, doc, shown>>

-----------------------------------------------------------------------------
(* StatusReporter.snapshot. *)

Read(from, to, d) ==
    /\ reader = from /\ reader' = to
    /\ pc[Http] = "idle"
    /\ doc' = d
    /\ UNCHANGED <<vars, onItsWay, box, shown>>

ReadItem == Read("item", "tables", [NoDoc EXCEPT !.item = runningItem])

ReadTables == Read("tables", "pending", [doc EXCEPT !.done = Len(history)])

ReadPending == Read("pending", "engine", [doc EXCEPT !.done = @ + Len(pendingHistory)])

\* Mutant: a queue that is started and between two plans is taken for idle.
PlanOnly == engine = "running"

\* manager_state: host.state first, then queue_running.
FirstLook  == engine = "running"
SecondLook == running

ReadEngine == Read("engine", "flag", [doc EXCEPT !.busy = FirstLook])
ReadFlag   == Read("flag", "stop", [doc EXCEPT !.busy = @ \/ SecondLook])
ReadStop   == Read("stop", "send", [doc EXCEPT !.stop = stopPending])

-----------------------------------------------------------------------------
(* _status_body. *)

\* send_text: the event loop does other things meanwhile.
Send ==
    /\ reader = "send" /\ reader' = "wait"
    /\ shown' = doc /\ doc' = NoDoc
    /\ UNCHANGED <<vars, onItsWay, box>>

\* queue.get, and the loop that takes what else is there.
Wake ==
    /\ reader = "wait" /\ box /\ pc[Http] = "idle"
    /\ reader' = "item" /\ box' = FALSE
    /\ UNCHANGED <<vars, onItsWay, doc, shown>>

\* Mutant: the wait has no timeout.
NeverExpires == FALSE

\* asyncio.wait_for with a timeout of a second.
Expires == reader = "wait"

TimeOut ==
    /\ Expires /\ ~box /\ pc[Http] = "idle"
    /\ reader' = "item"
    /\ UNCHANGED <<vars, onItsWay, box, doc, shown>>

SocketStep ==
    \/ ReadItem \/ ReadTables \/ ReadPending \/ ReadEngine \/ ReadFlag \/ ReadStop
    \/ Send \/ Wake \/ TimeOut

MonitorNext == Run \/ Serve \/ Deliver \/ SocketStep

MonitorSpec == MonitorInit /\ [][MonitorNext]_allVars

\* asyncio serves its tasks and callbacks in turn, so none waits for ever.
MonitorFairness ==
    /\ SF_allVars(SocketStep) /\ SF_allVars(Deliver)
    /\ WF_allVars(Run) /\ WF_allVars(HttpStep /\ Serve)

FairMonitorSpec == MonitorSpec /\ MonitorFairness
-----------------------------------------------------------------------------
(* Properties. *)

\* "On every change" (ws.py:3), for what an event announces: when the client
\* waits and no event is left to wake the socket, the document it has shows the
\* flags and the number of finished items as they are.
AnnouncedIsShown ==
    reader = "wait" /\ ~box /\ ~onItsWay
        => /\ shown.busy = (engine = "running" \/ running)
           /\ shown.stop = stopPending
           /\ shown.done = Len(history) + Len(pendingHistory)

\* A document says "idle" (status.py:4, "nothing running") only when, as its last
\* field is read, no plan runs and the loop is not taking an item.
IdleIsTrue ==
    [][reader = "flag" /\ reader' = "stop" /\ ~doc'.busy
        => engine = "idle" /\ pc[Loop] \notin {"pop", "empty", "take", "run"}]_allVars

\* An item that has ended is not shown as running for ever, although no event
\* tells of it.
EndedItemGoes ==
    \A i \in Items :
        (runningItem = None /\ shown.item = i) ~> (shown.item # i \/ runningItem # None)

\* sequencer.py:288-290: "a client polling status never sees "idle, nothing
\* running" before the outcome is visible".
NoIdleBeforeOutcome ==
    [][reader = "flag" /\ reader' = "stop" /\ doc.item = None /\ ~doc'.busy
        => doc.done >= Len(handed)]_allVars
=============================================================================
