------------------------------- MODULE Shutdown -------------------------------
(***************************************************************************)
(* How the service stops: POST manager/stop or an interrupt, the server    *)
(* that returns, and Application.close, which waits for the sequencer's    *)
(* thread and then for the engine's, ten seconds each.  Both are daemons:  *)
(* what they are doing when main returns is never done.                    *)
(*                                                                         *)
(* Startup ends where this begins.  The three threads are main (which also *)
(* runs the event loop, until it closes), the sequencer's and the engine's.*)
(* A process that is killed outright is Restart of the module Sequencer.   *)
(***************************************************************************)
EXTENDS Naturals, Sequences, Python

CONSTANT MaxItems  \* items in the queue at first (bound: none is added)

ASSUME ShutdownAssumption == MaxItems \in Nat /\ None # "plan"

VARIABLES
    stage,      \* where main is
    streaming,  \* a client reads /api/stream_console_output
    closing,    \* Sequencer._closing
    started,    \* Sequencer._running
    item,       \* of each item, where it is
    loop,       \* where the sequencer's thread is
    commands,   \* EngineHost._commands: "plan", or None, which ends the thread
    worker,     \* where the engine's thread is
    late        \* items whose plan ended after main had waited for the sequencer

threadVars == <<started, item, loop, commands, worker, late>>
shutdownVars == <<stage, streaming, closing, threadVars>>

\* A type for every variable.
ShutdownTypeOK ==
    /\ stage \in {"serving", "asked", "draining", "closing", "joinLoop", "joinEngine", "over"}
    /\ streaming \in BOOLEAN /\ closing \in BOOLEAN /\ started \in BOOLEAN
    /\ item \in [1..MaxItems ->
                   {"queued", "taken", "begun", "ended", "recorded", "held", "exited"}]
    /\ loop \in {"poll", "pop", "submit", "result", "record", "ended"}
    /\ commands \in Seq({"plan", None})
    /\ worker \in {"get", "plan", "paused", "ended"}
    /\ late \subseteq 1..MaxItems

ShutdownInit ==
    /\ stage = "serving" /\ streaming = FALSE /\ closing = FALSE /\ started = FALSE
    /\ item = [i \in 1..MaxItems |-> "queued"]
    /\ loop = "poll" /\ commands = <<>> /\ worker = "get" /\ late = {}

Serving == stage \in {"serving", "asked"}

\* EngineHost._state is RUNNING or PAUSED.
PlanOn == worker \in {"plan", "paused"}

InHand == {i \in 1..MaxItems : item[i] \in {"taken", "begun", "ended"}}

Moved(from, to) == [i \in 1..MaxItems |-> IF item[i] = from THEN to ELSE item[i]]

-----------------------------------------------------------------------------
(* What a client or a signal asks for while the server answers. *)

\* manager_stop: `safe_on' is refused while a plan is on; the callback comes 0.2 s later.
ManagerStop(option) ==
    /\ stage = "serving"
    /\ option = "safe_on" => ~PlanOn
    /\ stage' = "asked"
    /\ UNCHANGED <<streaming, closing, threadVars>>

\* request_shutdown; an interrupt sets the same flag of the server at once.
ShouldExit(signal) ==
    /\ stage = "asked" \/ (signal /\ stage = "serving")
    /\ stage' = "draining"
    /\ UNCHANGED <<streaming, closing, threadVars>>

\* queue/start, re/pause and re/resume, as far as they matter here.
Control ==
    /\ Serving
    /\ \/ started' = TRUE /\ UNCHANGED worker
       \/ worker = "plan" /\ worker' = "paused" /\ UNCHANGED started
       \/ worker = "paused" /\ worker' = "plan" /\ UNCHANGED started
    /\ UNCHANGED <<stage, streaming, closing, item, loop, commands, late>>

\* stream_console_output writes for as long as its client reads.
Stream ==
    /\ stage \in {"serving", "asked", "draining"}
    /\ ~streaming => Serving
    /\ streaming' = ~streaming
    /\ UNCHANGED <<stage, closing, threadVars>>

-----------------------------------------------------------------------------
(* main(): server.run(), then Application.close(). *)

\* The server returns when every response has been written; nothing limits the wait.
ServerReturns ==
    /\ stage = "draining" /\ ~streaming
    /\ stage' = "closing"
    /\ UNCHANGED <<streaming, closing, threadVars>>

\* Sequencer.close, up to the join.
CloseSequencer ==
    /\ stage = "closing"
    /\ closing' = TRUE /\ stage' = "joinLoop"
    /\ UNCHANGED <<streaming, threadVars>>

\* Mutant: join() has no timeout.
NoTimeout == FALSE

\* The ten seconds are over (bound: nothing but a plan takes that long).
TimedOut == PlanOn

\* Mutant: the sequencer's thread is not waited for.
NoJoin == TRUE

LoopJoined == loop = "ended" \/ TimedOut

\* The join of Sequencer.close returns, and EngineHost.shutdown ends the thread.
QuitEngine ==
    /\ stage = "joinLoop" /\ LoopJoined
    /\ commands' = Append(commands, None)
    /\ stage' = "joinEngine"
    /\ UNCHANGED <<streaming, closing, started, item, loop, worker, late>>

\* The join of EngineHost.shutdown returns; main sets CLOSED, lets go of the console and
\* the database, and returns, and with it go the two daemons.
Exit ==
    /\ stage = "joinEngine" /\ (worker = "ended" \/ TimedOut)
    /\ stage' = "over"
    /\ UNCHANGED <<streaming, closing, threadVars>>

-----------------------------------------------------------------------------
(* The sequencer's thread: _loop and _run_one. *)

Poll ==
    /\ loop = "poll"
    /\ \/ closing /\ loop' = "ended"
       \/ ~closing /\ started /\ worker = "get" /\ loop' = "pop"
    /\ UNCHANGED <<started, item, commands, worker, late>>

Pop ==
    /\ loop = "pop"
    /\ LET queued == {i \in 1..MaxItems : item[i] = "queued"}
       IN IF queued = {}
          THEN started' = FALSE /\ loop' = "poll" /\ UNCHANGED item
          ELSE /\ item' = [item EXCEPT ![CHOOSE i \in queued : \A j \in queued : i <= j] =
                             "taken"]
               /\ loop' = "submit" /\ UNCHANGED started
    /\ UNCHANGED <<commands, worker, late>>

Submit ==
    /\ loop = "submit"
    /\ commands' = Append(commands, "plan") /\ loop' = "result"
    /\ UNCHANGED <<started, item, worker, late>>

TakeOutcome ==
    /\ loop = "result" /\ \E i \in InHand : item[i] = "ended"
    /\ loop' = "record"
    /\ UNCHANGED <<started, item, commands, worker, late>>

\* A plan that called exit(): its SystemExit leaves the loop, which ends with the queue
\* still started, and nothing is recorded.
LoopExits ==
    /\ loop = "result" /\ \E i \in InHand : item[i] = "ended"
    /\ item' = Moved("ended", "exited") /\ loop' = "ended"
    /\ UNCHANGED <<started, commands, worker, late>>

\* _record: a database that refuses the row leaves it in _pending_history, and the queue
\* stops, as it does when the plan has failed.  close() does not try again.
Record ==
    /\ loop = "record"
    /\ \/ item' = Moved("ended", "recorded") /\ started' \in {started, FALSE}
       \/ item' = Moved("ended", "held") /\ started' = FALSE
    /\ loop' = "poll"
    /\ UNCHANGED <<commands, worker, late>>

-----------------------------------------------------------------------------
(* The engine's thread: _run_loop. *)

GetCommand ==
    /\ worker = "get" /\ commands # <<>>
    /\ commands' = Tail(commands)
    /\ IF Head(commands) = None
       THEN worker' = "ended" /\ UNCHANGED item
       ELSE worker' = "plan" /\ item' = Moved("taken", "begun")
    /\ UNCHANGED <<started, loop, late>>

\* A plan that is paused does not end; there is no one left to resume it.
EndPlan ==
    /\ worker = "plan"
    /\ worker' = "get" /\ item' = Moved("begun", "ended")
    /\ late' = IF stage = "joinEngine" THEN late \cup InHand ELSE late
    /\ UNCHANGED <<started, loop, commands>>

-----------------------------------------------------------------------------
Main == (\E signal \in BOOLEAN : ShouldExit(signal)) \/ ServerReturns \/ CloseSequencer
        \/ QuitEngine \/ Exit

Client == Control \/ Stream \/ \E option \in {"safe_on", "safe_off"} : ManagerStop(option)

LoopThread ==
    /\ Poll \/ Pop \/ Submit \/ TakeOutcome \/ LoopExits \/ Record
    /\ stage # "over" /\ UNCHANGED <<stage, streaming, closing>>

EngineThreadStep ==
    /\ GetCommand \/ EndPlan
    /\ stage # "over" /\ UNCHANGED <<stage, streaming, closing>>

ShutdownNext == Main \/ Client \/ LoopThread \/ EngineThreadStep

\* Every thread goes on; a plan need not end, and no client need do anything.
MainGoesOn ==
    \/ stage = "asked" /\ ShouldExit(FALSE)
    \/ ServerReturns \/ CloseSequencer \/ QuitEngine \/ Exit

EngineTakes == GetCommand /\ stage # "over" /\ UNCHANGED <<stage, streaming, closing>>

ShutdownFairness ==
    /\ WF_shutdownVars(MainGoesOn) /\ WF_shutdownVars(LoopThread)
    /\ WF_shutdownVars(EngineTakes)

ShutdownSpec == ShutdownInit /\ [][ShutdownNext]_shutdownVars /\ ShutdownFairness

-----------------------------------------------------------------------------
(* Properties. *)

\* When the process has ended, an item is in the queue, in the history or among the rows
\* the database refused, unless its plan was still on, or ended, after main had waited ten
\* seconds for the sequencer, or called exit(): no other has left the queue without being
\* run, and no outcome that was there in time is lost.
OnlyLongPlansAreCut ==
    stage = "over" => \A i \in InHand : item[i] = "begun" \/ i \in late

\* A stop that was accepted, or an interrupt, ends the process, whatever the plan does,
\* paused ones included, unless a client goes on reading the console as a stream.
StopEnds == stage # "serving" ~> stage = "over" \/ streaming

\* The same without the exception.
StopEndsAnyway == stage # "serving" ~> stage = "over"

\* misc.py:140, "the running plan is left to finish", and host.py:174, "Does not abort a
\* running plan": no plan is on when the process ends.
RunningPlanFinishes == stage = "over" => ~PlanOn
===============================================================================
