------------------------------ MODULE EngineHost ------------------------------
(***************************************************************************)
(* The engine host (engine/host.py): the thread that owns the RunEngine,   *)
(* and the two threads that talk to it.                                    *)
(*                                                                         *)
(* Eng is the "qs-engine" thread: it takes commands from a queue, runs     *)
(* plans, and while a plan is paused waits for a directive.  Seq is the    *)
(* sequencer, which submits one plan at a time and waits for its future.   *)
(* Ctl is the event-loop thread: it serves one request at a time, calls    *)
(* abort, stop and halt of the RunEngine itself, and leaves a directive    *)
(* for Eng when a plan is paused.  A step is the code between two points   *)
(* at which another thread can see or change something: each access to     *)
(* EngineHost._state, _directive, the command queue or the RunEngine.      *)
(*                                                                         *)
(* The RunEngine is bluesky's and external: it is idle, running a plan or  *)
(* paused, and a call that starts or resumes a plan ends with a result, an *)
(* exception, SystemExit (the plan called exit()), or RunEngineInterrupted *)
(* (paused, or ended by an interrupt).                                     *)
(***************************************************************************)
EXTENDS Integers, Sequences

CONSTANTS
    MaxPlans,     \* bound: plans submitted
    MaxPauses,    \* bound: times a plan is paused, over all plans
    DeviceCalls,  \* whether clients have devices instantiated
    None          \* Python's None

Eng == "engine"
Ctl == "control"
Seq_ == "seq"
Threads == {Eng, Ctl, Seq_}

Interrupts == {"abort", "stop", "halt"}
Kinds == Interrupts \cup {"resume"}
Exits == {"success", "fail"} \cup Interrupts

\* What is no exit status, and no Exception either: the plan has called exit().
Fatal == "SystemExit"

\* A request of a client; pause (auxiliary) is the pause it was accepted in.
Requests == [kind : Kinds, pause : 0..MaxPauses]

ASSUME HostAssumption ==
    /\ MaxPlans \in Nat /\ MaxPauses \in Nat
    /\ DeviceCalls \in BOOLEAN
    /\ None \notin Requests /\ None \notin Exits \cup {Fatal, "pending"}

\* What the command queue holds.
PlanCommand == "plan"
DeviceCommand == "device"
Poison == "none"

VARIABLES
    state,        \* EngineHost._state
    commands,     \* EngineHost._commands
    directive,    \* EngineHost._directive
    currentItem,  \* EngineHost._current_item_uid: the number of the plan
    lastOutcome,  \* EngineHost._last_outcome: the number of the plan and its exit
    re,           \* RunEngine.state
    asked,        \* the interrupt the RunEngine is carrying out
    pc,           \* where each thread is
    took,         \* Eng: the directive it acts on
    exit,         \* Eng: outcome.exit_status, or Fatal
    intent,       \* Ctl: the request it serves
    future,       \* what the sequencer waits for: None, "pending", an exit or Fatal
    plans,        \* plans submitted so far
    pauses,       \* pauses so far
    closing,      \* Application.close has begun
    ended         \* auxiliary: the last plan that has an outcome, and its exit

hostVars   == <<state, directive, currentItem, lastOutcome>>
engineVars == <<re, asked>>
localVars  == <<took, exit, intent>>
countVars  == <<plans, pauses, ended>>
vars == <<hostVars, commands, engineVars, pc, localVars, future, countVars, closing>>

EngPCs == {"get", "start", "factory", "inRE", "interrupted", "pausing", "wait",
           "took", "act", "outcome", "store", "setIdle", "resolve", "device", "ended"}
CtlPCs == {"idle", "second", "directive", "store", "inRE", "calling", "gone"}
SeqPCs == {"idle", "ready", "submit", "await", "dead"}

\* A type for every variable.
PcOK ==
    /\ pc \in [Threads -> EngPCs \cup CtlPCs \cup SeqPCs]
    /\ pc[Eng] \in EngPCs /\ pc[Ctl] \in CtlPCs /\ pc[Seq_] \in SeqPCs

DataOK ==
    /\ state \in {"idle", "running", "paused", "closed"}
    /\ commands \in Seq({PlanCommand, DeviceCommand, Poison})
    /\ directive \in Requests \cup {None}
    /\ currentItem \in 1..MaxPlans \cup {None}
    /\ {lastOutcome, ended} \subseteq [plan : 1..MaxPlans, exit : Exits] \cup {None}
    /\ re \in {"idle", "running", "paused"}
    /\ asked \in Interrupts \cup {None}
    /\ took \in Requests \cup {None} /\ intent \in Requests \cup {None}
    /\ exit \in Exits \cup {Fatal, None}
    /\ future \in Exits \cup {Fatal, "pending", None}
    /\ plans \in 0..MaxPlans /\ pauses \in 0..MaxPauses
    /\ closing \in BOOLEAN

TypeOK == PcOK /\ DataOK

\* The profile is loaded: build_application loads it before it builds the rest.
Init ==
    /\ state = "idle" /\ commands = <<>> /\ directive = None
    /\ currentItem = None /\ lastOutcome = None
    /\ re = "idle" /\ asked = None
    /\ pc = [t \in Threads |-> IF t = Eng THEN "get" ELSE "idle"]
    /\ took = None /\ exit = None /\ intent = None /\ future = None
    /\ plans = 0 /\ pauses = 0 /\ closing = FALSE /\ ended = None

Goto(t, label) == pc' = [pc EXCEPT ![t] = label]

-----------------------------------------------------------------------------
(* The sequencer: _should_run, then run_plan, then the result of its future. *)

SeqReady ==
    /\ pc[Seq_] = "idle" /\ ~closing /\ plans < MaxPlans
    /\ state = "idle"
    /\ Goto(Seq_, "ready")
    /\ UNCHANGED <<hostVars, commands, engineVars, localVars, future, countVars, closing>>

\* run_plan looks at the state again and refuses if the engine is not idle.
RunPlan ==
    /\ pc[Seq_] = "ready"
    /\ Goto(Seq_, IF state = "idle" THEN "submit" ELSE "idle")
    /\ UNCHANGED <<hostVars, commands, engineVars, localVars, future, countVars, closing>>

\* submit refuses a closed host, and otherwise queues the command.
Submit ==
    /\ pc[Seq_] = "submit"
    /\ IF state = "closed"
       THEN Goto(Seq_, "idle") /\ UNCHANGED <<commands, future, plans>>
       ELSE /\ commands' = Append(commands, PlanCommand)
            /\ future' = "pending" /\ plans' = plans + 1
            /\ Goto(Seq_, "await")
    /\ UNCHANGED <<hostVars, engineVars, localVars, pauses, ended, closing>>

\* Mutant: result(timeout), which gives up on a pending future.
TimedOut(f) == f # None

\* `.result()` returns, or raises what the future holds.
Resolved(f) == f \in Exits \cup {Fatal}

\* Nothing catches SystemExit in the sequencer's thread.
TakeResult ==
    /\ pc[Seq_] = "await" /\ Resolved(future)
    /\ future' = None
    /\ Goto(Seq_, IF future = Fatal THEN "dead" ELSE "idle")
    /\ UNCHANGED <<hostVars, commands, engineVars, localVars, countVars, closing>>

-----------------------------------------------------------------------------
(* The engine thread: _run_loop and _run_plan_on_thread. *)

\* _run_loop takes a command; the plan sets _current_item_uid first.
TakeCommand ==
    /\ pc[Eng] = "get" /\ commands # <<>>
    /\ commands' = Tail(commands)
    /\ CASE Head(commands) = PlanCommand   -> Goto(Eng, "start") /\ currentItem' = plans
         [] Head(commands) = DeviceCommand -> Goto(Eng, "device") /\ UNCHANGED currentItem
         [] OTHER                          -> Goto(Eng, "ended") /\ UNCHANGED currentItem
    /\ UNCHANGED <<state, directive, lastOutcome, engineVars, localVars, future,
                   countVars, closing>>

PlanStarts ==
    /\ pc[Eng] = "start"
    /\ state' = "running"
    /\ Goto(Eng, "factory")
    /\ UNCHANGED <<commands, directive, currentItem, lastOutcome, engineVars,
                   localVars, future, countVars, closing>>

\* Mutant: an exception ends the thread.
RaisedEndsThread == "ended"

\* Where an exception of the plan leads: it is an outcome, not a crash.
Raised == "outcome"

\* engine(plan_factory()): the factory, or an engine that is not idle, raises;
\* the factory may call exit(), which no `except Exception` catches.
CallEngine ==
    /\ pc[Eng] = "factory"
    /\ \/ /\ re = "idle"
          /\ re' = "running" /\ asked' = None
          /\ Goto(Eng, "inRE")
          /\ UNCHANGED exit
       \/ /\ exit' \in {"fail", Fatal}
          /\ Goto(Eng, Raised)
          /\ UNCHANGED engineVars
    /\ UNCHANGED <<hostVars, commands, took, intent, future, countVars, closing>>

\* _outcome_from_engine: how the engine says the run ended, or that it was aborted.
OutcomeFromEngine == IF asked = None THEN "abort" ELSE asked

\* _handle_pause: is the engine really paused?  If not, the run has ended.
LookAtEngine ==
    /\ pc[Eng] = "interrupted"
    /\ IF re = "paused"
       THEN Goto(Eng, "pausing") /\ UNCHANGED exit
       ELSE /\ Goto(Eng, "outcome")
            /\ exit' = OutcomeFromEngine
    /\ UNCHANGED <<hostVars, commands, engineVars, took, intent, future,
                   countVars, closing>>

EnterPause ==
    /\ pc[Eng] = "pausing"
    /\ state' = "paused"
    /\ Goto(Eng, "wait")
    /\ UNCHANGED <<commands, directive, currentItem, lastOutcome, engineVars,
                   localVars, future, countVars, closing>>

\* _wait_directive
TakeDirective ==
    /\ pc[Eng] = "wait" /\ directive # None
    /\ took' = directive /\ directive' = None
    /\ Goto(Eng, "took")
    /\ UNCHANGED <<state, currentItem, lastOutcome, commands, engineVars, exit,
                   intent, future, countVars, closing>>

LeavePause ==
    /\ pc[Eng] = "took"
    /\ state' = "running"
    /\ Goto(Eng, "act")
    /\ UNCHANGED <<commands, directive, currentItem, lastOutcome, engineVars,
                   localVars, future, countVars, closing>>

\* What a directive asks of the engine: an interrupt, or nothing.
InterruptOf(r) == IF r.kind = "resume" THEN None ELSE r.kind

\* engine.resume(), abort(), stop() or halt() on a paused engine; on any other
\* it raises, and that is a failed outcome.
ActOnDirective ==
    /\ pc[Eng] = "act"
    /\ IF re = "paused"
       THEN /\ re' = "running"
            /\ asked' = InterruptOf(took)
            /\ Goto(Eng, "inRE")
            /\ UNCHANGED exit
       ELSE exit' = "fail" /\ Goto(Eng, Raised) /\ UNCHANGED engineVars
    /\ UNCHANGED <<hostVars, commands, took, intent, future, countVars, closing>>

\* The finally clause; what is no Exception then leaves _run_plan_on_thread, and
\* the state stays as it is.
ClearItem ==
    /\ pc[Eng] = "outcome"
    /\ currentItem' = None
    /\ IF exit = Fatal
       THEN Goto(Eng, "resolve") /\ UNCHANGED ended
       ELSE Goto(Eng, "store") /\ ended' = [plan |-> plans, exit |-> exit]
    /\ UNCHANGED <<state, directive, lastOutcome, commands, engineVars, localVars,
                   future, plans, pauses, closing>>

\* `self._last_outcome = outcome`
KeepOutcome ==
    /\ lastOutcome' = [plan |-> plans, exit |-> exit]
    /\ UNCHANGED state

\* `self._set_state(EngineState.IDLE)`
SetIdle == state' = "idle" /\ UNCHANGED lastOutcome

\* Mutant: the two assignments the other way round.
IdleFirst(place) == IF place = "store" THEN SetIdle ELSE KeepOutcome

\* The order of the two assignments.
Assigns(place) == IF place = "store" THEN KeepOutcome ELSE SetIdle

StoreOutcome ==
    /\ pc[Eng] = "store"
    /\ Assigns("store")
    /\ Goto(Eng, "setIdle")
    /\ UNCHANGED <<directive, currentItem, commands, engineVars, localVars,
                   future, countVars, closing>>

BackToIdle ==
    /\ pc[Eng] = "setIdle"
    /\ Assigns("setIdle")
    /\ Goto(Eng, "resolve")
    /\ UNCHANGED <<commands, directive, currentItem, engineVars, localVars, future,
                   countVars, closing>>

\* _run_loop: fut.set_result, or fut.set_exception of what was raised.
ResolveFuture ==
    /\ pc[Eng] = "resolve"
    /\ future' = exit
    /\ Goto(Eng, "get")
    /\ took' = None /\ exit' = None
    /\ UNCHANGED <<hostVars, commands, engineVars, intent, countVars, closing>>

\* A device command ends and resolves the future that Ctl waits for.
DeviceDone ==
    /\ pc[Eng] = "device" /\ pc[Ctl] = "calling"
    /\ pc' = [pc EXCEPT ![Eng] = "get", ![Ctl] = "idle"]
    /\ UNCHANGED <<hostVars, commands, engineVars, localVars, future, countVars, closing>>

-----------------------------------------------------------------------------
(* The RunEngine (external). *)

\* A plan with no interrupt ends by itself, well or badly, or calls exit().
PlanEnds ==
    /\ pc[Eng] = "inRE" /\ re = "running" /\ asked = None
    /\ exit' \in {"success", "fail", Fatal}
    /\ re' = "idle"
    /\ Goto(Eng, IF exit' = "success" THEN "outcome" ELSE Raised)
    /\ UNCHANGED <<hostVars, commands, asked, took, intent, future, countVars, closing>>

\* A plan pauses, asked to by request_pause or by itself.
PlanPauses ==
    /\ pc[Eng] = "inRE" /\ re = "running" /\ asked = None
    /\ pauses < MaxPauses
    /\ pauses' = pauses + 1
    /\ re' = "paused"
    /\ Goto(Eng, "interrupted")
    /\ UNCHANGED <<hostVars, commands, asked, localVars, future, plans, ended, closing>>

\* The plan has been cleaned up after an interrupt.  The call that Eng made gives
\* a result if Eng asked for the interrupt, RunEngineInterrupted if it was asked
\* for meanwhile; a call of Ctl on a paused engine returns to Ctl.
PlanInterrupted ==
    /\ re = "running" /\ asked # None
    /\ re' = "idle"
    /\ IF pc[Ctl] = "inRE"
       THEN Goto(Ctl, "idle") /\ UNCHANGED exit
       ELSE IF took # None /\ took.kind = asked
            THEN Goto(Eng, "outcome") /\ exit' = asked
            ELSE Goto(Eng, "interrupted") /\ UNCHANGED exit
    /\ UNCHANGED <<hostVars, commands, asked, took, intent, future, countVars, closing>>

-----------------------------------------------------------------------------
(* Requests of clients. *)

Serving == pc[Ctl] = "idle" /\ ~closing

Request(k) == [kind |-> k, pause |-> pauses]

\* POST /re/resume
Resume ==
    /\ Serving
    /\ intent' = Request("resume")
    /\ Goto(Ctl, "directive")
    /\ UNCHANGED <<hostVars, commands, engineVars, took, exit, future, countVars, closing>>

\* POST /re/abort, /re/stop, /re/halt: _interrupt reads the state, and
\* if it is not "paused" reads it again.
Interrupt(k) ==
    /\ Serving
    /\ intent' = Request(k)
    /\ Goto(Ctl, IF state = "paused" THEN "directive" ELSE "second")
    /\ UNCHANGED <<hostVars, commands, engineVars, took, exit, future, countVars, closing>>

\* _interrupt while running calls the engine.  An idle engine refuses; a running
\* one is told to end; on a paused one the call stays until the plan has ended.
InterruptEngine ==
    /\ pc[Ctl] = "second"
    /\ IF state = "running" /\ re # "idle" /\ asked = None
       THEN /\ asked' = intent.kind /\ re' = "running"
            /\ Goto(Ctl, IF re = "paused" THEN "inRE" ELSE "idle")
       ELSE Goto(Ctl, "idle") /\ UNCHANGED engineVars
    /\ intent' = None
    /\ UNCHANGED <<hostVars, commands, took, exit, future, countVars, closing>>

\* _set_directive tests the state and refuses if it is not "paused".
TestPaused ==
    /\ pc[Ctl] = "directive"
    /\ IF state = "paused"
       THEN Goto(Ctl, "store") /\ intent' = [intent EXCEPT !.pause = pauses]
       ELSE Goto(Ctl, "idle") /\ intent' = None
    /\ UNCHANGED <<hostVars, commands, engineVars, took, exit, future, countVars, closing>>

\* Then it stores the directive, in the critical section of _directive_cv.
StoreDirective ==
    /\ pc[Ctl] = "store"
    /\ directive' = intent /\ intent' = None
    /\ Goto(Ctl, "idle")
    /\ UNCHANGED <<state, currentItem, lastOutcome, commands, engineVars, took, exit,
                   future, countVars, closing>>

\* POST /qs/devices: host.call, which waits for the engine thread.
CallDevice ==
    /\ DeviceCalls /\ Serving /\ state # "closed"
    /\ commands' = Append(commands, DeviceCommand)
    /\ Goto(Ctl, "calling")
    /\ UNCHANGED <<hostVars, engineVars, localVars, future, countVars, closing>>

\* Application.close once the HTTP server has ended: the sequencer is told, and
\* joined or given up while it waits for its plan.
CloseSequencer ==
    /\ Serving
    /\ closing' = TRUE
    /\ UNCHANGED <<hostVars, commands, engineVars, pc, localVars, future, countVars>>

\* EngineHost.shutdown: the poison, and CLOSED once the thread has ended or the
\* join has timed out.
Shutdown ==
    /\ closing /\ pc[Ctl] = "idle" /\ pc[Seq_] \in {"idle", "await", "dead"}
    /\ commands' = Append(commands, Poison)
    /\ Goto(Ctl, "gone")
    /\ UNCHANGED <<hostVars, engineVars, localVars, future, countVars, closing>>

Closed ==
    /\ pc[Ctl] = "gone" /\ state # "closed"
    /\ pc[Eng] = "ended" \/ pc[Seq_] = "await"
    /\ state' = "closed"
    /\ UNCHANGED <<directive, currentItem, lastOutcome, commands, engineVars, pc,
                   localVars, future, countVars, closing>>

-----------------------------------------------------------------------------
SeqStep == SeqReady \/ RunPlan \/ Submit \/ TakeResult

EngStep ==
    \/ TakeCommand \/ PlanStarts \/ CallEngine
    \/ LookAtEngine \/ EnterPause \/ TakeDirective \/ LeavePause \/ ActOnDirective
    \/ ClearItem \/ StoreOutcome \/ BackToIdle \/ ResolveFuture \/ DeviceDone

EngineStep == PlanEnds \/ PlanPauses \/ PlanInterrupted

CtlStep == InterruptEngine \/ TestPaused \/ StoreDirective

CtlRequest ==
    Resume \/ CallDevice \/ \E k \in Interrupts : Interrupt(k)

CloseStep == CloseSequencer \/ Shutdown \/ Closed

Next == SeqStep \/ EngStep \/ EngineStep \/ CtlStep \/ CtlRequest \/ CloseStep

Spec == Init /\ [][Next]_vars

\* Threads go on, and a plan that runs ends or pauses.
Fairness ==
    WF_vars(SeqStep) /\ WF_vars(EngStep) /\ WF_vars(EngineStep) /\ WF_vars(CtlStep)

FairSpec == Spec /\ Fairness
-----------------------------------------------------------------------------
(* Properties. *)

PlanOn == state \in {"running", "paused"}

\* The sequencer's plan is never refused: nothing makes the engine busy between
\* the poll that saw it idle and the submission, and a future is not resolved
\* before the host is idle again (_run_plan_on_thread, _run_loop), unless the plan
\* has called exit(), and then the sequencer is gone.
PlanNotRefused ==
    pc[Seq_] \in {"ready", "submit"} => state \in {"idle", "closed"}

\* Whoever reads "idle" can read the outcome of the plan that ended last, as soon
\* as the state says so and until the next plan begins; and while a plan is the
\* current one the outcome is still that of an earlier one.
OutcomeWithIdle ==
    /\ state = "idle" => lastOutcome = ended
    /\ currentItem # None => lastOutcome = None \/ lastOutcome.plan < currentItem

\* What the threads hold fits where they are, and at most one plan is on its way:
\* in the command queue or on the engine thread, with the sequencer waiting for it.
\* The inductive part of PlanNotRefused and OutcomeWithIdle.
PlanPCs == {"start", "factory", "inRE", "interrupted", "pausing", "wait", "took",
            "act", "outcome", "store", "setIdle", "resolve"}

PlanQueued == \E i \in 1..Len(commands) : commands[i] = PlanCommand

HandsOK ==
    /\ pc[Eng] \in {"took", "act"} => took # None
    /\ pc[Eng] \in {"outcome", "store", "setIdle", "resolve"} => exit # None
    /\ pc[Ctl] \in {"directive", "store"} => intent # None
    /\ pc[Ctl] = "second" => intent # None /\ intent.kind \in Interrupts
    /\ pc[Seq_] \in {"ready", "submit"} => plans < MaxPlans
    /\ re = "running" => pc[Eng] = "inRE" \/ pc[Ctl] = "inRE"

OnePlan ==
    /\ \A i, j \in 1..Len(commands) :
          commands[i] = PlanCommand /\ commands[j] = PlanCommand => i = j
    /\ PlanQueued => pc[Eng] \notin PlanPCs
    /\ PlanQueued \/ pc[Eng] \in PlanPCs => future = "pending"
    /\ future # None => pc[Seq_] = "await" /\ plans >= 1
    /\ currentItem # None =>
          currentItem = plans /\ pc[Eng] \in PlanPCs \ {"store", "setIdle", "resolve"}
    /\ state = "running" =>
          \/ pc[Eng] \in PlanPCs \ {"start", "resolve"}
          \/ pc[Eng] = "resolve" /\ exit = Fatal
          \/ future = Fatal \/ pc[Seq_] = "dead"
    /\ state = "paused" => pc[Eng] \in {"wait", "took"}

OutcomeKept ==
    /\ lastOutcome # None => lastOutcome.plan <= plans
    /\ future = "pending" /\ pc[Eng] \notin {"setIdle", "resolve"}
          => lastOutcome = None \/ lastOutcome.plan < plans
    /\ pc[Eng] = "store" => ended = [plan |-> plans, exit |-> exit] /\ exit # Fatal
    /\ pc[Eng] # "store" => lastOutcome = ended
    /\ pc[Eng] \in PlanPCs \ {"start", "resolve"} => state # "idle"

\* Every plan is answered, be it by an exception or by exit(): its future is
\* resolved, or it is paused and waits for a client (or the end of the process).
PlanAnswered ==
    pc[Seq_] = "await"
        ~> pc[Seq_] # "await" \/ (pc[Eng] = "wait" /\ directive = None)

\* host.py:441: "The engine thread is waiting on the directive; let it perform
\* the interruption", that is, in the pause in which the client asked for it.
DirectivesActOnTheirPause == pc[Eng] = "took" => took.pause = pauses

\* host.py:10-11: "a control request never waits behind the plan that is blocking
\* the engine thread".
ControlNeverWaits == pc[Ctl] = "calling" => ~PlanOn

\* host.py:454: an interrupt is refused when there is "nothing to" interrupt.
RefusedOnlyWithoutPlan ==
    [][pc[Ctl] \in {"second", "directive"} /\ pc'[Ctl] = "idle"
        /\ intent.kind \in Interrupts /\ asked = None /\ asked' = None
            => ~PlanOn]_vars

\* host.py:46: the state is "the host's view of the engine, one level above
\* bluesky's own state machine": it does not stay at paused with no pause.
PausedIsPaused == pc[Eng] = "wait" => re = "paused"
=============================================================================
