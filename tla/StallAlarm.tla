------------------------------- MODULE StallAlarm -------------------------------
(***************************************************************************)
(* The stall alarm (StatusReporter._progress_and_stall, api/status.py):    *)
(* each status document says how many events the running plan has          *)
(* collected and whether it has stopped collecting.                        *)
(*                                                                         *)
(* The engine thread runs one plan after another and counts events in the  *)
(* runs that are open; the thread that builds the document reads the count *)
(* (EngineHost.collected_events), the clock and the state, in that order.  *)
(* The alarm keeps time by being asked: an open websocket asks about once  *)
(* a second (status.py:67-70), so here at least once between two ticks.    *)
(***************************************************************************)
EXTENDS Integers

CONSTANTS
    StallAfter,  \* stall_after, in ticks
    MaxClock,    \* bound: ticks
    MaxEvents    \* bound: events that a run collects

ASSUME StallAssumption ==
    /\ StallAfter \in Nat \ {0}
    /\ MaxClock \in Nat /\ MaxEvents \in Nat

VARIABLES
    plansLeft,       \* bound: plans that may still begin
    clock,           \* the clock of the status reporter
    asked,           \* a document has been built since the last tick
    running,         \* EngineHost.state is RUNNING
    paused,          \* it is PAUSED
    events,          \* what the runs that are open have collected
    lastCollected,   \* StatusReporter._last_collected
    lastProgressAt,  \* StatusReporter._last_progress_at
    announced,       \* StatusReporter._stall_announced
    building,        \* where the thread that builds the document is
    total,           \* its local variable total
    stalled          \* plan_stalled, in the last document

\* Auxiliary variables.
VARIABLES
    begun,      \* when the running plan began
    quietFrom,  \* since when it has been running and collected nothing
    news,       \* something has happened since the last warning
    meanwhile,  \* something has happened since the count was read
    repeated    \* a warning was logged although nothing had

planVars == <<plansLeft, running, paused, events, begun, quietFrom>>
alarmVars ==
    <<lastCollected, lastProgressAt, announced, stalled, news, meanwhile, repeated>>
stallVars == <<clock, asked, planVars, alarmVars, building, total>>

\* A type for every variable.
StallTypeOK ==
    /\ plansLeft \in Nat /\ clock \in 0..MaxClock
    /\ asked \in BOOLEAN /\ running \in BOOLEAN /\ paused \in BOOLEAN
    /\ {events, lastCollected, total} \subseteq 0..MaxEvents
    /\ {lastProgressAt, begun, quietFrom} \subseteq 0..clock
    /\ announced \in BOOLEAN /\ stalled \in BOOLEAN
    /\ building \in {"no", "total"}
    /\ {news, meanwhile, repeated} \subseteq BOOLEAN

StallInit ==
    /\ plansLeft \in {0, 2} /\ clock = 0 /\ asked = FALSE
    /\ running = FALSE /\ paused = FALSE /\ events = 0
    /\ lastCollected = 0 /\ lastProgressAt = 0 /\ announced = FALSE
    /\ building = "no" /\ total = 0 /\ stalled = FALSE
    /\ begun = 0 /\ quietFrom = 0 /\ news = FALSE
    /\ meanwhile = FALSE /\ repeated = FALSE

-----------------------------------------------------------------------------
(* The engine thread. *)

\* The plan is on and has just done what the alarm counts as progress.
Fresh ==
    /\ quietFrom' = clock /\ news' = TRUE /\ meanwhile' = TRUE
    /\ UNCHANGED <<lastCollected, lastProgressAt, announced, stalled, repeated>>

BeginPlan ==
    /\ plansLeft > 0 /\ ~running /\ ~paused
    /\ plansLeft' = plansLeft - 1
    /\ running' = TRUE /\ begun' = clock
    /\ Fresh
    /\ UNCHANGED <<clock, asked, paused, events, building, total>>

Collect ==
    /\ running /\ events < MaxEvents
    /\ events' = events + 1
    /\ Fresh
    /\ UNCHANGED <<plansLeft, clock, asked, running, paused, begun, building, total>>

\* A run of the plan closes, and its counters go with it.
CloseRun ==
    /\ running /\ events > 0
    /\ events' = 0
    /\ Fresh
    /\ UNCHANGED <<plansLeft, clock, asked, running, paused, begun, building, total>>

Pause ==
    /\ running /\ running' = FALSE /\ paused' = TRUE
    /\ UNCHANGED <<plansLeft, clock, asked, events, begun, quietFrom, alarmVars,
                   building, total>>

Resume ==
    /\ paused /\ running' = TRUE /\ paused' = FALSE
    /\ Fresh
    /\ UNCHANGED <<plansLeft, clock, asked, events, begun, building, total>>

EndPlan ==
    /\ running
    /\ running' = FALSE /\ events' = 0
    /\ UNCHANGED <<plansLeft, clock, asked, paused, begun, quietFrom, alarmVars,
                   building, total>>

-----------------------------------------------------------------------------
(* The thread that builds documents. *)

\* EngineHost.collected_events (bound: while there is, or may be, a plan)
ReadTotal ==
    /\ building = "no" /\ (plansLeft > 0 \/ running \/ paused)
    /\ total' = events
    /\ building' = "total"
    /\ meanwhile' = FALSE
    /\ UNCHANGED <<clock, asked, planVars, lastCollected, lastProgressAt, announced,
                   stalled, news, repeated>>

\* "the collected-event count has not moved ... while a plan is running"
Progress == total # lastCollected \/ ~running

\* Mutant: one tick too late.
LongerThan(quietFor) == quietFor > StallAfter + 1

LongEnough(quietFor) == quietFor >= StallAfter

\* Mutant: the warning is repeated in every document.
WarnAgain(isStalled) == isStalled

Warn(isStalled) == isStalled /\ ~announced

\* The clock, the state, and the decision.
Decide ==
    /\ building = "total"
    /\ lastCollected' = IF Progress THEN total ELSE lastCollected
    /\ lastProgressAt' = IF Progress THEN clock ELSE lastProgressAt
    /\ stalled' = (running /\ LongEnough(clock - lastProgressAt'))
    /\ IF Progress
       THEN announced' = FALSE /\ UNCHANGED <<news, repeated>>
       ELSE /\ announced' = (announced \/ stalled')
            /\ news' = IF Warn(stalled') THEN meanwhile ELSE news
            /\ repeated' = (repeated \/ (Warn(stalled') /\ ~news))
    /\ building' = "no" /\ asked' = TRUE
    /\ total' = 0 /\ meanwhile' = FALSE
    /\ UNCHANGED <<clock, planVars>>

\* Time goes on, and there is someone to see the alarm.
Tick ==
    /\ clock < MaxClock /\ asked /\ building = "no"
    /\ clock' = clock + 1 /\ asked' = FALSE
    /\ UNCHANGED <<planVars, alarmVars, building, total>>

-----------------------------------------------------------------------------
PlanStep == BeginPlan \/ Collect \/ CloseRun \/ Pause \/ Resume \/ EndPlan

StallNext == PlanStep \/ ReadTotal \/ Decide \/ Tick

-----------------------------------------------------------------------------
(* Properties. *)

\* A plan that has been running and has collected nothing for stall_after, and one
\* tick for the change to be noticed, is reported by the first document after
\* that, whatever it did before and whatever the count was then.
QuietPlanIsReported ==
    running /\ asked /\ building = "no" /\ clock - quietFrom > StallAfter => stalled

\* status.py:83-84: the log gets one warning for each time a plan falls quiet,
\* however often the document is built: "crying wolf is how an alarm gets ignored"
\* (config.py:74).
OneWarningPerQuiet == ~repeated

\* config.py:73: "Seconds a running plan may collect nothing before status says it
\* has stalled": a document calls a plan stalled only if that plan has collected
\* nothing for that long, give or take the tick between two documents (what happens
\* while a document is built does not count).
StalledMeansNothingCollected ==
    [][building = "total" /\ building' = "no" /\ stalled' /\ ~meanwhile
         => clock - quietFrom >= StallAfter - 1]_stallVars
=================================================================================
