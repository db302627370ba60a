----------------------------- MODULE ServiceProofs -----------------------------
(***************************************************************************)
(* Theorems about the parts of the service and its clients that meet only  *)
(* where one begins after another has ended: how a process starts, how it  *)
(* stops, what a client of the API or of a websocket is answered, what a   *)
(* command does that is typed again, what a profile leaves, and what is    *)
(* said of a failure.  They share no variable; each part has its own       *)
(* specification and its own invariant.                                    *)
(***************************************************************************)
EXTENDS Startup, ProfileSource, Shutdown, Diagnostics, Sockets, Qsctl, SequenceLemmas,
        FiniteSetTheorems

-----------------------------------------------------------------------------
(* Starting.  That nothing half built serves, whatever the settings, and that  *)
(* a listing leaves no engine thread behind.  The invariant says what has been *)
(* built wherever main is, and what the future that main waits for says of the *)
(* engine's thread.                                                            *)

\* The engine is there, and its thread waits for commands.
EngineReady ==
    engine # None /\ source # None /\ state = "idle" /\ engineThread = "waiting"

\* Nothing runs yet.
NothingRuns == main \in {"file", "environment", "flags", "host"}

BuiltSoFar ==
    /\ main \in {"registry", "tables", "devices", "sequencer", "serve"} => EngineReady
    /\ main \in {"devices", "sequencer", "serve"} => tables
    /\ main = "serve" => sequencer
    /\ exitCode = "0" => source # None

\* The future is main's and the engine thread's: none is pending that nobody resolves.
FutureFits ==
    /\ main # "await" => future = "none" /\ engineThread # "loading"
    /\ future = "none" => engineThread # "loading"
    /\ future \in {"result", "exception", "quit"} => engineThread = "waiting"
    /\ future = "result" => EngineReady

\* A listing does not go on to serve, and shuts the host down wherever it ends.
ListingEnds ==
    /\ NothingRuns => state = "starting" /\ engineThread = "off"
    /\ listing => main \notin {"tables", "devices", "sequencer", "serve"}
    /\ main = "exited" /\ listing /\ state # "starting"
         => state = "closed" /\ engineThread = "ended"

\* What a layer makes of the configuration, it still chooses a profile in.
ConfigOK ==
    /\ config \in [kind : Kinds, from : [Settings -> Layers]]
    /\ file \in Files

StartupInv == ConfigOK /\ BuiltSoFar /\ FutureFits /\ ListingEnds

-----------------------------------------------------------------------------
LEMMA StartupBegins == Init => StartupInv
  BY StartupAssumption
     DEF Init, Starting, StartupInv, ConfigOK, BuiltSoFar, FutureFits, ListingEnds, NothingRuns, Kinds,
      Layers

\* A layer keeps the type of the configuration.
LEMMA OverlaidType ==
  ASSUME NEW c \in [kind : Kinds, from : [Settings -> Layers]], NEW layer \in Layers,
         NEW sets, NEW other \in Kinds \cup {None}
  PROVE  Overlaid(c, layer, sets, other) \in [kind : Kinds, from : [Settings -> Layers]]
  BY DEF Overlaid

\* Settings are merged before anything is built; a layer that is wrong ends the process.
LEMMA SettingsKeep ==
  ASSUME StartupInv, LoadConfig
  PROVE  StartupInv'
  <1> USE DEF StartupInv, ConfigOK, BuiltSoFar, FutureFits, ListingEnds, NothingRuns, EngineReady, GiveUp,
              parts, given
  <1>0. "file" \in Layers /\ "environment" \in Layers /\ "flags" \in Layers
    BY DEF Layers
  <1>1. CASE ApplyFile
    <2>1. config' \in [kind : Kinds, from : [Settings -> Layers]]
      <3>1. file # None => file.kind \in Kinds \cup {None}
        BY DEF Files
      <3> QED
        BY <1>0, <1>1, <3>1, OverlaidType DEF ApplyFile
    <2> QED
      BY <1>1, <2>1 DEF ApplyFile
  <1>2. CASE ApplyEnvironment
    <2>1. config' \in [kind : Kinds, from : [Settings -> Layers]]
      <3>1. KindFromEnvironment \in Kinds \cup {None}
        BY DEF KindFromEnvironment, Kinds
      <3> QED
        BY <1>0, <1>2, <3>1, OverlaidType DEF ApplyEnvironment
    <2> QED
      BY <1>2, <2>1 DEF ApplyEnvironment
  <1>3. CASE ApplyFlags
    <2>1. config' \in [kind : Kinds, from : [Settings -> Layers]]
      <3>1. KindFromFlags \in Kinds \cup {None}
        BY DEF KindFromFlags, Kinds
      <3> QED
        BY <1>0, <1>3, <3>1, OverlaidType DEF ApplyFlags
    <2> QED
      BY <1>3, <2>1 DEF ApplyFlags
  <1> QED
    BY <1>1, <1>2, <1>3 DEF LoadConfig

\* Main goes on when the step before has succeeded, and only then.
LEMMA BuildKeeps ==
  ASSUME StartupInv, Build
  PROVE  StartupInv'
  <1> USE DEF StartupInv, ConfigOK, BuiltSoFar, FutureFits, ListingEnds, NothingRuns, EngineReady, Fail,
              parts, given
  <1>1. CASE StartHost
    BY <1>1 DEF StartHost
  <1>2. CASE MakeSource
    BY <1>2 DEF MakeSource
  <1>3. CASE TakeResult
    BY <1>3 DEF TakeResult
  <1>4. CASE FillRegistry
    BY <1>4 DEF FillRegistry
  <1>5. CASE CreateTables
    BY <1>5 DEF CreateTables
  <1>6. CASE InstantiateDevices
    BY <1>6 DEF InstantiateDevices
  <1>7. CASE StartSequencer
    BY <1>7 DEF StartSequencer
  <1>8. CASE ShutdownHost
    BY <1>8 DEF ShutdownHost, EndThread
  <1> QED
    BY <1>1, <1>2, <1>3, <1>4, <1>5, <1>6, <1>7, <1>8 DEF Build

\* The engine's thread answers while main waits.
LEMMA EngineThreadKeeps ==
  ASSUME StartupInv, EngineThread
  PROVE  StartupInv'
  <1> USE DEF StartupInv, ConfigOK, BuiltSoFar, FutureFits, ListingEnds, NothingRuns, EngineReady, parts, given
  <1>1. CASE BeginLoading
    BY <1>1 DEF BeginLoading
  <1>2. CASE LoadProfile
    <2>1. CASE AnswerException /\ UNCHANGED <<engine, source, state>>
      BY <1>2, <2>1 DEF LoadProfile, AnswerException
    <2>2. CASE /\ engine' \in EngineOf(config.kind)
               /\ source' = [kind |-> config.kind, layer |-> config.from[PlaceOf[config.kind]]]
               /\ state' = "idle" /\ engineThread' = "waiting" /\ future' = "result"
      <3>1. PlaceOf[config.kind] \in Settings
        BY DEF Kinds, PlaceOf, Settings, Places
      <3>2. source' \in [kind : Kinds, layer : Layers]
        BY <2>2, <3>1
      <3>3. engine' # None /\ source' # None
        BY <2>2, <3>2, StartupAssumption DEF EngineOf
      <3> QED
        BY <1>2, <2>2, <3>3 DEF LoadProfile
    <2> QED
      BY <1>2, <2>1, <2>2 DEF LoadProfile
  <1> QED
    BY <1>1, <1>2 DEF EngineThread

\* A process that serves has its engine on a live thread, its tables and its sequencer; one
\* that ends with 0 has loaded its profile; a listing has shut its engine thread down:
\* main.py:86, "a profile that does not load is fatal on purpose", whatever fails.
THEOREM OnlyWhenBuilt == Spec => []ServesOnlyWhenBuilt
  <1>1. StartupInv /\ [Next]_vars => StartupInv'
    <2> SUFFICES ASSUME StartupInv, [Next]_vars PROVE StartupInv'
      OBVIOUS
    <2>1. CASE UNCHANGED vars
      BY <2>1 DEF vars, parts, given, StartupInv, ConfigOK, BuiltSoFar, FutureFits, ListingEnds, NothingRuns,
                  EngineReady
    <2> QED
      BY <2>1, SettingsKeep, BuildKeeps, EngineThreadKeeps DEF Next
  <1>2. StartupInv => ServesOnlyWhenBuilt
    BY DEF StartupInv, BuiltSoFar, FutureFits, ListingEnds, NothingRuns, EngineReady,
           ServesOnlyWhenBuilt
  <1> QED
    BY StartupBegins, <1>1, <1>2, PTL DEF Spec

-----------------------------------------------------------------------------
(* Stopping.  That a stop cuts long plans only, for any number of items.  The  *)
(* property speaks of the end of the process; the invariant says what leads    *)
(* there: the items in hand agree with where the two threads are, and once     *)
(* main waits for the engine none but a plan that is on, or was on when that   *)
(* began, can still be in hand.                                                *)

PlanWaits == \E k \in 1..Len(commands) : commands[k] = "plan"

\* The items in hand, wherever the loop is.
HandFits ==
    /\ \A i, j \in InHand : item[i] = item[j]
    /\ loop \in {"poll", "pop", "ended"} => InHand = {}
    /\ loop = "submit" => \A i \in InHand : item[i] = "taken"
    /\ loop = "record" => \A i \in InHand : item[i] = "ended"

\* One plan at a time is on its way to the engine, or there.
OnePlan ==
    /\ \A j, k \in 1..Len(commands) : commands[j] = "plan" /\ commands[k] = "plan" => j = k
    /\ PlanWaits => loop = "result" /\ ~PlanOn /\ \A i \in InHand : item[i] = "taken"
    /\ PlanOn => loop = "result" /\ \A i \in InHand : item[i] = "begun"

\* What main has not waited long enough for.
OnlyLongLeft ==
    /\ stage \in {"joinLoop", "joinEngine", "over"} => closing
    /\ stage \in {"joinEngine", "over"} =>
         /\ loop \in {"poll", "result", "record", "ended"}
         /\ \A i \in InHand : item[i] = "begun" \/ i \in late

ShutdownInv == ShutdownTypeOK /\ HandFits /\ OnePlan /\ OnlyLongLeft

-----------------------------------------------------------------------------
\* A process begins with nothing in hand and nobody waiting.
LEMMA ShutdownBegins == ShutdownInit => ShutdownInv
  <1> SUFFICES ASSUME ShutdownInit PROVE ShutdownInv
    OBVIOUS
  <1>1. ShutdownTypeOK
    <2>1. <<>> \in Seq({"plan", None})
      OBVIOUS
    <2>2. item \in [1..MaxItems ->
                      {"queued", "taken", "begun", "ended", "recorded", "held", "exited"}]
      BY DEF ShutdownInit
    <2> QED
      BY <2>1, <2>2 DEF ShutdownInit, ShutdownTypeOK
  <1>2. HandFits /\ InHand = {}
    BY DEF ShutdownInit, HandFits, InHand
  <1>3. OnePlan
    BY DEF ShutdownInit, OnePlan, PlanWaits, PlanOn
  <1>4. OnlyLongLeft
    BY DEF ShutdownInit, OnlyLongLeft
  <1> QED
    BY <1>1, <1>2, <1>3, <1>4 DEF ShutdownInv

\* What a change of the items of one place does to those in hand.
LEMMA MovedIs ==
  ASSUME ShutdownTypeOK, NEW from, NEW to, item' = Moved(from, to)
  PROVE  /\ DOMAIN item' = 1..MaxItems
         /\ \A i \in 1..MaxItems : item'[i] = IF item[i] = from THEN to ELSE item[i]
  BY DEF Moved, ShutdownTypeOK

\* The steps of main and of a client leave the items alone.
LEMMA MainKeeps ==
  ASSUME ShutdownInv, Main \/ Client
  PROVE  ShutdownInv'
  <1> USE DEF ShutdownInv, ShutdownTypeOK, HandFits, OnePlan, OnlyLongLeft, InHand, PlanWaits,
              PlanOn, threadVars
  <1>1. ASSUME NEW signal \in BOOLEAN, ShouldExit(signal) PROVE ShutdownInv'
    BY <1>1 DEF ShouldExit
  <1>2. CASE ServerReturns
    BY <1>2 DEF ServerReturns
  <1>3. CASE CloseSequencer
    BY <1>3 DEF CloseSequencer
  <1>4. CASE QuitEngine
    <2>1. /\ commands' = Append(commands, None) /\ Len(commands') = Len(commands) + 1
          /\ \A k \in 1..Len(commands) : commands'[k] = commands[k]
          /\ commands'[Len(commands) + 1] = None
      BY <1>4 DEF QuitEngine
    <2>2. None # "plan"
      BY ShutdownAssumption
    <2>3. PlanWaits' = PlanWaits
      BY <2>1, <2>2
    <2>4. \A j, k \in 1..Len(commands') :
              commands'[j] = "plan" /\ commands'[k] = "plan" => j = k
      BY <2>1, <2>2
    <2>5. ShutdownTypeOK'
      BY <1>4, <2>1 DEF QuitEngine
    <2>6. HandFits'
      BY <1>4 DEF QuitEngine
    <2>7. OnePlan'
      <3>1. loop' = loop /\ worker' = worker /\ item' = item
        BY <1>4 DEF QuitEngine
      <3>2. PlanWaits' => loop' = "result" /\ ~PlanOn' /\ \A i \in InHand' : item'[i] = "taken"
        BY <2>3, <3>1
      <3>3. PlanOn' => loop' = "result" /\ \A i \in InHand' : item'[i] = "begun"
        BY <3>1
      <3> QED
        BY <2>4, <3>2, <3>3
    <2>8. OnlyLongLeft'
      BY <1>4 DEF QuitEngine, LoopJoined, TimedOut
    <2> QED
      BY <2>5, <2>6, <2>7, <2>8
  <1>5. CASE Exit
    BY <1>5 DEF Exit
  <1>6. CASE Control
    BY <1>6 DEF Control
  <1>7. CASE Stream
    BY <1>7 DEF Stream
  <1>8. ASSUME NEW option \in {"safe_on", "safe_off"}, ManagerStop(option) PROVE ShutdownInv'
    BY <1>8 DEF ManagerStop
  <1> QED
    BY <1>1, <1>2, <1>3, <1>4, <1>5, <1>6, <1>7, <1>8 DEF Main, Client

\* So does the loop, which takes an item only with none in hand.
LEMMA LoopKeeps ==
  ASSUME ShutdownInv, LoopThread
  PROVE  ShutdownInv'
  <1> USE DEF ShutdownInv, ShutdownTypeOK, HandFits, OnePlan, OnlyLongLeft, InHand, PlanWaits,
              PlanOn, threadVars
  <1>1. CASE Poll
    BY <1>1 DEF Poll, LoopThread
  <1>2. CASE Pop
    BY <1>2 DEF Pop, LoopThread
  <1>3. CASE Submit
    <2>1. /\ commands' = Append(commands, "plan") /\ Len(commands') = Len(commands) + 1
          /\ \A k \in 1..Len(commands) : commands'[k] = commands[k]
          /\ \A k \in 1..Len(commands) : commands[k] # "plan"
      BY <1>3 DEF Submit
    <2>2. \A j, k \in 1..Len(commands') :
              commands'[j] = "plan" /\ commands'[k] = "plan" => j = k
      BY <2>1
    <2>3. ShutdownTypeOK'
      BY <1>3 DEF Submit, LoopThread
    <2> QED
      BY <1>3, <2>2, <2>3 DEF Submit, LoopThread
  <1>4. CASE TakeOutcome
    BY <1>4 DEF TakeOutcome, LoopThread
  <1>5. CASE Record
    <2>1. PICK to \in {"recorded", "held"} : item' = Moved("ended", to)
      BY <1>5 DEF Record
    <2>2. \A i \in 1..MaxItems : item'[i] = IF item[i] = "ended" THEN to ELSE item[i]
      BY <2>1, MovedIs
    <2>3. item' \in [1..MaxItems ->
                       {"queued", "taken", "begun", "ended", "recorded", "held", "exited"}]
      BY <2>1 DEF Moved
    <2>4. InHand' = {}
      BY <1>5, <2>2 DEF Record
    <2> QED
      BY <1>5, <2>3, <2>4 DEF Record, LoopThread
  <1>6. CASE LoopExits
    <2>1. \A i \in 1..MaxItems : item'[i] = IF item[i] = "ended" THEN "exited" ELSE item[i]
      BY <1>6, MovedIs DEF LoopExits
    <2>2. item' \in [1..MaxItems ->
                       {"queued", "taken", "begun", "ended", "recorded", "held", "exited"}]
      BY <1>6 DEF LoopExits, Moved
    <2>3. InHand' = {}
      BY <1>6, <2>1 DEF LoopExits
    <2>4. ~PlanWaits /\ ~PlanOn
      BY <1>6 DEF LoopExits
    <2> QED
      BY <1>6, <2>2, <2>3, <2>4 DEF LoopExits, LoopThread
  <1> QED
    BY <1>1, <1>2, <1>3, <1>4, <1>5, <1>6 DEF LoopThread

\* And the engine, which ends late what it ends while main waits for it.
LEMMA EngineKeeps ==
  ASSUME ShutdownInv, EngineThreadStep
  PROVE  ShutdownInv'
  <1> USE DEF ShutdownInv, ShutdownTypeOK, HandFits, OnePlan, OnlyLongLeft, InHand, PlanWaits,
              PlanOn, threadVars
  <1>1. CASE GetCommand
    <2>1. /\ commands # <<>> /\ commands' = Tail(commands)
          /\ Len(commands') = Len(commands) - 1
          /\ \A k \in 1..Len(commands') : commands'[k] = commands[k + 1]
          /\ Head(commands) = commands[1] /\ 1 \in 1..Len(commands)
      BY <1>1 DEF GetCommand
    <2>2. commands' \in Seq({"plan", None})
      BY <2>1
    <2>3. \A j, k \in 1..Len(commands') :
              commands'[j] = "plan" /\ commands'[k] = "plan" => j = k
      BY <2>1
    <2>4. PlanWaits' => PlanWaits
      BY <2>1
    <2>5. CASE Head(commands) = None
      BY <1>1, <2>2, <2>3, <2>4, <2>5 DEF GetCommand, EngineThreadStep
    <2>6. CASE Head(commands) # None
      <3>1. Head(commands) = "plan" /\ PlanWaits
        BY <2>1, <2>6
      <3>2. ~PlanWaits'
        BY <2>1, <3>1
      <3>3. item' = Moved("taken", "begun")
        BY <1>1, <2>6 DEF GetCommand
      <3>4. \A i \in 1..MaxItems : item'[i] = IF item[i] = "taken" THEN "begun" ELSE item[i]
        BY <3>3, MovedIs
      <3>5. item' \in [1..MaxItems ->
                         {"queued", "taken", "begun", "ended", "recorded", "held", "exited"}]
        BY <3>3 DEF Moved
      <3>6. InHand' = InHand /\ \A i \in InHand' : item'[i] = "begun"
        BY <3>1, <3>4
      <3>7. worker' = "plan" /\ loop' = loop /\ late' = late /\ started' = started
            /\ stage' = stage /\ streaming' = streaming /\ closing' = closing
        BY <1>1, <2>6 DEF GetCommand, EngineThreadStep
      <3> QED
        BY <2>2, <2>3, <3>1, <3>2, <3>5, <3>6, <3>7
    <2> QED
      BY <2>5, <2>6
  <1>2. CASE EndPlan
    <2>1. \A i \in 1..MaxItems : item'[i] = IF item[i] = "begun" THEN "ended" ELSE item[i]
      BY <1>2, MovedIs DEF EndPlan
    <2>2. item' \in [1..MaxItems ->
                       {"queued", "taken", "begun", "ended", "recorded", "held", "exited"}]
      BY <1>2 DEF EndPlan, Moved
    <2>3. InHand' = InHand /\ \A i \in InHand' : item'[i] = "ended"
      BY <1>2, <2>1 DEF EndPlan
    <2>4. worker' = "get" /\ loop' = loop /\ commands' = commands /\ started' = started
          /\ stage' = stage /\ streaming' = streaming /\ closing' = closing /\ stage # "over"
      BY <1>2 DEF EndPlan, EngineThreadStep
    <2>5. late' = IF stage = "joinEngine" THEN late \cup InHand ELSE late
      BY <1>2 DEF EndPlan
    <2> QED
      BY <1>2, <2>2, <2>3, <2>4, <2>5 DEF EndPlan
  <1> QED
    BY <1>1, <1>2 DEF EngineThreadStep

\* ShutdownInv is an invariant.
LEMMA ShutdownKeeps == ShutdownSpec => []ShutdownInv
  <1>1. ShutdownInv /\ [ShutdownNext]_shutdownVars => ShutdownInv'
    <2> SUFFICES ASSUME ShutdownInv, [ShutdownNext]_shutdownVars PROVE ShutdownInv'
      OBVIOUS
    <2>1. CASE UNCHANGED shutdownVars
      BY <2>1 DEF shutdownVars, threadVars, ShutdownInv, ShutdownTypeOK, HandFits, OnePlan,
                  OnlyLongLeft, InHand, PlanWaits, PlanOn
    <2> QED
      BY <2>1, MainKeeps, LoopKeeps, EngineKeeps DEF ShutdownNext
  <1> QED
    BY ShutdownBegins, <1>1, PTL DEF ShutdownSpec

\* The property of the run "service", for any number of items in the queue: when the
\* process has ended, nothing has left the queue without a trace but a plan that was on
\* after main had waited ten seconds for it, or that called exit().
THEOREM LongPlansOnly == ShutdownSpec => []OnlyLongPlansAreCut
  <1>1. ShutdownInv => OnlyLongPlansAreCut
    BY DEF ShutdownInv, OnlyLongLeft, OnlyLongPlansAreCut
  <1> QED
    BY ShutdownKeeps, <1>1, PTL

-----------------------------------------------------------------------------
(* Typing a command again.  That it does its work once, unless qsctl has left  *)
(* it open whether a request was carried out, for any number of tries and of   *)
(* changes of the status.  The invariant says, as long as there is no doubt,   *)
(* that the service has at most one request to get to, the last, and that the  *)
(* one it has carried out is the last, too: its answer is on the way, or qsctl *)
(* has exited with 0.  An internal error leaves doubt when it is printed.      *)

\* The change that was carried out has been reported as done, or its answer has come.
Reported ==
    \/ at = "waiting" /\ reply.body \in {"done", "internal"}
    \/ at = "exited" /\ exit = 0

\* What qsctl knows of its requests while it has waited for every answer.
Known ==
    /\ pending \subseteq {tries} /\ performed \subseteq {tries}
    /\ performed # {} => pending = {} /\ Reported
    /\ at = "shell" => pending = {}
    /\ command.name \in Changes =>
         /\ at # "waiting" \/ reply # None => pending = {}
         /\ at # "sleeping"

QsctlInv ==
    /\ tries \in Nat /\ command.name \in Commands
    /\ at \in {"shell", "waiting", "sleeping", "exited"}
    /\ command.name \notin Changes => performed = {}
    /\ ~doubt => Known

-----------------------------------------------------------------------------
LEMMA QsctlBegins == QsctlInit => QsctlInv
  BY DEF QsctlInit, About, QsctlInv, Known, Reported

\* One request after another: none is sent before qsctl knows what became of the last.
LEMMA TypeKeeps ==
  ASSUME QsctlInv, Type
  PROVE  QsctlInv'
  BY DEF QsctlInv, Known, Reported, Type

\* The service carries out the last request, and qsctl still waits for its answer.
LEMMA ServeKeeps ==
  ASSUME QsctlInv, NEW n \in 1..MaxTries, Serve(n)
  PROVE  QsctlInv'
  <1> USE DEF QsctlInv, Known, Reported, documentVars, clientVars
  <1>1. PICK answer \in IF ~key THEN {NotAdmitted} ELSE {Refused, InternalError, Answered} :
          /\ performed' \in {performed, performed \cup {n}}
          /\ performed' # performed => command.name \in Changes /\ answer.body \in {"done", "internal"}
          /\ command.name \in Changes /\ answer.body = "done" => n \in performed'
          /\ reply' = IF at = "waiting" /\ n = tries THEN answer ELSE reply
    BY DEF Serve
  <1>2. n \in pending /\ pending' = pending \ {n}
    BY DEF Serve
  <1> QED
    BY <1>1, <1>2 DEF Serve

\* A change that was carried out is summarised as ok, and qsctl exits with 0.
LEMMA PrintKeeps ==
  ASSUME QsctlInv, ShowReply
  PROVE  QsctlInv'
  <1>1. ASSUME reply # None, reply.body = "done", command.name \in Changes
        PROVE  Succeeded /\ Summary # None
    BY <1>1, QsctlAssumption DEF Succeeded, Summary, Changes, Reads
  <1> QED
    BY <1>1 DEF QsctlInv, Known, Reported, ShowReply, Exits, documentVars, Changes

\* QsctlInv is an invariant.
LEMMA QsctlKeeps == QsctlSpec => []QsctlInv
  <1>1. QsctlInv /\ [QsctlNext]_qsctlVars => QsctlInv'
    <2> SUFFICES ASSUME QsctlInv, [QsctlNext]_qsctlVars PROVE QsctlInv'
      OBVIOUS
    <2> USE DEF QsctlInv, Known, Reported, documentVars, clientVars, Changes, Exits
    <2>1. CASE Unreachable
      BY <2>1 DEF Unreachable
    <2>2. CASE StopWaiting
      BY <2>2 DEF StopWaiting
    <2>3. CASE Watch
      BY <2>3 DEF Watch
    <2>4. CASE Wake
      BY <2>4 DEF Wake
    <2>5. CASE Interrupt
      BY <2>5 DEF Interrupt
    <2>6. CASE Change
      BY <2>6 DEF Change
    <2>7. CASE UNCHANGED qsctlVars
      BY <2>7 DEF qsctlVars
    <2> QED
      BY <2>1, <2>2, <2>3, <2>4, <2>5, <2>6, <2>7, TypeKeeps, ServeKeeps, PrintKeeps
      DEF QsctlNext
  <1> QED
    BY QsctlBegins, <1>1, PTL DEF QsctlSpec

\* The property of the run "service", for any bounds: a command typed again after each
\* failure adds its item, or starts the queue, once, as long as qsctl got its answers.
THEOREM OnceUnlessInDoubt == QsctlSpec => []RepeatedOnlyInDoubt
  <1>1. QsctlInv => RepeatedOnlyInDoubt
    <2> SUFFICES ASSUME QsctlInv, ~doubt PROVE ~(Cardinality(performed) > 1)
      BY DEF RepeatedOnlyInDoubt
    <2>1. performed = {} \/ performed = {tries}
      BY DEF QsctlInv, Known
    <2>2. Cardinality({}) = 0 /\ Cardinality({tries}) = 1
      BY FS_EmptySet, FS_Singleton
    <2> QED
      BY <2>1, <2>2
  <1> QED
    BY QsctlKeeps, <1>1, PTL

-----------------------------------------------------------------------------
(* Presenting a key.  That the websocket and the API answer a client alike,    *)
(* whatever it presents.  Of a client that presents one thing, the code goes   *)
(* by that thing, whether it came before the first message or in it; and what  *)
(* has been decided was decided by what it goes by.                            *)

\* A decision about one offer.
Decided(offer) ==
    /\ phase \in {"admitted", "top", "get"} => IsRight(offer)
    /\ code # None => ~IsRight(offer)
    /\ code # None /\ InAscii(offer) => code = (IF offer.token THEN 4001 ELSE 4401)

DecidedAlike ==
    \A offer \in Offers(presents, message) :
        Offers(presents, message) = {offer} /\ offer.value # None => Decided(offer)

\* Before a decision; a message is waited for where there is nothing to go by.
Undecided ==
    /\ phase \in {"accepted", "awaitMessage"} => message = Silent /\ code = None
    /\ phase = "awaitMessage" => FromHeadersAndQuery(presents).value = None

AnswerInv ==
    /\ setting \in Settled /\ presents \in Presented /\ message \in Messages
    /\ subscribed => phase \in {"top", "get"}
    /\ Undecided /\ DecidedAlike

\* Of one thing that is presented, in any form, that thing is what the code goes by.
LEMMA OneOffer ==
  ASSUME NEW p \in Presented, NEW m \in Messages,
         NEW offer \in Offers(p, m), Offers(p, m) = {offer}, offer.value # None
  PROVE  /\ WithMessage(p, m).value = offer.value
         /\ (WithMessage(p, m).scheme = "bearer") = offer.token
         /\ offer.value \in {"key", "other", "exotic"}
  <1>1. /\ p.header = None \/ p.header \in Headers
        /\ p.apiKey \in Texts /\ p.accessToken \in Texts
        /\ m.apiKey \in Texts /\ m.accessToken \in Texts
    BY DEF Presented, Messages
  <1>2. /\ p.apiKey # None => Offer(FALSE, p.apiKey) \in Offers(p, m)
        /\ m.apiKey # None => Offer(FALSE, m.apiKey) \in Offers(p, m)
        /\ p.accessToken # None => Offer(TRUE, p.accessToken) \in Offers(p, m)
        /\ m.accessToken # None => Offer(TRUE, m.accessToken) \in Offers(p, m)
    BY DEF Offers
  <1>3. p.header # None /\ p.header.scheme # "basic"
          => Offer(p.header.scheme = "bearer", p.header.value) \in Offers(p, m)
    BY DEF Offers
  <1>4. \/ /\ p.header # None /\ p.header.scheme # "basic"
           /\ offer = Offer(p.header.scheme = "bearer", p.header.value)
        \/ \E v \in {p.apiKey, m.apiKey} \ {None} : offer = Offer(FALSE, v)
        \/ \E v \in {p.accessToken, m.accessToken} \ {None} : offer = Offer(TRUE, v)
    BY DEF Offers
  <1>5. offer.value \in {"key", "other", "exotic"}
    BY <1>1, <1>4 DEF Texts, Headers, Offer
  <1>6. ASSUME NEW v, NEW scheme, scheme # "bearer", offer = Offer(FALSE, v),
               WithMessage(p, m) = Credential(scheme, v)
        PROVE  /\ WithMessage(p, m).value = offer.value
               /\ (WithMessage(p, m).scheme = "bearer") = offer.token
    <2>1. offer.value = v /\ offer.token = FALSE
      BY <1>6 DEF Offer
    <2>2. WithMessage(p, m).value = v /\ (WithMessage(p, m).scheme = "bearer") = FALSE
      BY <1>6 DEF Credential
    <2> QED BY <2>1, <2>2
  <1>7. ASSUME NEW v, offer = Offer(TRUE, v), WithMessage(p, m) = Credential("bearer", v)
        PROVE  /\ WithMessage(p, m).value = offer.value
               /\ (WithMessage(p, m).scheme = "bearer") = offer.token
    <2>1. offer.value = v /\ offer.token = TRUE
      BY <1>7 DEF Offer
    <2>2. WithMessage(p, m).value = v /\ (WithMessage(p, m).scheme = "bearer") = TRUE
      BY <1>7 DEF Credential
    <2> QED BY <2>1, <2>2
  <1>8. CASE m.apiKey # None
    BY <1>2, <1>5, <1>6, <1>8 DEF WithMessage
  <1>9. CASE m.apiKey = None /\ m.accessToken # None
    BY <1>2, <1>5, <1>7, <1>9 DEF WithMessage
  <1>10. CASE m.apiKey = None /\ m.accessToken = None
    <2>1. WithMessage(p, m) = FromHeadersAndQuery(p)
      BY <1>10 DEF WithMessage
    <2>2. CASE p.header # None /\ p.header.scheme # "basic"
      <3>1. p.header.scheme \in {"apikey", "bearer"}
        BY <1>1, <2>2 DEF Headers
      <3>2. offer = Offer(p.header.scheme = "bearer", p.header.value)
        BY <1>3, <2>2
      <3> QED
        BY <1>5, <2>1, <2>2, <3>1, <3>2 DEF FromHeadersAndQuery, Credential, Offer
    <2>3. CASE ~(p.header # None /\ p.header.scheme # "basic")
      <3>1. ~(p.header # None /\ p.header.scheme \in {"apikey", "bearer"})
        BY <2>3
      <3>2. CASE p.apiKey # None
        BY <1>2, <1>5, <1>6, <2>1, <3>1, <3>2 DEF FromHeadersAndQuery
      <3>3. CASE p.apiKey = None
        <4>1. p.accessToken # None
          BY <1>4, <1>10, <2>3, <3>3
        <4> QED
          BY <1>2, <1>5, <1>7, <2>1, <3>1, <3>3, <4>1 DEF FromHeadersAndQuery
      <3> QED
        BY <3>2, <3>3
    <2> QED
      BY <2>2, <2>3
  <1> QED
    BY <1>8, <1>9, <1>10

\* What the authenticator makes of it: who is right is let in; who is not, and presents
\* what can be compared, is refused with an AuthenticationError.
LEMMA RightIsLetIn ==
  ASSUME setting \in Settled, NEW credential, NEW offer,
         credential.value = offer.value, offer.value \in {"key", "other", "exotic"}
  PROVE  /\ (Authenticate(credential) = "principal") = IsRight(offer)
         /\ ~IsRight(offer) /\ InAscii(offer) => Authenticate(credential) = "AuthenticationError"
  <1>1. /\ offer.value # None
        /\ (offer.value = Key) = (offer.value = setting.key) \/ setting.key = "exotic"
        /\ (Key = "exotic") = (setting.key = "exotic")
    BY NoneIsNothing DEF Key, Settled
  <1>2. Comparable(offer.value) = InAscii(offer)
    BY <1>1 DEF Comparable, InAscii
  <1>3. CASE setting.anonymous
    BY <1>3 DEF Authenticate, IsRight
  <1>4. CASE ~setting.anonymous /\ ~InAscii(offer)
    BY <1>1, <1>2, <1>4 DEF Authenticate, IsRight
  <1>5. CASE ~setting.anonymous /\ InAscii(offer)
    <2>1. IsRight(offer) = (offer.value = Key)
      BY <1>1, <1>5 DEF IsRight, InAscii
    <2>2. Authenticate(credential)
            = IF offer.value = Key THEN "principal" ELSE "AuthenticationError"
      BY <1>1, <1>2, <1>5 DEF Authenticate
    <2> QED BY <2>1, <2>2
  <1> QED
    BY <1>3, <1>4, <1>5

\* A socket that goes by one thing is decided by it.
LEMMA AdmitDecides ==
  ASSUME setting \in Settled, presents \in Presented, NEW m \in Messages, code = None,
         Admit(WithMessage(presents, m)), UNCHANGED setting,
         NEW offer \in Offers(presents, m), Offers(presents, m) = {offer}, offer.value # None
  PROVE  Decided(offer)'
  <1> DEFINE credential == WithMessage(presents, m)
  <1>1. /\ credential.value = offer.value /\ (credential.scheme = "bearer") = offer.token
        /\ offer.value \in {"key", "other", "exotic"}
    BY OneOffer
  <1>2. Admit(credential)
    OBVIOUS
  <1> HIDE DEF credential
  <1>3. /\ (Authenticate(credential) = "principal") = IsRight(offer)
        /\ ~IsRight(offer) /\ InAscii(offer) => Authenticate(credential) = "AuthenticationError"
    BY <1>1, RightIsLetIn
  <1>4. IsRight(offer)' = IsRight(offer) /\ InAscii(offer)' = InAscii(offer)
    BY DEF IsRight, InAscii
  <1>5. CASE IsRight(offer)
    <2>1. phase' = "admitted" /\ code' = None
      BY <1>2, <1>3, <1>5 DEF Admit
    <2> QED BY <1>4, <1>5, <2>1 DEF Decided
  <1>6. CASE ~IsRight(offer)
    <2>1. Authenticate(credential) # "principal"
      BY <1>3, <1>6
    <2>2. phase' = "closed"
      BY <1>2, <2>1 DEF Admit, Crash
    <2>3. InAscii(offer) => code' = IF credential.scheme = "bearer" THEN 4001 ELSE 4401
      BY <1>2, <1>3, <1>6 DEF Admit
    <2>4. InAscii(offer) => code' = IF offer.token THEN 4001 ELSE 4401
      <3>1. credential.scheme = "bearer" => offer.token
        BY <1>1
      <3>2. credential.scheme # "bearer" => ~offer.token
        BY <1>1
      <3> QED BY <2>3, <3>1, <3>2
    <2> QED BY <1>4, <1>6, <2>2, <2>4 DEF Decided
  <1> QED
    BY <1>5, <1>6

LEMMA AnswerStep ==
  ASSUME AnswerInv, [SocketsNext]_socketVars
  PROVE  AnswerInv'
  <1> USE DEF AnswerInv
  <1>0. UNCHANGED <<setting, presents>>
    BY DEF SocketsNext, Coroutine, OnHandshake, FirstMessage, Subscribe, LoopEnds, SendFails, SendStatus,
           NotDue, GetEvent, TimeOut, Deliver, Leave, DrainEnds, BinaryFirst, BinaryLater, Publish, Close,
           givenVars, socketVars
  <1>1. \A offer : IsRight(offer)' = IsRight(offer) /\ InAscii(offer)' = InAscii(offer)
    BY <1>0 DEF IsRight, InAscii
  <1>2. ASSUME UNCHANGED <<message, phase, code, subscribed>>
        PROVE  AnswerInv'
    BY <1>0, <1>1, <1>2 DEF Undecided, DecidedAlike, Decided
  <1>3. ASSUME phase \in {"top", "get"}, phase' \in {"top", "get", "closed"}, code' = code,
               message' = message, subscribed' => phase' \in {"top", "get"}
        PROVE  AnswerInv'
    BY <1>0, <1>1, <1>3 DEF Undecided, DecidedAlike, Decided
  <1>4. CASE OnHandshake
    <2>1. phase = "accepted" /\ message = Silent /\ message' = message /\ code = None
          /\ subscribed' = subscribed
      BY <1>4 DEF OnHandshake, Undecided, givenVars
    <2>2. WithMessage(presents, Silent) = FromHeadersAndQuery(presents)
      BY DEF WithMessage, Silent
    <2>3. CASE FromHeadersAndQuery(presents).value # None
      <3>1. Admit(WithMessage(presents, message))
        BY <1>4, <2>1, <2>2, <2>3 DEF OnHandshake
      <3>2. DecidedAlike'
        BY <1>0, <2>1, <3>1, AdmitDecides DEF DecidedAlike
      <3>3. phase' \in {"admitted", "closed"}
        BY <3>1 DEF Admit, Crash
      <3> QED
        BY <1>0, <2>1, <3>2, <3>3 DEF Undecided
    <2>4. CASE FromHeadersAndQuery(presents).value = None
      <3>1. phase' = "awaitMessage" /\ code' = code
        BY <1>4, <2>4 DEF OnHandshake
      <3> QED
        BY <1>0, <2>1, <2>4, <3>1 DEF Undecided, DecidedAlike, Decided
    <2> QED
      BY <2>3, <2>4
  <1>5. CASE FirstMessage
    <2>1. /\ phase = "awaitMessage" /\ code = None /\ message' \in Messages
          /\ Admit(WithMessage(presents, message')) /\ subscribed' = subscribed
      BY <1>5 DEF FirstMessage, Undecided
    <2>2. DecidedAlike'
      BY <1>0, <2>1, AdmitDecides DEF DecidedAlike
    <2>3. phase' \in {"admitted", "closed"}
      BY <2>1 DEF Admit, Crash
    <2> QED
      BY <1>0, <2>1, <2>2, <2>3 DEF Undecided
  <1>6. CASE BinaryFirst
    <2>1. /\ phase = "awaitMessage" /\ message = Silent /\ message' = message
          /\ phase' = "closed" /\ subscribed' = subscribed
          /\ FromHeadersAndQuery(presents).value = None
      BY <1>6 DEF BinaryFirst, Undecided, givenVars, Crash
    <2>2. WithMessage(presents, message).value = None
      BY <2>1 DEF WithMessage, Silent
    <2>3. ASSUME NEW offer \in Offers(presents, message), Offers(presents, message) = {offer}
          PROVE  offer.value = None
      BY <2>2, <2>3, OneOffer
    <2> QED
      BY <1>0, <2>1, <2>3 DEF Undecided, DecidedAlike
  <1>7. CASE Subscribe
    BY <1>0, <1>1, <1>7 DEF Subscribe, Undecided, DecidedAlike, Decided, givenVars
  <1>8. CASE LoopEnds \/ SendFails
    BY <1>3, <1>8 DEF LoopEnds, SendFails, Close, Sends, givenVars
  <1>9. CASE SendStatus \/ NotDue \/ GetEvent \/ TimeOut
    BY <1>3, <1>9 DEF SendStatus, NotDue, GetEvent, TimeOut, Sends, givenVars
  <1>10. CASE UNCHANGED socketVars \/ Deliver \/ Leave \/ DrainEnds \/ BinaryLater
    BY <1>2, <1>10 DEF Deliver, Leave, DrainEnds, BinaryLater, socketVars, givenVars
  <1>11. CASE \E what \in {"status", "progress"} : Publish(what)
    BY <1>2, <1>11 DEF Publish, givenVars
  <1> QED
    BY <1>4, <1>5, <1>6, <1>7, <1>8, <1>9, <1>10, <1>11 DEF SocketsNext, Coroutine

\* A client that presents one thing is served by the API and by the websocket if it is the
\* key, or if nobody is asked for one, and by neither if it is not; what can be compared and
\* is refused is told which it was (ws.py:7-9, auth.py:5-7), whatever else it presents of
\* the same, in a request or in the first message, and whenever it leaves.
THEOREM RouteAndSocketAgree == SocketsSpec => []BothAnswerAlike
  <1>1. SocketsInit => AnswerInv
    <2> SUFFICES ASSUME SocketsInit PROVE AnswerInv
      OBVIOUS
    <2>1. Silent \in Messages
      BY DEF Silent, Messages, Texts
    <2> QED
      BY <2>1 DEF SocketsInit, Opening, AnswerInv, Undecided, DecidedAlike, Decided
  <1>2. AnswerInv => BothAnswerAlike
    <2> SUFFICES ASSUME AnswerInv PROVE BothAnswerAlike
      OBVIOUS
    <2>1. ASSUME NEW offer \in Offers(presents, message), Offers(presents, message) = {offer},
                 offer.value # None, message = Silent
          PROVE  (StatusCode(presents) = 200) = IsRight(offer)
      <3>1. FromHeadersAndQuery(presents) = WithMessage(presents, message)
        BY <2>1 DEF WithMessage, Silent
      <3>2. (Authenticate(FromHeadersAndQuery(presents)) = "principal") = IsRight(offer)
        BY <2>1, <3>1, OneOffer, RightIsLetIn DEF AnswerInv
      <3> QED
        BY <3>2 DEF StatusCode
    <2> QED
      BY <2>1 DEF AnswerInv, DecidedAlike, Decided, BothAnswerAlike
  <1> QED
    BY <1>1, <1>2, AnswerStep, PTL DEF SocketsSpec

-----------------------------------------------------------------------------
(* Telling of progress.  That what an info socket is told arrives once and in  *)
(* order.  The invariant is about one sequence: what it has sent, what waits   *)
(* in its queue and what has been scheduled, one behind the other.  Delivering *)
(* and sending leave that as it is, publishing appends to it, and only what is *)
(* not about progress goes from the middle of it.                              *)

Events == [kind : {"status", "progress"}, n : Nat]

\* The progress events with these numbers.
Sent(s) == [i \in DOMAIN s |-> Event("progress", s[i])]

\* The events are in order, and none is newer than the last.
UpTo(last, r) ==
    /\ \A i, j \in 1..Len(r) : i < j => r[i].n < r[j].n
    /\ \A i \in 1..Len(r) : r[i].n <= last

\* Those about progress among them are the ones with these numbers.
AreThose(t, r) ==
    /\ \A i \in 1..Len(r) : r[i].kind = "progress" => \E j \in 1..Len(t) : t[j] = r[i].n
    /\ \A j \in 1..Len(t) : \E i \in 1..Len(r) : r[i].kind = "progress" /\ r[i].n = t[j]

ArrivalType ==
    /\ kind \in {"status", "info"} /\ published \in Nat /\ version \in Nat
    /\ scheduled \in Seq(Events) /\ waiting \in Seq(Events) /\ told \in Seq(Nat)
    /\ shownTo \in [version : Nat \cup {None}, progress : Seq(Nat)]

NothingYet ==
    phase \in {"accepted", "awaitMessage", "admitted"} =>
        /\ ~subscribed
        /\ scheduled = <<>> /\ waiting = <<>> /\ told = <<>> /\ shownTo.progress = <<>>

Arriving ==
    kind = "info" /\ subscribed /\ connected /\ ~dropped =>
        UpTo(published, Reaching) /\ AreThose(told, Reaching)

ArrivalInv == ArrivalType /\ NothingYet /\ Arriving

LEMMA SentIs ==
  ASSUME NEW s \in Seq(Nat)
  PROVE  Sent(s) \in Seq(Events)
  <1>1. \A i \in 1..Len(s) : Event("progress", s[i]) \in Events
    BY DEF Event, Events
  <1> QED
    BY <1>1 DEF Sent

LEMMA SentAppend ==
  ASSUME NEW s \in Seq(Nat), NEW n \in Nat
  PROVE  Sent(Append(s, n)) = Sent(s) \o <<Event("progress", n)>>
  <1>1. Event("progress", n) \in Events
    BY DEF Event, Events
  <1>2. Append(s, n) \in Seq(Nat)
    OBVIOUS
  <1> QED
    BY <1>1, <1>2, SentIs DEF Sent

LEMMA ReachingIs ==
  ASSUME ArrivalType
  PROVE  /\ Reaching = (Sent(shownTo.progress) \o waiting) \o scheduled
         /\ Sent(shownTo.progress) \in Seq(Events)
         /\ Reaching \in Seq(Events)
  <1>1. Reaching = (Sent(shownTo.progress) \o waiting) \o scheduled
    BY DEF Reaching, Sent
  <1>2. Sent(shownTo.progress) \in Seq(Events)
    BY SentIs DEF ArrivalType
  <1>3. Sent(shownTo.progress) \o waiting \in Seq(Events)
    BY <1>2, ConcatProperties DEF ArrivalType
  <1>4. (Sent(shownTo.progress) \o waiting) \o scheduled \in Seq(Events)
    BY <1>3, ConcatProperties DEF ArrivalType
  <1> QED
    BY <1>1, <1>2, <1>4

\* A sequence is its first and the others.
LEMMA FirstAndRest ==
  ASSUME NEW s \in Seq(Events), s # <<>>
  PROVE  s = <<Head(s)>> \o Tail(s) /\ <<Head(s)>> \in Seq(Events) /\ Tail(s) \in Seq(Events)
  OBVIOUS

LEMMA Regroup ==
  ASSUME NEW a \in Seq(Events), NEW b \in Seq(Events), NEW c \in Seq(Events)
  PROVE  (a \o b) \o c = a \o (b \o c) /\ a \o b \in Seq(Events) /\ b \o c \in Seq(Events)
  <1>1. (a \o b) \o c = a \o (b \o c)
    BY ConcatAssociative
  <1>2. a \o b \in Seq(Events) /\ b \o c \in Seq(Events)
    BY ConcatProperties
  <1> QED
    BY <1>1, <1>2

\* What is delivered keeps its place.
LEMMA DeliveredKeepsPlace ==
  ASSUME NEW s \in Seq(Events), NEW w \in Seq(Events), NEW t \in Seq(Events), t # <<>>
  PROVE  (s \o Append(w, Head(t))) \o Tail(t) = (s \o w) \o t
  <1> DEFINE h == <<Head(t)>>
             rest == Tail(t)
  <1>1. h \in Seq(Events) /\ rest \in Seq(Events)
    BY FirstAndRest
  <1>2. t = h \o rest
    BY FirstAndRest
  <1>3. Append(w, Head(t)) = w \o h
    OBVIOUS
  <1> HIDE DEF h, rest
  <1>4. (s \o w) \o h = s \o (w \o h)
    BY <1>1, Regroup
  <1>5. s \o w \in Seq(Events)
    BY Regroup
  <1>6. ((s \o w) \o h) \o rest = (s \o w) \o (h \o rest)
    BY <1>1, <1>5, Regroup
  <1> QED
    BY <1>2, <1>3, <1>4, <1>6 DEF rest

\* So does what is sent: it is the first that waits.
LEMMA SentKeepsPlace ==
  ASSUME NEW s \in Seq(Events), NEW w \in Seq(Events), NEW t \in Seq(Events), w # <<>>
  PROVE  ((s \o <<Head(w)>>) \o Tail(w)) \o t = (s \o w) \o t
  <1> DEFINE h == <<Head(w)>>
             rest == Tail(w)
  <1>1. h \in Seq(Events) /\ rest \in Seq(Events)
    BY FirstAndRest
  <1>2. w = h \o rest
    BY FirstAndRest
  <1> HIDE DEF h, rest
  <1>3. (s \o h) \o rest = s \o (h \o rest)
    BY <1>1, Regroup
  <1> QED
    BY <1>2, <1>3 DEF h, rest

\* What is taken and not sent leaves the others in their order.
LEMMA TakenOnly ==
  ASSUME NEW s \in Seq(Events), NEW w \in Seq(Events), NEW t \in Seq(Events), w # <<>>
  PROVE  LET r == (s \o w) \o t
             q == (s \o Tail(w)) \o t
         IN /\ q \in Seq(Events) /\ Len(q) = Len(r) - 1
            /\ r[Len(s) + 1] = Head(w) /\ Len(s) \in 0..Len(q)
            /\ \A i \in 1..Len(s) : q[i] = r[i]
            /\ \A i \in (Len(s) + 1)..Len(q) : q[i] = r[i + 1]
  <1> DEFINE h == <<Head(w)>>
             rest == Tail(w)
             b == rest \o t
             sh == s \o h
             r == (s \o w) \o t
             q == (s \o rest) \o t
  <1>1. h \in Seq(Events) /\ rest \in Seq(Events)
    BY FirstAndRest
  <1>2. Len(h) = 1 /\ h[1] = Head(w) /\ w = h \o rest
    BY FirstAndRest
  <1> HIDE DEF h, rest
  <1>3. q = s \o b /\ b \in Seq(Events)
    BY <1>1, Regroup
  <1>4. s \o w = sh \o rest /\ sh \in Seq(Events)
    <2>1. (s \o h) \o rest = s \o (h \o rest) /\ s \o h \in Seq(Events)
      BY <1>1, Regroup
    <2> QED
      BY <1>2, <2>1
  <1> HIDE DEF sh
  <1>5. (sh \o rest) \o t = sh \o b
    BY <1>1, <1>4, Regroup
  <1>6. r = sh \o b
    BY <1>4, <1>5
  <1> HIDE DEF b, r, q
  <1>7. /\ Len(sh) = Len(s) + 1
        /\ \A i \in 1..(Len(s) + Len(h)) : sh[i] = IF i <= Len(s) THEN s[i] ELSE h[i - Len(s)]
    <2>1. /\ Len(s \o h) = Len(s) + Len(h)
          /\ \A i \in 1..(Len(s) + Len(h)) :
                (s \o h)[i] = IF i <= Len(s) THEN s[i] ELSE h[i - Len(s)]
      BY <1>1, ConcatProperties
    <2> QED
      BY <1>2, <2>1 DEF sh
  <1>8. /\ q \in Seq(Events) /\ Len(q) = Len(s) + Len(b)
        /\ \A i \in 1..(Len(s) + Len(b)) : q[i] = IF i <= Len(s) THEN s[i] ELSE b[i - Len(s)]
    BY <1>3, ConcatProperties
  <1>9. /\ Len(r) = Len(sh) + Len(b)
        /\ \A i \in 1..(Len(sh) + Len(b)) : r[i] = IF i <= Len(sh) THEN sh[i] ELSE b[i - Len(sh)]
    BY <1>3, <1>4, <1>6, ConcatProperties
  <1>10. Len(s) \in Nat /\ Len(b) \in Nat
    BY <1>3
  <1>11. Len(q) = Len(r) - 1 /\ Len(s) \in 0..Len(q)
    BY <1>7, <1>8, <1>9, <1>10
  <1>12. r[Len(s) + 1] = Head(w)
    BY <1>2, <1>7, <1>9, <1>10
  <1>13. ASSUME NEW i \in 1..Len(s) PROVE q[i] = r[i]
    <2>1. q[i] = s[i]
      BY <1>8, <1>10
    <2>2. r[i] = sh[i] /\ sh[i] = s[i]
      BY <1>2, <1>7, <1>9, <1>10
    <2> QED
      BY <2>1, <2>2
  <1>14. ASSUME NEW i \in (Len(s) + 1)..Len(q) PROVE q[i] = r[i + 1]
    <2>1. q[i] = b[i - Len(s)]
      BY <1>8, <1>10
    <2>2. r[i + 1] = b[(i + 1) - Len(sh)]
      BY <1>7, <1>8, <1>9, <1>10
    <2>3. (i + 1) - Len(sh) = i - Len(s)
      BY <1>7, <1>10
    <2> QED
      BY <2>1, <2>2, <2>3
  <1> QED
    BY <1>8, <1>11, <1>12, <1>13, <1>14 DEF q, r, rest

\* The order and the members of what is on its way, whatever it is grouped into.
LEMMA TakenInOrder ==
  ASSUME NEW last \in Nat, NEW t \in Seq(Nat), NEW r \in Seq(Events), NEW q \in Seq(Events), NEW k \in 0..Len(q),
         UpTo(last, r), AreThose(t, r),
         Len(q) = Len(r) - 1, r[k + 1].kind # "progress",
         \A i \in 1..k : q[i] = r[i],
         \A i \in (k + 1)..Len(q) : q[i] = r[i + 1]
  PROVE  UpTo(last, q) /\ AreThose(t, q)
  <1>0. Len(r) \in Nat /\ Len(q) \in Nat
    OBVIOUS
  <1> DEFINE from(i) == IF i <= k THEN i ELSE i + 1
  <1>1. \A i \in 1..Len(q) : from(i) \in 1..Len(r) /\ q[i] = r[from(i)]
    BY <1>0
  <1>2. \A i, j \in 1..Len(q) : i < j => from(i) < from(j)
    BY <1>0
  <1>3. \A i \in 1..Len(r) : i # k + 1 => \E j \in 1..Len(q) : from(j) = i
    <2> SUFFICES ASSUME NEW i \in 1..Len(r), i # k + 1 PROVE \E j \in 1..Len(q) : from(j) = i
      OBVIOUS
    <2>1. CASE i <= k
      <3>1. i \in 1..Len(q) /\ from(i) = i
        BY <1>0, <2>1
      <3> QED
        BY <3>1
    <2>2. CASE i > k + 1
      <3>1. i - 1 \in 1..Len(q) /\ from(i - 1) = i
        BY <1>0, <2>2
      <3> QED
        BY <3>1
    <2> QED
      BY <1>0, <2>1, <2>2
  <1> HIDE DEF from
  <1>4. UpTo(last, q)
    BY <1>1, <1>2 DEF UpTo
  <1>5. AreThose(t, q)
    <2>1. ASSUME NEW i \in 1..Len(q), q[i].kind = "progress"
          PROVE  \E j \in 1..Len(t) : t[j] = q[i].n
      <3>1. from(i) \in 1..Len(r) /\ r[from(i)].kind = "progress" /\ r[from(i)].n = q[i].n
        BY <1>1, <2>1
      <3> QED
        BY <3>1 DEF AreThose
    <2>2. ASSUME NEW j \in 1..Len(t)
          PROVE  \E i \in 1..Len(q) : q[i].kind = "progress" /\ q[i].n = t[j]
      <3>1. PICK m \in 1..Len(r) : r[m].kind = "progress" /\ r[m].n = t[j]
        BY DEF AreThose
      <3>2. m # k + 1
        BY <3>1
      <3>3. PICK i \in 1..Len(q) : from(i) = m
        BY <1>3, <3>2
      <3> QED
        BY <1>1, <3>1, <3>3
    <2> QED
      BY <2>1, <2>2 DEF AreThose
  <1> QED
    BY <1>4, <1>5

\* An event that is published is the last, and told if it is about progress.
LEMMA PublishedInOrder ==
  ASSUME NEW last \in Nat, NEW t \in Seq(Nat), NEW r \in Seq(Events),
         UpTo(last, r), AreThose(t, r),
         NEW e \in Events, e.n = last + 1, NEW u \in Seq(Nat),
         u = IF e.kind = "progress" THEN Append(t, last + 1) ELSE t
  PROVE  UpTo(last + 1, Append(r, e)) /\ AreThose(u, Append(r, e))
  <1> DEFINE q == Append(r, e)
  <1>1. /\ Len(q) = Len(r) + 1 /\ q[Len(r) + 1] = e /\ Len(r) \in Nat
        /\ \A i \in 1..Len(r) : q[i] = r[i]
    OBVIOUS
  <1>2. \A i \in 1..Len(r) : r[i].n \in Nat
    <2>1. \A i \in 1..Len(r) : r[i] \in Events
      OBVIOUS
    <2> QED
      BY <2>1 DEF Events
  <1> HIDE DEF q
  <1>3. UpTo(last + 1, q)
    <2>0. /\ \A i, j \in 1..Len(r) : i < j => q[i].n < q[j].n
          /\ \A i \in 1..Len(r) : q[i].n \in Nat /\ q[i].n <= last
          /\ q[Len(r) + 1].n = last + 1
      BY <1>1, <1>2 DEF UpTo
    <2>1. ASSUME NEW i \in 1..Len(q), NEW j \in 1..Len(q), i < j
          PROVE  q[i].n < q[j].n
      <3>0. Len(q) = Len(r) + 1 /\ Len(r) \in Nat
        BY <1>1
      <3>1. i \in 1..Len(r)
        BY <2>1, <3>0
      <3>2. j \in 1..Len(r) \/ j = Len(r) + 1
        BY <3>0
      <3> QED
        BY <2>0, <2>1, <3>1, <3>2
    <2>2. ASSUME NEW i \in 1..Len(q) PROVE q[i].n <= last + 1
      <3>1. i \in 1..Len(r) \/ i = Len(r) + 1
        BY <1>1
      <3> QED
        BY <2>0, <3>1
    <2> QED
      BY <2>1, <2>2 DEF UpTo
  <1>4. /\ \A j \in 1..Len(t) : u[j] = t[j]
        /\ \A j \in 1..Len(u) : j \in 1..Len(t) \/ (e.kind = "progress" /\ u[j] = last + 1)
        /\ 1..Len(t) \subseteq 1..Len(u)
        /\ e.kind = "progress" => Len(t) + 1 \in 1..Len(u) /\ u[Len(t) + 1] = last + 1
    <2>1. CASE e.kind = "progress"
      <3>1. u = Append(t, last + 1)
        BY <2>1
      <3> QED
        BY <2>1, <3>1
    <2>2. CASE e.kind # "progress"
      BY <2>2
    <2> QED
      BY <2>1, <2>2
  <1>5. ASSUME NEW i \in 1..Len(q), q[i].kind = "progress"
        PROVE  \E j \in 1..Len(u) : u[j] = q[i].n
    <2>1. CASE i \in 1..Len(r)
      <3>1. PICK j \in 1..Len(t) : t[j] = r[i].n
        BY <1>1, <1>5, <2>1 DEF AreThose
      <3> QED
        BY <1>1, <1>4, <2>1, <3>1
    <2>2. CASE i = Len(r) + 1
      BY <1>1, <1>4, <1>5, <2>2
    <2> QED
      BY <1>1, <2>1, <2>2
  <1>6. ASSUME NEW j \in 1..Len(u)
        PROVE  \E i \in 1..Len(q) : q[i].kind = "progress" /\ q[i].n = u[j]
    <2>1. CASE j \in 1..Len(t)
      <3>1. PICK i \in 1..Len(r) : r[i].kind = "progress" /\ r[i].n = t[j]
        BY <2>1 DEF AreThose
      <3>2. i \in 1..Len(q) /\ q[i] = r[i]
        BY <1>1
      <3> QED
        BY <1>4, <2>1, <3>1, <3>2
    <2>2. CASE e.kind = "progress" /\ u[j] = last + 1
      <3>1. Len(r) + 1 \in 1..Len(q)
        BY <1>1
      <3> QED
        BY <1>1, <2>2, <3>1
    <2> QED
      BY <1>4, <2>1, <2>2
  <1>7. AreThose(u, q)
    BY <1>5, <1>6 DEF AreThose
  <1> QED
    BY <1>3, <1>7 DEF q

\* Nothing has come yet, and nothing is on its way.
LEMMA NothingOnTheWay ==
  scheduled = <<>> /\ waiting = <<>> /\ told = <<>> /\ shownTo.progress = <<>>
    => UpTo(published, Reaching) /\ AreThose(told, Reaching)
  <1> SUFFICES ASSUME scheduled = <<>>, waiting = <<>>, told = <<>>, shownTo.progress = <<>>
               PROVE  UpTo(published, Reaching) /\ AreThose(told, Reaching)
    OBVIOUS
  <1>1. Len(Reaching) = 0 /\ Len(told) = 0
    <2>1. Reaching = <<>> \o <<>> \o <<>>
      BY DEF Reaching
    <2> QED
      BY <2>1
  <1>2. \A i \in 1..0 : FALSE
    OBVIOUS
  <1> QED
    BY <1>1, <1>2 DEF UpTo, AreThose

LEMMA ArrivalBegins == SocketsInit => ArrivalInv
  <1> SUFFICES ASSUME SocketsInit PROVE ArrivalInv
    OBVIOUS
  <1>1. published \in Nat
    BY SocketsAssumption DEF SocketsInit, Opening
  <1> QED
    BY <1>1 DEF SocketsInit, Opening, ArrivalInv, ArrivalType, NothingYet, Arriving

LEMMA ArrivalStep ==
  ASSUME ArrivalInv, [SocketsNext]_socketVars
  PROVE  ArrivalInv'
  <1> USE DEF ArrivalInv
  <1>0. /\ shownTo.progress \in Seq(Nat) /\ DOMAIN shownTo = {"version", "progress"}
        /\ scheduled # <<>> => Head(scheduled) \in Events /\ Tail(scheduled) \in Seq(Events)
        /\ waiting # <<>> => Head(waiting) \in Events /\ Tail(waiting) \in Seq(Events)
    BY DEF ArrivalType
  <1>1. ArrivalType'
    <2>1. CASE OnHandshake \/ FirstMessage \/ BinaryFirst \/ BinaryLater \/ Subscribe \/ LoopEnds \/ SendFails \/ NotDue \/ TimeOut
               \/ Leave \/ DrainEnds
      BY <2>1 DEF OnHandshake, FirstMessage, BinaryFirst, BinaryLater, Crash, Subscribe, LoopEnds, SendFails, NotDue, TimeOut, Leave,
                  DrainEnds, Close, givenVars, busVars, ArrivalType
    <2>2. CASE SendStatus
      BY <1>0, <2>2 DEF SendStatus, Shown, givenVars, busVars, ArrivalType
    <2>3. CASE GetEvent
      <3>1. waiting' \in Seq(Events)
        BY <1>0, <2>3 DEF GetEvent, Rest
      <3>2. shownTo' \in [version : Nat \cup {None}, progress : Seq(Nat)]
        <4>1. Append(shownTo.progress, Head(waiting).n) \in Seq(Nat)
          BY <1>0, <2>3 DEF GetEvent, Events
        <4> QED
          BY <2>3, <4>1 DEF GetEvent, Shown, ArrivalType
      <3> QED
        BY <2>3, <3>1, <3>2 DEF GetEvent, givenVars, ArrivalType
    <2>4. CASE Deliver
      <3>1. waiting' \in Seq(Events)
        <4>1. \/ waiting' = Append(waiting, Head(scheduled))
              \/ Len(waiting) = MaxWaiting /\ waiting' = Append(Tail(waiting), Head(scheduled))
          BY <2>4 DEF Deliver
        <4>2. Len(waiting) = MaxWaiting => waiting # <<>>
          BY SocketsAssumption
        <4>3. Head(scheduled) \in Events /\ waiting \in Seq(Events)
          BY <1>0, <2>4 DEF Deliver, ArrivalType
        <4>4. CASE waiting' = Append(waiting, Head(scheduled))
          BY <4>3, <4>4
        <4>5. CASE Len(waiting) = MaxWaiting /\ waiting' = Append(Tail(waiting), Head(scheduled))
          <5>1. Tail(waiting) \in Seq(Events)
            BY <1>0, <4>2, <4>5
          <5> QED
            BY <4>3, <4>5, <5>1
        <4> QED
          BY <4>1, <4>4, <4>5
      <3> QED
        BY <1>0, <2>4, <3>1 DEF Deliver, givenVars, ArrivalType
    <2>5. ASSUME NEW what \in {"status", "progress"}, Publish(what) PROVE ArrivalType'
      <3>1. Event(what, published') \in Events /\ published' \in Nat /\ version' \in Nat
        BY <2>5 DEF Publish, Event, Events, ArrivalType
      <3> QED
        BY <2>5, <3>1 DEF Publish, givenVars, ArrivalType
    <2>6. CASE UNCHANGED socketVars
      BY <2>6 DEF socketVars, givenVars, busVars, ArrivalType
    <2> QED
      BY <2>1, <2>2, <2>3, <2>4, <2>5, <2>6 DEF SocketsNext, Coroutine
  <1>2. NothingYet'
    <2> USE DEF NothingYet
    <2>1. CASE OnHandshake \/ FirstMessage \/ BinaryFirst \/ BinaryLater \/ Leave \/ DrainEnds \/ NotDue \/ TimeOut
      BY <2>1 DEF OnHandshake, FirstMessage, BinaryFirst, BinaryLater, Crash, Leave, DrainEnds, NotDue, TimeOut, Admit, busVars
    <2>2. CASE Subscribe \/ LoopEnds \/ SendFails \/ SendStatus \/ GetEvent
      BY <2>2 DEF Subscribe, LoopEnds, SendFails, SendStatus, GetEvent, Close
    <2>3. CASE Deliver
      BY <2>3 DEF Deliver
    <2>4. ASSUME NEW what \in {"status", "progress"}, Publish(what) PROVE NothingYet'
      BY <2>4 DEF Publish
    <2>5. CASE UNCHANGED socketVars
      BY <2>5 DEF socketVars, busVars
    <2> QED
      BY <2>1, <2>2, <2>3, <2>4, <2>5 DEF SocketsNext, Coroutine
  <1>3. Arriving'
    <2> SUFFICES ASSUME kind' = "info", subscribed', connected', ~dropped'
                 PROVE  (UpTo(published, Reaching) /\ AreThose(told, Reaching))'
      BY DEF Arriving
    <2>0. kind = "info"
      BY DEF SocketsNext, Coroutine, OnHandshake, FirstMessage, BinaryFirst, BinaryLater, Crash, Subscribe, LoopEnds, SendFails, SendStatus,
             NotDue, GetEvent, TimeOut, Deliver, Leave, DrainEnds, Publish, Close, givenVars, socketVars
    <2> DEFINE s == Sent(shownTo.progress)
    <2>a. /\ s \in Seq(Events) /\ waiting \in Seq(Events) /\ scheduled \in Seq(Events)
          /\ Reaching = (s \o waiting) \o scheduled /\ Reaching \in Seq(Events)
      BY ReachingIs DEF ArrivalType
    <2>b. Reaching' = (s' \o waiting') \o scheduled'
      <3>1. (Reaching = (s \o waiting) \o scheduled)'
        BY DEF Reaching, Sent
      <3> QED
        BY <3>1
    <2>c. published \in Nat /\ told \in Seq(Nat) /\ told' \in Seq(Nat)
      BY <1>1 DEF ArrivalType
    <2>d. subscribed /\ connected /\ ~dropped => UpTo(published, Reaching) /\ AreThose(told, Reaching)
      BY <2>0 DEF Arriving
    <2>e. ASSUME subscribed, connected, ~dropped, UNCHANGED <<published, told>>, Reaching' = Reaching
          PROVE  (UpTo(published, Reaching) /\ AreThose(told, Reaching))'
      BY <2>d, <2>e DEF UpTo, AreThose
    <2>1. ASSUME UNCHANGED <<busVars, subscribed, connected, shownTo>>
          PROVE  (UpTo(published, Reaching) /\ AreThose(told, Reaching))'
      <3>1. Reaching' = Reaching
        BY <2>1 DEF busVars, Reaching
      <3> QED
        BY <2>1, <2>e, <3>1 DEF busVars
    <2>2. ASSUME UNCHANGED <<scheduled, waiting, published, told>>, subscribed, connected, ~dropped,
                 shownTo'.progress = shownTo.progress
          PROVE  (UpTo(published, Reaching) /\ AreThose(told, Reaching))'
      <3>1. Reaching' = Reaching
        BY <2>2 DEF Reaching
      <3> QED
        BY <2>2, <2>e, <3>1
    <2>3. CASE OnHandshake \/ FirstMessage \/ BinaryFirst \/ BinaryLater \/ DrainEnds \/ NotDue \/ TimeOut \/ UNCHANGED socketVars
      BY <2>1, <2>3 DEF OnHandshake, FirstMessage, BinaryFirst, BinaryLater, Crash, DrainEnds, NotDue, TimeOut, socketVars, busVars
    <2>4. CASE LoopEnds \/ SendFails \/ Leave
      BY <2>4 DEF LoopEnds, SendFails, Leave, Close
    <2>5. CASE Subscribe
      <3>1. (scheduled = <<>> /\ waiting = <<>> /\ told = <<>> /\ shownTo.progress = <<>>)'
        BY <2>5 DEF Subscribe, NothingYet, busVars
      <3>2. (scheduled = <<>> /\ waiting = <<>> /\ told = <<>> /\ shownTo.progress = <<>>
              => UpTo(published, Reaching) /\ AreThose(told, Reaching))'
        BY NothingOnTheWay, PTL
      <3> QED
        BY <3>1, <3>2
    <2>6. CASE SendStatus
      <3>1. shownTo'.progress = shownTo.progress
        BY <1>0, <2>6 DEF SendStatus, Shown, ArrivalType
      <3> QED
        BY <2>2, <2>6, <3>1 DEF SendStatus, busVars
    <2>7. CASE GetEvent
      <3>0. /\ waiting # <<>> /\ waiting' = Tail(waiting) /\ UNCHANGED <<scheduled, published, told>>
            /\ subscribed /\ connected /\ ~dropped
        BY <2>0, <2>7 DEF GetEvent, Rest
      <3>1. CASE Head(waiting).kind = "progress"
        <4>1. shownTo' = [shownTo EXCEPT !.progress = Append(@, Head(waiting).n)]
          BY <2>0, <2>7, <3>0, <3>1 DEF GetEvent, Shown
        <4>2. shownTo'.progress = Append(shownTo.progress, Head(waiting).n)
          BY <1>0, <4>1 DEF ArrivalType
        <4>3. Head(waiting).n \in Nat /\ Event("progress", Head(waiting).n) = Head(waiting)
          BY <1>0, <3>0, <3>1 DEF Event, Events
        <4>4. s' = s \o <<Head(waiting)>>
          BY <1>0, <4>2, <4>3, SentAppend
        <4> HIDE DEF s
        <4>5. ((s \o <<Head(waiting)>>) \o Tail(waiting)) \o scheduled = (s \o waiting) \o scheduled
          BY <2>a, <3>0, SentKeepsPlace
        <4>6. Reaching' = Reaching
          BY <2>a, <2>b, <3>0, <4>4, <4>5
        <4> QED
          BY <2>e, <3>0, <4>6
      <3>2. CASE Head(waiting).kind # "progress"
        <4>1. shownTo'.progress = shownTo.progress
          BY <1>0, <2>0, <2>7, <3>0, <3>2 DEF GetEvent, Shown, ArrivalType
        <4>2. s' = s
          BY <4>1
        <4> DEFINE q == (s \o Tail(waiting)) \o scheduled
                   r == (s \o waiting) \o scheduled
        <4>3. Reaching' = q
          BY <2>b, <3>0, <4>2
        <4> HIDE DEF s
        <4>4. /\ q \in Seq(Events) /\ Len(q) = Len(r) - 1
              /\ r[Len(s) + 1] = Head(waiting) /\ Len(s) \in 0..Len(q)
              /\ \A i \in 1..Len(s) : q[i] = r[i]
              /\ \A i \in (Len(s) + 1)..Len(q) : q[i] = r[i + 1]
          <5>1. s \in Seq(Events) /\ waiting \in Seq(Events) /\ scheduled \in Seq(Events)
                /\ waiting # <<>>
            BY <2>a, <3>0
          <5> QED
            BY <5>1, TakenOnly
        <4>r. r = Reaching
          BY <2>a
        <4> HIDE DEF q, r
        <4>5. UpTo(published, q) /\ AreThose(told, q)
          BY <2>a, <2>c, <2>d, <3>0, <3>2, <4>4, <4>r, TakenInOrder
        <4> QED
          BY <3>0, <4>3, <4>5
      <3> QED
        BY <3>1, <3>2
    <2>8. CASE Deliver
      <3>0. /\ scheduled # <<>> /\ scheduled' = Tail(scheduled) /\ UNCHANGED <<shownTo, published, told>>
            /\ subscribed /\ connected /\ ~dropped /\ waiting' = Append(waiting, Head(scheduled))
        BY <2>8 DEF Deliver
      <3>1. Reaching' = Reaching
        BY <2>a, <2>b, <3>0, DeliveredKeepsPlace
      <3> QED
        BY <2>e, <3>0, <3>1
    <2>9. ASSUME NEW what \in {"status", "progress"}, Publish(what)
          PROVE  (UpTo(published, Reaching) /\ AreThose(told, Reaching))'
      <3> DEFINE e == Event(what, published + 1)
      <3>0. /\ published' = published + 1 /\ UNCHANGED <<shownTo, waiting>>
            /\ subscribed /\ connected /\ ~dropped
            /\ scheduled' = Append(scheduled, e)
            /\ told' = IF what = "progress" THEN Append(told, published + 1) ELSE told
        BY <2>0, <2>9 DEF Publish
      <3>1. e \in Events /\ e.n = published + 1 /\ e.kind = what
        BY <2>c DEF Event, Events
      <3> HIDE DEF e
      <3>2. Reaching' = Append(Reaching, e)
        <4>1. scheduled' = scheduled \o <<e>> /\ <<e>> \in Seq(Events)
          BY <2>a, <3>0, <3>1
        <4>2. s \o waiting \in Seq(Events)
          BY <2>a, Regroup
        <4>3. ((s \o waiting) \o scheduled) \o <<e>> = (s \o waiting) \o (scheduled \o <<e>>)
          BY <2>a, <4>1, <4>2, Regroup
        <4>4. Reaching \o <<e>> = Append(Reaching, e)
          BY <2>a, <3>1
        <4> QED
          BY <2>a, <2>b, <3>0, <4>1, <4>3, <4>4
      <3>3. UpTo(published, Reaching) /\ AreThose(told, Reaching)
        BY <2>d, <3>0
      <3>4. told' = IF e.kind = "progress" THEN Append(told, published + 1) ELSE told
        BY <3>0, <3>1
      <3>5. UpTo(published + 1, Append(Reaching, e)) /\ AreThose(told', Append(Reaching, e))
        BY <2>a, <2>c, <3>1, <3>3, <3>4, PublishedInOrder
      <3> QED
        BY <3>0, <3>2, <3>5
    <2> QED
      BY <2>3, <2>4, <2>5, <2>6, <2>7, <2>8, <2>9 DEF SocketsNext, Coroutine
  <1> QED
    BY <1>1, <1>2, <1>3

\* Every event about progress that an info socket was told of has been sent to the client, or waits,
\* or has been scheduled, once and in order, unless the queue was full, however many are published
\* and whatever else the socket sends (streams.py:4-5, ws.py's info body).
THEOREM ProgressIsKept == SocketsSpec => []ProgressArrivesInOrder
  <1>1. ArrivalInv => ProgressArrivesInOrder
    <2> SUFFICES ASSUME ArrivalInv, kind = "info", subscribed, connected, ~dropped
                 PROVE  /\ {Reaching[i].n : i \in {k \in DOMAIN Reaching : Reaching[k].kind = "progress"}} =
                              {told[i] : i \in DOMAIN told}
                        /\ \A i, j \in DOMAIN Reaching : i < j => Reaching[i].n < Reaching[j].n
      BY DEF ProgressArrivesInOrder
    <2>1. DOMAIN Reaching = 1..Len(Reaching) /\ DOMAIN told = 1..Len(told)
      BY ReachingIs DEF ArrivalInv, ArrivalType
    <2>2. UpTo(published, Reaching) /\ AreThose(told, Reaching)
      BY DEF ArrivalInv, Arriving
    <2>3. \A i, j \in DOMAIN Reaching : i < j => Reaching[i].n < Reaching[j].n
      BY <2>1, <2>2 DEF UpTo
    <2>4. ASSUME NEW x PROVE x \in {Reaching[i].n : i \in {k \in DOMAIN Reaching : Reaching[k].kind = "progress"}}
                               <=> x \in {told[i] : i \in DOMAIN told}
      <3>1. (\E i \in 1..Len(Reaching) : Reaching[i].kind = "progress" /\ Reaching[i].n = x)
              <=> \E j \in 1..Len(told) : told[j] = x
        BY <2>2 DEF AreThose
      <3> QED
        BY <2>1, <3>1
    <2> QED
      BY <2>3, <2>4
  <1> QED
    BY ArrivalBegins, ArrivalStep, <1>1, PTL DEF SocketsSpec

-----------------------------------------------------------------------------
(* Loading a profile.  That a directory of any number of files, of any number  *)
(* of lines, leaves what IPython would leave, and that any module, registry or *)
(* database is offered for what it holds.  The invariant says that the scope   *)
(* agrees with the places that have been run.  One more line keeps that, and   *)
(* so, by induction over its lines, does one more file; after a place that     *)
(* ends the load, none counts.  The loops over a registry and a database are   *)
(* inductions of the same form, and each recursion has its turns first.        *)

Scopes ==
    [ns : [Names -> Engines \cup Devices \cup {"plan", None}],
     shell : {"patched", "real"}, raised : {None, "error", "SystemExit"}]

Statement == Line \cup [does : {"comment", "rebind"}]

\* What the lines of a profile and their patched forms can be.
LEMMA StatementForms ==
  ASSUME NEW l \in Statement
  PROVE  \/ /\ l.does = "bind" /\ l.name \in Names
            /\ l.value \in Engines \cup Devices \cup {"plan"}
         \/ l.does = "import" /\ l.form \in Forms
         \/ l.does \in {"magic", "use", "raise", "exit", "comment", "rebind"}
<1>1. CASE l \in [does : {"comment", "rebind"}]
  BY <1>1
<1>2. CASE l \in Line
  <2>1. CASE l \in UNION {{Bind(n, v) : v \in Values(n)} : n \in Names}
    <3>1. PICK n \in Names : l \in {Bind(n, v) : v \in Values(n)}
      BY <2>1
    <3>2. PICK v \in Values(n) : l = Bind(n, v)
      BY <3>1
    <3> QED BY <3>2 DEF Bind, Values, Devices
  <2>2. CASE l \in [does : {"import"}, form : Forms]
    BY <2>2
  <2>3. CASE l \in [does : {"magic", "use", "raise", "exit"}]
    BY <2>3
  <2> QED BY <1>2, <2>1, <2>2, <2>3 DEF Line
<1> QED BY <1>1, <1>2 DEF Statement

LEMMA EffectType ==
  ASSUME NEW s \in Scopes, NEW l \in Statement
  PROVE  Effect(s, l) \in Scopes
<1>1. CASE s.raised # None
  BY <1>1 DEF Effect
<1>2. CASE s.raised = None /\ l.does = "bind"
  <2>1. l.name \in Names /\ l.value \in Engines \cup Devices \cup {"plan"}
    BY <1>2, StatementForms
  <2>2. Effect(s, l) = [s EXCEPT !.ns[l.name] = l.value]
    BY <1>2 DEF Effect
  <2>3. [s.ns EXCEPT ![l.name] = l.value] \in [Names -> Engines \cup Devices \cup {"plan", None}]
    BY <2>1 DEF Scopes
  <2> QED BY <2>2, <2>3 DEF Scopes
<1>3. CASE s.raised = None /\ l.does # "bind"
  <2>1. Effect(s, l) \in {s, [s EXCEPT !.shell = "real"], [s EXCEPT !.shell = "patched"],
                          [s EXCEPT !.raised = "SystemExit"], [s EXCEPT !.raised = "error"]}
    BY <1>3, StatementForms DEF Effect
  <2> QED BY <2>1 DEF Scopes
<1> QED BY <1>1, <1>2, <1>3

\* Running a profile's statements is a loop: what it leaves is what the last turn leaves.
LEMMA RunTurns ==
  ASSUME NEW s \in Scopes, NEW lines \in Seq(Statement)
  PROVE  \E f \in [0..Len(lines) -> Scopes] :
            /\ f[0] = s
            /\ \A n \in 1..Len(lines) : f[n] = Effect(f[n - 1], lines[n])
            /\ Run(s, lines) = f[Len(lines)]
<1> DEFINE L == Len(lines)
           step == [p \in Scopes \X (1..L) |-> Effect(p[1], lines[p[2]])]
           Eq(f) == f = [n \in 0..L |-> IF n = 0 THEN s ELSE Effect(f[n - 1], lines[n])]
           g == CHOOSE f : Eq(f)
<1>1. L \in Nat /\ \A n \in 1..L : lines[n] \in Statement
  OBVIOUS
<1>2. step \in StepsOn(Scopes, L)
  BY <1>1, EffectType DEF StepsOn
<1>3. \E f : Eq(f)
  <2> HIDE DEF step
  <2>1. PICK f \in [0..L -> Scopes] : IsRun(f, L, s, step)
    <3> HIDE DEF L, Eq, g
    <3> QED BY <1>1, <1>2, LoopRuns
  <2>2. ASSUME NEW n \in 1..L PROVE f[n] = Effect(f[n - 1], lines[n])
    <3>1. <<f[n - 1], n>> \in Scopes \X (1..L)
      BY <2>1, <1>1
    <3> QED BY <2>1, <3>1 DEF step, IsRun
  <2>3. \A n \in 0..L : n # 0 => n \in 1..L
    BY <1>1
  <2> QED BY <2>1, <2>2, <2>3 DEF IsRun
<1>4. Eq(g)
  <2> HIDE DEF Eq
  <2> QED BY <1>3
<1>5. Run(s, lines) = g[L]
  BY DEF Run, ForEach
<1> HIDE DEF g
<1>6. /\ DOMAIN g = 0..L /\ g[0] = s
      /\ \A n \in 1..L : g[n] = Effect(g[n - 1], lines[n])
  <2>1. 0 \in 0..L /\ \A n \in 1..L : n # 0 /\ n \in 0..L
    BY <1>1
  <2> QED BY <1>4, <2>1
<1>7. \A n \in 0..L : g[n] \in Scopes
  <2> DEFINE T == {n \in 0..L : g[n] \in Scopes}
  <2>1. 0 \in T
    BY <1>1, <1>6
  <2>2. ASSUME NEW n \in T \cap (0..(L - 1)) PROVE n + 1 \in T
    <3>1. n + 1 \in 1..L /\ n + 1 \in 0..L /\ (n + 1) - 1 = n
      BY <1>1
    <3> QED BY <1>1, <1>6, <3>1, EffectType
  <2> HIDE DEF T
  <2>3. 0..L \subseteq T
    BY <1>1, <2>1, <2>2, TurnByTurn
  <2> QED BY <2>3 DEF T
<1>8. g \in [0..L -> Scopes]
  BY <1>4, <1>7
<1> QED BY <1>5, <1>6, <1>8
\* The scope is what IPython would have after these places.
Agrees(s, P) ==
    /\ s \in Scopes /\ s.shell = "patched"
    /\ IF Stops(P) = {} THEN s.raised = None
       ELSE \E p \in Stops(P) \cap Reached(P) :
                s.raised = IF At(p).does = "raise" THEN "error" ELSE "SystemExit"
    /\ HoldsTheLastBinding(P, s.ns)

\* Places that come after a stop change nothing.
LEMMA AfterAStop ==
  ASSUME NEW P, NEW Q, P \subseteq Q, Stops(P) # {},
         \A q \in Q \ P, p \in P : Before(p, q) /\ ~Before(q, p),
         NEW s, Agrees(s, P)
  PROVE  Agrees(s, Q)
<1>1. Stops(P) \subseteq Stops(Q) /\ Stops(Q) # {} /\ Stops(P) \subseteq P
  BY DEF Stops
<1>2. Reached(Q) = Reached(P)
  <2>1. ASSUME NEW r \in Reached(Q) PROVE r \in Reached(P)
    <3>1. PICK p \in Stops(P) : TRUE
      OBVIOUS
    <3>2. p \in P /\ ~Before(p, r) /\ r \in Q
      BY <1>1, <3>1 DEF Reached
    <3>3. r \in P
      BY <3>2
    <3> QED BY <1>1, <3>3 DEF Reached
  <2>2. ASSUME NEW r \in Reached(P), NEW q \in Stops(Q) PROVE ~Before(q, r)
    <3>1. r \in P /\ q \in Q
      BY DEF Reached, Stops
    <3>2. CASE q \in P
      <4>1. q \in Stops(P)
        BY <3>2 DEF Stops
      <4> QED BY <4>1 DEF Reached
    <3>3. CASE q \notin P
      BY <3>1, <3>3
    <3> QED BY <3>2, <3>3
  <2> QED BY <2>1, <2>2 DEF Reached
<1>3. \A n : Bindings(Q, n) = Bindings(P, n)
  BY <1>2 DEF Bindings
<1>4. HoldsTheLastBinding(Q, s.ns)
  BY <1>3 DEF Agrees, HoldsTheLastBinding
<1>5. PICK p \in Stops(P) \cap Reached(P) :
         s.raised = IF At(p).does = "raise" THEN "error" ELSE "SystemExit"
  BY DEF Agrees
<1>6. p \in Stops(Q) \cap Reached(Q)
  BY <1>1, <1>2, <1>5
<1> QED BY <1>1, <1>4, <1>5, <1>6 DEF Agrees

\* One place more is one statement more, as the profile's line is patched.
LEMMA OneMoreLine ==
  ASSUME NEW P, NEW p, At(p) \in Line, ~Unusual(At(p)), p \notin P, ~Before(p, p),
         \A q \in P : Before(q, p) /\ ~Before(p, q),
         NEW s, Agrees(s, P)
  PROVE  Agrees(Effect(s, Patched(At(p))), P \cup {p})
<1> DEFINE Q == P \cup {p}
           t == Effect(s, Patched(At(p)))
<1>1. s \in Scopes /\ s.shell = "patched" /\ HoldsTheLastBinding(P, s.ns)
  BY DEF Agrees
<1>2. CASE Stops(P) # {}
  <2>1. s.raised # None
    BY <1>2, ProfileAssumption DEF Agrees
  <2>2. t = s
    BY <2>1 DEF Effect
  <2>3. Agrees(s, Q)
    BY <1>2, AfterAStop
  <2> QED BY <2>2, <2>3
<1>3. CASE Stops(P) = {}
  <2>1. s.raised = None
    BY <1>3 DEF Agrees
  <2>2. Reached(Q) = Reached(P) \cup {p} /\ Reached(P) \subseteq P /\ p \in Reached(Q)
    BY <1>3 DEF Reached, Stops
  <2>3. ASSUME NEW n PROVE
           /\ ~(At(p).does = "bind" /\ At(p).name = n) => Bindings(Q, n) = Bindings(P, n)
           /\ At(p).does = "bind" /\ At(p).name = n => Bindings(Q, n) = Bindings(P, n) \cup {p}
           /\ Bindings(P, n) \subseteq P
    BY <2>2 DEF Bindings
  <2>4. CASE At(p).does = "bind"
    <3>1. At(p).name \in Names /\ At(p).value \in Engines \cup Devices \cup {"plan"}
      BY <2>4, StatementForms DEF Statement
    <3>2. t = [s EXCEPT !.ns[At(p).name] = At(p).value]
      BY <2>1, <2>4 DEF Effect, Patched
    <3>3. t \in Scopes /\ t.shell = "patched" /\ t.raised = None
      BY <1>1, <2>1, <3>1, <3>2, EffectType, <2>4 DEF Scopes, Patched, Statement
    <3>4. Stops(Q) = {}
      BY <1>3, <2>4 DEF Stops
    <3>5. HoldsTheLastBinding(Q, t.ns)
      <4> SUFFICES ASSUME NEW n \in Names
                   PROVE  IF Bindings(Q, n) = {} THEN t.ns[n] = None
                          ELSE \E b \in Bindings(Q, n) :
                                   /\ \A q \in Bindings(Q, n) : ~Before(b, q)
                                   /\ t.ns[n] = At(b).value
        BY DEF HoldsTheLastBinding
      <4>0. s.ns \in [Names -> Engines \cup Devices \cup {"plan", None}]
        BY <1>1 DEF Scopes
      <4>1. CASE n = At(p).name
        <5>1. t.ns[n] = At(p).value
          BY <1>1, <3>1, <3>2, <4>0, <4>1 DEF Scopes
        <5>2. Bindings(Q, n) = Bindings(P, n) \cup {p} /\ Bindings(P, n) \subseteq P
          BY <2>3, <2>4, <4>1
        <5>3. \A q \in Bindings(Q, n) : ~Before(p, q)
          BY <5>2
        <5> QED BY <5>1, <5>2, <5>3
      <4>2. CASE n # At(p).name
        <5>1. t.ns[n] = s.ns[n]
          BY <1>1, <3>1, <3>2, <4>0, <4>2 DEF Scopes
        <5>2. Bindings(Q, n) = Bindings(P, n)
          BY <2>3, <4>2
        <5> QED BY <1>1, <5>1, <5>2 DEF HoldsTheLastBinding
      <4> QED BY <4>1, <4>2
    <3> QED BY <3>3, <3>4, <3>5 DEF Agrees
  <2>5. CASE At(p).does # "bind"
    <3>1. HoldsTheLastBinding(Q, s.ns)
      BY <1>1, <2>3, <2>5 DEF HoldsTheLastBinding
    <3>2. CASE At(p).does \in {"raise", "exit"}
      <4>1. t = [s EXCEPT !.raised = IF At(p).does = "raise" THEN "error" ELSE "SystemExit"]
        BY <2>1, <3>2 DEF Effect, Patched
      <4>2. /\ t \in Scopes /\ t.shell = "patched" /\ t.ns = s.ns
            /\ t.raised = IF At(p).does = "raise" THEN "error" ELSE "SystemExit"
        BY <1>1, <4>1 DEF Scopes
      <4>3. p \in Stops(Q) \cap Reached(Q)
        BY <2>2, <3>2 DEF Stops
      <4>4. Stops(Q) # {}
        BY <4>3
      <4>5. \E q \in Stops(Q) \cap Reached(Q) :
               t.raised = IF At(q).does = "raise" THEN "error" ELSE "SystemExit"
        BY <4>2, <4>3
      <4>6. HoldsTheLastBinding(Q, t.ns)
        BY <3>1, <4>2
      <4> QED BY <4>2, <4>4, <4>5, <4>6 DEF Agrees
    <3>3. CASE At(p).does \notin {"raise", "exit"}
      <4>1. \/ At(p).does \in {"magic", "use"}
            \/ At(p).does = "import" /\ At(p).form = "plain"
        <5>1. At(p).does \in {"bind", "import", "magic", "use", "raise", "exit"}
          BY DEF Line, Bind
        <5>2. At(p).does = "import" => At(p).form = "plain"
          BY DEF Unusual
        <5> QED BY <2>5, <3>3, <5>1, <5>2
      <4>2. t = s
        <5>1. CASE At(p).does \in {"magic", "use"}
          BY <1>1, <2>1, <5>1 DEF Effect, Patched
        <5>2. CASE At(p).does = "import" /\ At(p).form = "plain"
          <6>1. t = [s EXCEPT !.shell = "patched"]
            BY <2>1, <5>2 DEF Effect, Patched
          <6> QED BY <1>1, <6>1 DEF Scopes
        <5> QED BY <4>1, <5>1, <5>2
      <4>3. Stops(Q) = {}
        BY <1>3, <3>3 DEF Stops
      <4> QED BY <1>1, <2>1, <3>1, <4>2, <4>3 DEF Agrees
    <3> QED BY <3>2, <3>3
  <2> QED BY <2>4, <2>5
<1> QED BY <1>2, <1>3
LEMMA PatchedType ==
  ASSUME NEW l \in Line
  PROVE  Patched(l) \in Statement
BY DEF Patched, Statement

\* The next file in order adds its lines.
LEMMA OneMoreFile ==
  ASSUME NEW P, NEW s, Agrees(s, P), NEW path \in File,
         \A i \in DOMAIN path.lines : ~Unusual(path.lines[i]),
         \A q \in P : q[1].name \in Nat /\ q[1].name < path.name
  PROVE  Agrees(Run(s, [i \in DOMAIN path.lines |-> Patched(path.lines[i])]),
                P \cup {<<path, i>> : i \in DOMAIN path.lines})
<1> DEFINE L == Len(path.lines)
           patched == [i \in DOMAIN path.lines |-> Patched(path.lines[i])]
           To(n) == P \cup {<<path, i>> : i \in 1..n}
<1>1. path.lines \in Seq(Line) /\ path.name \in Nat
  BY DEF File
<1>2. L \in Nat /\ DOMAIN path.lines = 1..L /\ \A i \in 1..L : path.lines[i] \in Line
  BY <1>1
<1>3. patched \in Seq(Statement) /\ Len(patched) = L
  BY <1>1, <1>2, PatchedType
<1>4. s \in Scopes
  BY DEF Agrees
<1>5. PICK f \in [0..L -> Scopes] :
         /\ f[0] = s
         /\ \A n \in 1..L : f[n] = Effect(f[n - 1], patched[n])
         /\ Run(s, patched) = f[L]
  <2> HIDE DEF patched, L
  <2>1. \E f \in [0..Len(patched) -> Scopes] :
            /\ f[0] = s
            /\ \A n \in 1..Len(patched) : f[n] = Effect(f[n - 1], patched[n])
            /\ Run(s, patched) = f[Len(patched)]
    BY <1>3, <1>4, RunTurns
  <2> QED BY <1>3, <2>1
<1> DEFINE T == {n \in 0..L : Agrees(f[n], To(n))}
<1>6. 0 \in T
  <2>1. To(0) = P /\ 0 \in 0..L
    BY <1>2
  <2> HIDE DEF To
  <2> QED BY <1>5, <2>1
<1>7. ASSUME NEW n \in T \cap (0..(L - 1)) PROVE n + 1 \in T
  <2> DEFINE p == <<path, n + 1>>
  <2>1. n + 1 \in 1..L /\ n + 1 \in 0..L /\ (n + 1) - 1 = n /\ n \in 0..L
    BY <1>2
  <2>2. To(n + 1) = To(n) \cup {p}
    <3>1. 1..(n + 1) = (1..n) \cup {n + 1}
      BY <2>1
    <3> QED BY <3>1
  <2>3. At(p) = path.lines[n + 1] /\ At(p) \in Line /\ ~Unusual(At(p))
    BY <1>2, <2>1 DEF At
  <2>4. p \notin To(n) /\ ~Before(p, p)
    BY <1>1, <2>1 DEF Before
  <2>5. ASSUME NEW q \in To(n) PROVE Before(q, p) /\ ~Before(p, q)
    <3>1. CASE q \in P
      BY <1>1, <3>1 DEF Before
    <3>2. CASE \E i \in 1..n : q = <<path, i>>
      <4>1. PICK i \in 1..n : q = <<path, i>>
        BY <3>2
      <4>2. q[1].name = path.name /\ q[2] = i /\ p[1].name = path.name /\ p[2] = n + 1
        BY <4>1
      <4>3. i < n + 1 /\ ~(n + 1 < i) /\ ~(path.name < path.name)
        BY <1>1, <2>1
      <4> QED BY <4>2, <4>3 DEF Before
    <3> QED BY <3>1, <3>2
  <2>6. Agrees(f[n], To(n))
    OBVIOUS
  <2> HIDE DEF p, To
  <2>7. Agrees(Effect(f[n], Patched(At(p))), To(n) \cup {p})
    BY <2>3, <2>4, <2>5, <2>6, OneMoreLine
  <2>8. f[n + 1] = Effect(f[n], Patched(At(p)))
    <3>1. f[n + 1] = Effect(f[(n + 1) - 1], patched[n + 1])
      BY <1>5, <2>1
    <3>2. patched[n + 1] = Patched(path.lines[n + 1])
      BY <1>2, <2>1
    <3> QED BY <2>1, <2>3, <3>1, <3>2
  <2> QED BY <2>1, <2>2, <2>7, <2>8
<1> HIDE DEF T
<1>8. 0..L \subseteq T
  <2> HIDE DEF L, To, patched
  <2> QED BY <1>2, <1>6, <1>7, TurnByTurn
<1>9. Agrees(f[L], To(L))
  <2> HIDE DEF L, To
  <2>1. L \in 0..L
    BY <1>2
  <2>2. L \in T
    BY <1>8, <2>1
  <2> QED BY <2>2 DEF T
<1>10. To(L) = P \cup {<<path, i>> : i \in DOMAIN path.lines}
  BY <1>2
<1> QED BY <1>5, <1>9, <1>10
\* Dictionaries of devices.
Keys == STRING \cup Names
Dicts == UNION {[D -> Devices] : D \in SUBSET Keys}

LEMMA DictForm ==
  ASSUME NEW d
  PROVE  d \in Dicts <=> /\ DOMAIN d \subseteq Keys /\ d = [n \in DOMAIN d |-> d[n]]
                         /\ \A n \in DOMAIN d : d[n] \in Devices
<1>1. ASSUME d \in Dicts
      PROVE  /\ DOMAIN d \subseteq Keys /\ d = [n \in DOMAIN d |-> d[n]]
             /\ \A n \in DOMAIN d : d[n] \in Devices
  <2>1. PICK D \in SUBSET Keys : d \in [D -> Devices]
    BY <1>1 DEF Dicts
  <2> QED BY <2>1
<1>2. ASSUME DOMAIN d \subseteq Keys, d = [n \in DOMAIN d |-> d[n]],
             \A n \in DOMAIN d : d[n] \in Devices
      PROVE  d \in Dicts
  <2>1. d \in [DOMAIN d -> Devices]
    BY <1>2
  <2>2. DOMAIN d \in SUBSET Keys
    BY <1>2
  <2> QED BY <2>1, <2>2 DEF Dicts
<1> QED BY <1>1, <1>2

LEMMA NoDict == <<>> \in Dicts /\ DOMAIN <<>> = {}
<1>1. <<>> = [n \in {} |-> None]
  OBVIOUS
<1> QED BY <1>1, DictForm

LEMMA WithDefaultType ==
  ASSUME NEW d \in Dicts, NEW e \in Registered
  PROVE  WithDefault(d, e) \in Dicts
<1>1. e.name \in Keys /\ e.device \in Devices
  BY DEF Registered, Keys
<1>2. CASE e.name \in DOMAIN d
  BY <1>2 DEF WithDefault
<1>3. CASE e.name \notin DOMAIN d
  <2>1. WithDefault(d, e) = [n \in DOMAIN d \cup {e.name} |-> IF n = e.name THEN e.device ELSE d[n]]
    BY <1>3 DEF WithDefault
  <2>2. DOMAIN d \subseteq Keys /\ \A n \in DOMAIN d : d[n] \in Devices
    BY DictForm
  <2>3. WithDefault(d, e) \in [DOMAIN d \cup {e.name} -> Devices]
    BY <1>1, <2>1, <2>2
  <2>4. DOMAIN d \cup {e.name} \in SUBSET Keys
    BY <1>1, <2>2
  <2> QED BY <2>3, <2>4 DEF Dicts
<1> QED BY <1>2, <1>3

LEMMA LoadEntryType ==
  ASSUME NEW d \in Dicts, NEW e \in Entry
  PROVE  LoadEntry(d, e) \in Dicts
<1>1. e.name \in Keys /\ DOMAIN d \subseteq Keys
  BY DictForm DEF Entry, Keys
<1>2. CASE ~e.active \/ ~e.loads
  BY <1>2 DEF LoadEntry
<1>3. CASE ~(~e.active \/ ~e.loads)
  <2>1. LoadEntry(d, e) \in [DOMAIN d \cup {e.name} -> Devices]
    BY <1>3 DEF LoadEntry, Devices
  <2>2. DOMAIN d \cup {e.name} \in SUBSET Keys
    BY <1>1
  <2> QED BY <2>1, <2>2 DEF Dicts
<1> QED BY <1>2, <1>3

\* The loop over the devices of a registry.
LEMMA RegistryTurns ==
  ASSUME NEW s \in Dicts, NEW seq \in Seq(Registered)
  PROVE  \E f \in [0..Len(seq) -> Dicts] :
            /\ f[0] = s
            /\ \A n \in 1..Len(seq) : f[n] = WithDefault(f[n - 1], seq[n])
            /\ ForEach(WithDefault, s, seq) = f[Len(seq)]
<1> DEFINE L == Len(seq)
           step == [p \in Dicts \X (1..L) |-> WithDefault(p[1], seq[p[2]])]
           Eq(f) == f = [n \in 0..L |-> IF n = 0 THEN s ELSE WithDefault(f[n - 1], seq[n])]
           g == CHOOSE f : Eq(f)
<1>1. L \in Nat /\ \A n \in 1..L : seq[n] \in Registered
  OBVIOUS
<1>2. step \in StepsOn(Dicts, L)
  BY <1>1, WithDefaultType DEF StepsOn
<1>3. \E f : Eq(f)
  <2> HIDE DEF step
  <2>1. PICK f \in [0..L -> Dicts] : IsRun(f, L, s, step)
    <3> HIDE DEF L, Eq, g
    <3> QED BY <1>1, <1>2, LoopRuns
  <2>2. ASSUME NEW n \in 1..L PROVE f[n] = WithDefault(f[n - 1], seq[n])
    <3>1. <<f[n - 1], n>> \in Dicts \X (1..L)
      BY <2>1, <1>1
    <3> QED BY <2>1, <3>1 DEF step, IsRun
  <2>3. \A n \in 0..L : n # 0 => n \in 1..L
    BY <1>1
  <2> QED BY <2>1, <2>2, <2>3 DEF IsRun
<1>4. Eq(g)
  <2> HIDE DEF Eq
  <2> QED BY <1>3
<1>5. ForEach(WithDefault, s, seq) = g[L]
  BY DEF ForEach
<1> HIDE DEF g
<1>6. /\ DOMAIN g = 0..L /\ g[0] = s
      /\ \A n \in 1..L : g[n] = WithDefault(g[n - 1], seq[n])
  <2>1. 0 \in 0..L /\ \A n \in 1..L : n # 0 /\ n \in 0..L
    BY <1>1
  <2> QED BY <1>4, <2>1
<1>7. \A n \in 0..L : g[n] \in Dicts
  <2> DEFINE T == {n \in 0..L : g[n] \in Dicts}
  <2>1. 0 \in T
    BY <1>1, <1>6
  <2>2. ASSUME NEW n \in T \cap (0..(L - 1)) PROVE n + 1 \in T
    <3>1. n + 1 \in 1..L /\ n + 1 \in 0..L /\ (n + 1) - 1 = n
      BY <1>1
    <3> QED BY <1>1, <1>6, <3>1, WithDefaultType
  <2> HIDE DEF T
  <2>3. 0..L \subseteq T
    BY <1>1, <2>1, <2>2, TurnByTurn
  <2> QED BY <2>3 DEF T
<1>8. g \in [0..L -> Dicts]
  BY <1>4, <1>7
<1> QED BY <1>5, <1>6, <1>8

\* The loop over the entries of a database.
LEMMA DatabaseTurns ==
  ASSUME NEW s \in Dicts, NEW seq \in Seq(Entry)
  PROVE  \E f \in [0..Len(seq) -> Dicts] :
            /\ f[0] = s
            /\ \A n \in 1..Len(seq) : f[n] = LoadEntry(f[n - 1], seq[n])
            /\ ForEach(LoadEntry, s, seq) = f[Len(seq)]
<1> DEFINE L == Len(seq)
           step == [p \in Dicts \X (1..L) |-> LoadEntry(p[1], seq[p[2]])]
           Eq(f) == f = [n \in 0..L |-> IF n = 0 THEN s ELSE LoadEntry(f[n - 1], seq[n])]
           g == CHOOSE f : Eq(f)
<1>1. L \in Nat /\ \A n \in 1..L : seq[n] \in Entry
  OBVIOUS
<1>2. step \in StepsOn(Dicts, L)
  BY <1>1, LoadEntryType DEF StepsOn
<1>3. \E f : Eq(f)
  <2> HIDE DEF step
  <2>1. PICK f \in [0..L -> Dicts] : IsRun(f, L, s, step)
    <3> HIDE DEF L, Eq, g
    <3> QED BY <1>1, <1>2, LoopRuns
  <2>2. ASSUME NEW n \in 1..L PROVE f[n] = LoadEntry(f[n - 1], seq[n])
    <3>1. <<f[n - 1], n>> \in Dicts \X (1..L)
      BY <2>1, <1>1
    <3> QED BY <2>1, <3>1 DEF step, IsRun
  <2>3. \A n \in 0..L : n # 0 => n \in 1..L
    BY <1>1
  <2> QED BY <2>1, <2>2, <2>3 DEF IsRun
<1>4. Eq(g)
  <2> HIDE DEF Eq
  <2> QED BY <1>3
<1>5. ForEach(LoadEntry, s, seq) = g[L]
  BY DEF ForEach
<1> HIDE DEF g
<1>6. /\ DOMAIN g = 0..L /\ g[0] = s
      /\ \A n \in 1..L : g[n] = LoadEntry(g[n - 1], seq[n])
  <2>1. 0 \in 0..L /\ \A n \in 1..L : n # 0 /\ n \in 0..L
    BY <1>1
  <2> QED BY <1>4, <2>1
<1>7. \A n \in 0..L : g[n] \in Dicts
  <2> DEFINE T == {n \in 0..L : g[n] \in Dicts}
  <2>1. 0 \in T
    BY <1>1, <1>6
  <2>2. ASSUME NEW n \in T \cap (0..(L - 1)) PROVE n + 1 \in T
    <3>1. n + 1 \in 1..L /\ n + 1 \in 0..L /\ (n + 1) - 1 = n
      BY <1>1
    <3> QED BY <1>1, <1>6, <3>1, LoadEntryType
  <2> HIDE DEF T
  <2>3. 0..L \subseteq T
    BY <1>1, <2>1, <2>2, TurnByTurn
  <2> QED BY <2>3 DEF T
<1>8. g \in [0..L -> Dicts]
  BY <1>4, <1>7
<1> QED BY <1>5, <1>6, <1>8

\* A registry adds the names that the module has no device for, and replaces none.
LEMMA RegistryKeeps ==
  ASSUME NEW s \in Dicts, NEW seq \in Seq(Registered)
  PROVE  LET all == ForEach(WithDefault, s, seq)
         IN /\ \A n \in DOMAIN s : n \in DOMAIN all /\ all[n] = s[n]
            /\ \A i \in DOMAIN seq : seq[i].name \in DOMAIN all
<1>1. PICK f \in [0..Len(seq) -> Dicts] :
         /\ f[0] = s
         /\ \A n \in 1..Len(seq) : f[n] = WithDefault(f[n - 1], seq[n])
         /\ ForEach(WithDefault, s, seq) = f[Len(seq)]
  BY RegistryTurns
<1> DEFINE L == Len(seq)
           Holds(d, k) == /\ \A n \in DOMAIN s : n \in DOMAIN d /\ d[n] = s[n]
                          /\ \A i \in 1..k : seq[i].name \in DOMAIN d
           T == {n \in 0..L : Holds(f[n], n)}
<1>2. L \in Nat /\ DOMAIN seq = 1..L
  OBVIOUS
<1>3. 0 \in T
  BY <1>1, <1>2
<1>4. ASSUME NEW n \in T \cap (0..(L - 1)) PROVE n + 1 \in T
  <2>1. n + 1 \in 1..L /\ n + 1 \in 0..L /\ (n + 1) - 1 = n
    BY <1>2
  <2>2. f[n + 1] = WithDefault(f[n], seq[n + 1])
    BY <1>1, <2>1
  <2>3. /\ DOMAIN f[n + 1] = DOMAIN f[n] \cup {seq[n + 1].name}
        /\ \A m \in DOMAIN f[n] : f[n + 1][m] = f[n][m]
    BY <2>2 DEF WithDefault
  <2>4. Holds(f[n], n)
    OBVIOUS
  <2>5. \A i \in 1..(n + 1) : i \in 1..n \/ i = n + 1
    BY <2>1
  <2>6. Holds(f[n + 1], n + 1)
    BY <2>3, <2>4, <2>5
  <2> QED BY <2>1, <2>6
<1> HIDE DEF T
<1>5. 0..L \subseteq T
  BY <1>2, <1>3, <1>4, TurnByTurn
<1>6. Holds(f[L], L)
  BY <1>2, <1>5 DEF T
<1> QED BY <1>1, <1>2, <1>6

\* What is got out of a registry: its devices before the first that raises.
LEMMA EnumeratedIs ==
  ASSUME NEW seq \in Seq(Registered)
  PROVE  /\ Enumerated(seq) \in Seq(Registered)
         /\ \A i \in Given(seq) : i \in DOMAIN Enumerated(seq) /\ Enumerated(seq)[i] = seq[i]
<1> DEFINE L == Len(seq)
           IsEnd(n) == /\ \A i \in 1..n : ~seq[i].raises
                       /\ n < L => seq[n + 1].raises
           T == {n \in 0..L : \A i \in 1..n : ~seq[i].raises}
<1>1. L \in Nat /\ DOMAIN seq = 1..L
  OBVIOUS
<1>2. \E n \in 0..L : IsEnd(n)
  <2> SUFFICES ASSUME \A n \in 0..L : ~IsEnd(n) PROVE FALSE
    OBVIOUS
  <2>1. 0 \in T
    BY <1>1
  <2>2. ASSUME NEW n \in T \cap (0..(L - 1)) PROVE n + 1 \in T
    <3>1. n + 1 \in 0..L /\ n < L /\ \A i \in 1..(n + 1) : i \in 1..n \/ i = n + 1
      BY <1>1
    <3>2. ~seq[n + 1].raises
      BY <1>1, <3>1
    <3> QED BY <3>1, <3>2
  <2> HIDE DEF T
  <2>3. L \in T
    BY <1>1, <2>1, <2>2, TurnByTurn
  <2> QED BY <1>1, <2>3 DEF T
<1> DEFINE n == CHOOSE n \in 0..L : IsEnd(n)
<1>3. n \in 0..L /\ IsEnd(n)
  BY <1>2
<1>4. Enumerated(seq) = SubSeq(seq, 1, n)
  BY DEF Enumerated
<1> HIDE DEF n
<1>5. /\ Enumerated(seq) \in Seq(Registered) /\ DOMAIN Enumerated(seq) = 1..n
      /\ \A i \in 1..n : Enumerated(seq)[i] = seq[i]
  BY <1>1, <1>3, <1>4
<1>6. ASSUME NEW i \in Given(seq) PROVE i \in 1..n
  <2>1. i \in 1..L /\ \A j \in 1..i : ~seq[j].raises
    BY <1>1 DEF Given
  <2>2. ~(n < i)
    <3> SUFFICES ASSUME n < i PROVE FALSE
      OBVIOUS
    <3>1. n < L /\ n + 1 \in 1..i
      BY <1>1, <1>3, <2>1
    <3> QED BY <1>3, <2>1, <3>1
  <2> QED BY <1>1, <1>3, <2>1, <2>2
<1> QED BY <1>5, <1>6

\* A database gives the names of its entries that are active and load.
LEMMA DatabaseGives ==
  ASSUME NEW seq \in Seq(Entry)
  PROVE  DOMAIN ForEach(LoadEntry, <<>>, seq) =
            {seq[i].name : i \in {j \in DOMAIN seq : seq[j].active /\ seq[j].loads}}
<1>1. PICK f \in [0..Len(seq) -> Dicts] :
         /\ f[0] = <<>>
         /\ \A n \in 1..Len(seq) : f[n] = LoadEntry(f[n - 1], seq[n])
         /\ ForEach(LoadEntry, <<>>, seq) = f[Len(seq)]
  BY DatabaseTurns, NoDict
<1> DEFINE L == Len(seq)
           Good(i) == seq[i].active /\ seq[i].loads
           T == {n \in 0..L : \A x : x \in DOMAIN f[n] <=>
                                      \E i \in 1..n : Good(i) /\ seq[i].name = x}
<1>2. L \in Nat /\ DOMAIN seq = 1..L
  OBVIOUS
<1>3. 0 \in T
  BY <1>1, <1>2, NoDict
<1>4. ASSUME NEW n \in T \cap (0..(L - 1)) PROVE n + 1 \in T
  <2>1. n + 1 \in 1..L /\ n + 1 \in 0..L /\ (n + 1) - 1 = n
    BY <1>2
  <2>2. f[n + 1] = LoadEntry(f[n], seq[n + 1])
    BY <1>1, <2>1
  <2>3. DOMAIN f[n + 1] = IF Good(n + 1) THEN DOMAIN f[n] \cup {seq[n + 1].name} ELSE DOMAIN f[n]
    BY <2>2 DEF LoadEntry
  <2>4. \A i : i \in 1..(n + 1) <=> (i \in 1..n \/ i = n + 1)
    BY <2>1
  <2>5. \A x : x \in DOMAIN f[n] <=> \E i \in 1..n : Good(i) /\ seq[i].name = x
    OBVIOUS
  <2> HIDE DEF Good
  <2>6. \A x : x \in DOMAIN f[n + 1] <=> \E i \in 1..(n + 1) : Good(i) /\ seq[i].name = x
    BY <2>3, <2>4, <2>5
  <2> QED BY <2>1, <2>6
<1> HIDE DEF T
<1>5. 0..L \subseteq T
  BY <1>2, <1>3, <1>4, TurnByTurn
<1>6. \A x : x \in DOMAIN f[L] <=> \E i \in 1..L : Good(i) /\ seq[i].name = x
  BY <1>2, <1>5 DEF T
<1> QED BY <1>1, <1>2, <1>6

LEMMA ContentForms ==
  ASSUME NEW c \in Contents
  PROVE  /\ c.kind = "ipython" => c.files \in Directories
         /\ c.kind = "bits" => c.lines \in Seq(Line) /\ c.oregistry \in Seq(Registered)
         /\ c.kind = "happi" => c.entries \in Seq(Entry)
BY DEF Contents

LEMMA EmptyType == Empty \in Scopes
BY DEF Empty, Scopes

LEMMA RunType ==
  ASSUME NEW s \in Scopes, NEW lines \in Seq(Statement)
  PROVE  Run(s, lines) \in Scopes
<1>1. PICK f \in [0..Len(lines) -> Scopes] : Run(s, lines) = f[Len(lines)]
  BY RunTurns
<1>2. Len(lines) \in 0..Len(lines)
  OBVIOUS
<1> QED BY <1>1, <1>2

LEMMA FoundType ==
  ASSUME NEW s \in Scopes
  PROVE  /\ Found(s.ns, Devices) \in Dicts
         /\ s.ns["a"] \in Devices =>
               "a" \in DOMAIN Found(s.ns, Devices) /\ Found(s.ns, Devices)["a"] = s.ns["a"]
<1> DEFINE D == {m \in Names : Public(m) /\ s.ns[m] \in Devices}
<1>1. Found(s.ns, Devices) = [n \in D |-> s.ns[n]]
  BY DEF Found
<1>2. D \in SUBSET Keys
  BY DEF Keys
<1>3. [n \in D |-> s.ns[n]] \in [D -> Devices]
  OBVIOUS
<1>4. "a" \in Names /\ Public("a")
  BY DEF Names, Public
<1> HIDE DEF D
<1>5. Found(s.ns, Devices) \in Dicts
  BY <1>1, <1>2, <1>3 DEF Dicts
<1>6. ASSUME s.ns["a"] \in Devices PROVE "a" \in D
  BY <1>4, <1>6 DEF D
<1> QED BY <1>1, <1>5, <1>6

\* What the namespace calls RE is adopted, else what has the only name.
LEMMA EngineAdopted ==
  ASSUME NEW s \in Scopes, NEW devices
  PROVE  LET engines == {n \in Names : s.ns[n] \in Engines}
             adopted == Loaded(devices, DOMAIN Found(s.ns, {"plan"}), EngineIn(s.ns)).engine
         IN /\ \A n \in Names : engines = {n} => adopted = s.ns[n]
            /\ "RE" \in engines => adopted = s.ns["RE"]
<1> DEFINE engines == {n \in Names : s.ns[n] \in Engines}
           adopted == Loaded(devices, DOMAIN Found(s.ns, {"plan"}), EngineIn(s.ns)).engine
<1>1. adopted = IF EngineIn(s.ns) = None THEN "created" ELSE EngineIn(s.ns)
  BY DEF Loaded
<1>2. EngineIn(s.ns) = IF "RE" \in engines THEN s.ns["RE"]
                       ELSE IF \E n \in engines : engines = {n}
                            THEN s.ns[CHOOSE n \in engines : TRUE] ELSE None
  BY DEF EngineIn
<1> HIDE DEF adopted
<1>3. ASSUME NEW n \in engines, EngineIn(s.ns) = s.ns[n] PROVE adopted = s.ns[n]
  BY <1>1, <1>3, ProfileAssumption
<1>4. ASSUME NEW n \in Names, engines = {n} PROVE EngineIn(s.ns) = s.ns[n] /\ n \in engines
  <2>1. (CHOOSE m \in engines : TRUE) = n
    BY <1>4
  <2> HIDE DEF engines
  <2> QED BY <1>2, <1>4, <2>1
<1> HIDE DEF engines
<1>5. "RE" \in engines => EngineIn(s.ns) = s.ns["RE"]
  BY <1>2
<1>6. \A n \in Names : engines = {n} => adopted = s.ns[n]
  BY <1>3, <1>4
<1>7. "RE" \in engines => adopted = s.ns["RE"]
  BY <1>3, <1>5
<1> QED BY <1>6, <1>7 DEF engines, adopted

\* What ends a load, in any state that it ends in: the two properties of the result.
LEMMA AgreesEnds ==
  ASSUME NEW P, NEW s, Agrees(s, P)
  PROVE  /\ s.raised = None => EndsWhereItStops(P, "loaded") /\ Stops(P) = {}
         /\ s.raised # None => EndsWhereItStops(P, s.raised) /\ Stops(P) # {}
         /\ HoldsTheLastBinding(P, s.ns)
<1>1. CASE Stops(P) = {}
  BY <1>1 DEF Agrees, EndsWhereItStops
<1>2. CASE Stops(P) # {}
  <2>1. PICK p \in Stops(P) \cap Reached(P) :
           s.raised = IF At(p).does = "raise" THEN "error" ELSE "SystemExit"
    BY <1>2 DEF Agrees
  <2>2. s.raised # None
    BY <2>1, ProfileAssumption
  <2> QED BY <1>2, <2>1, <2>2 DEF Agrees, EndsWhereItStops
<1> QED BY <1>1, <1>2

\* Before the first file nothing is there.
LEMMA AgreesAtFirst == Agrees(Empty, {})
<1>1. Stops({}) = {} /\ \A n : Bindings({}, n) = {}
  BY DEF Stops, Bindings, Reached
<1>2. Empty.raised = None /\ Empty.shell = "patched" /\ \A n \in Names : Empty.ns[n] = None
  BY DEF Empty
<1> QED BY <1>1, <1>2, EmptyType DEF Agrees, HoldsTheLastBinding

\* A directory of .py files whose imports of get_ipython are those that are patched.
Plain(files) ==
    /\ files # {} /\ \A f \in files : f.suffix = ".py"
    /\ \A p \in CodeLines(files) : ~Unusual(At(p))

\* Between two files: those that have run come before those that have not, none has
\* ended the load, and the scope is what IPython would have after them.
BetweenFiles ==
    result = Loads /\ todo # {} =>
        /\ content.kind = "ipython" /\ todo \subseteq StartupFiles(content.files)
        /\ \A f \in StartupFiles(content.files) \ todo, g \in todo : f.name < g.name
        /\ Plain(content.files) =>
             LET done == CodeLines(StartupFiles(content.files) \ todo)
             IN Agrees(scope, done) /\ Stops(done) = {}

ProfileType ==
    /\ content \in Contents /\ scope \in Scopes
    /\ result = Loads /\ todo = {} => scope = Empty

ProfileInv == ProfileType /\ BetweenFiles /\ LoadsAsIPythonDoes /\ OffersWhatIsThere

LEMMA ProfileBegins == ProfileInit => ProfileInv
<1> SUFFICES ASSUME ProfileInit PROVE ProfileInv
  OBVIOUS
<1>1. content \in Contents /\ scope = Empty /\ result = Loads /\ todo = {}
  BY DEF ProfileInit, Loading
<1>2. ProfileType
  BY <1>1, EmptyType DEF ProfileType
<1>3. result.ended # "loaded"
  BY <1>1, ProfileAssumption DEF Loads
<1> QED BY <1>1, <1>2, <1>3
     DEF ProfileInv, BetweenFiles, LoadsAsIPythonDoes, OffersWhatIsThere, Over

LEMMA OpenDirectoryStep ==
  ASSUME ProfileInv, OpenDirectory
  PROVE  ProfileInv'
<1>1. /\ result = Loads /\ content.kind = "ipython" /\ todo = {} /\ scope = Empty
      /\ content' = content /\ scope' = scope /\ content \in Contents
  BY DEF OpenDirectory, ProfileInv, ProfileType
<1>2. content.files \in Directories
  BY <1>1, ContentForms
<1>3. CASE StartupFiles(content.files) = {}
  <2>1. result' = [ended |-> "error"] /\ todo' = {}
    BY <1>1, <1>3 DEF OpenDirectory, Fails
  <2>2. ProfileType'
    BY <1>1, EmptyType DEF ProfileType
  <2>3. result' # Loads /\ result'.ended # "loaded"
    BY <2>1, ProfileAssumption DEF Loads
  <2>4. LoadsAsIPythonDoes'
    BY <1>1, <1>3 DEF LoadsAsIPythonDoes, StartupFiles
  <2>5. BetweenFiles' /\ OffersWhatIsThere'
    BY <2>3 DEF BetweenFiles, OffersWhatIsThere
  <2> QED BY <2>2, <2>4, <2>5 DEF ProfileInv
<1>4. CASE StartupFiles(content.files) # {}
  <2>1. result' = Loads /\ todo' = StartupFiles(content.files)
    BY <1>1, <1>4 DEF OpenDirectory
  <2>2. ProfileType'
    BY <1>1, <2>1, <1>4, EmptyType DEF ProfileType
  <2>3. CodeLines(StartupFiles(content.files) \ todo') = {}
    BY <2>1 DEF CodeLines
  <2>4. Stops({}) = {}
    BY DEF Stops
  <2>5. BetweenFiles'
    BY <1>1, <2>1, <2>3, <2>4, AgreesAtFirst DEF BetweenFiles
  <2>6. result'.ended # "loaded"
    BY <2>1, ProfileAssumption DEF Loads
  <2>7. LoadsAsIPythonDoes' /\ OffersWhatIsThere'
    BY <2>1, <2>6 DEF LoadsAsIPythonDoes, OffersWhatIsThere, Over
  <2> QED BY <2>2, <2>5, <2>7 DEF ProfileInv
<1> QED BY <1>3, <1>4

\* A load that ends with what the namespace holds offers it.
LEMMA FinishOffers ==
  ASSUME NEW s \in Scopes, NEW devices, Finish(s, devices),
         s.raised = None => content'.kind \in {"ipython", "bits"} /\ scope' = s,
         s.ns["a"] \in Devices => "a" \in DOMAIN devices /\ devices["a"] = s.ns["a"],
         content'.kind = "bits" =>
            \A i \in Given(content'.oregistry) : content'.oregistry[i].name \in DOMAIN devices
  PROVE  /\ OffersWhatIsThere' /\ result' # Loads
         /\ s.raised = None => result'.ended = "loaded"
         /\ s.raised # None => result'.ended = s.raised
<1>1. CASE s.raised # None
  <2>1. result' = [ended |-> s.raised]
    BY <1>1 DEF Finish
  <2>2. s.raised \in {"error", "SystemExit"}
    BY <1>1 DEF Scopes
  <2> QED BY <1>1, <2>1, <2>2, ProfileAssumption DEF OffersWhatIsThere, Loads
<1>2. CASE s.raised = None
  <2>1. result' = Loaded(devices, DOMAIN Found(s.ns, {"plan"}), EngineIn(s.ns))
    BY <1>2 DEF Finish
  <2>2. result'.ended = "loaded" /\ result'.devices = devices
    BY <2>1 DEF Loaded
  <2>3. result' # Loads
    BY <2>2, ProfileAssumption DEF Loads
  <2>4. LET engines == {n \in Names : s.ns[n] \in Engines}
        IN /\ \A n \in Names : engines = {n} => result'.engine = s.ns[n]
           /\ "RE" \in engines => result'.engine = s.ns["RE"]
    BY <2>1, EngineAdopted
  <2>5. scope' = s /\ content'.kind \in {"ipython", "bits"}
    BY <1>2
  <2>6. \A n \in Names : n \in result'.plans <=> Public(n) /\ s.ns[n] = "plan"
    BY <2>1 DEF Loaded, Found
  <2>7. content'.kind = "bits" =>
           \A i \in Given(content'.oregistry) : content'.oregistry[i].name \in DOMAIN result'.devices
    BY <2>2
  <2>8. (content.kind = "bits" =>
           \A i \in Given(content.oregistry) : content.oregistry[i].name \in DOMAIN result.devices)'
    BY <2>7 DEF Given
  <2>9. OffersWhatIsThere'
    BY <2>2, <2>4, <2>5, <2>6, <2>8 DEF OffersWhatIsThere
  <2> QED BY <1>2, <2>2, <2>3, <2>9
<1> QED BY <1>1, <1>2

LEMMA ImportModuleStep ==
  ASSUME ProfileInv, ImportModule
  PROVE  ProfileInv'
<1> DEFINE s == Run([scope EXCEPT !.shell = "real"], content.lines)
           asked == Enumerated(content.oregistry)
           devices == ForEach(WithDefault, Found(s.ns, Devices), asked)
<1>1. /\ result = Loads /\ content.kind = "bits" /\ content' = content /\ todo' = todo
      /\ scope' = s /\ Finish(s, devices)
      /\ content \in Contents /\ scope \in Scopes
  BY DEF ImportModule, ProfileInv, ProfileType
<1>2. content.lines \in Seq(Statement) /\ content.oregistry \in Seq(Registered)
  BY <1>1, ContentForms DEF Statement
<1>3. [scope EXCEPT !.shell = "real"] \in Scopes
  BY <1>1 DEF Scopes
<1>4. s \in Scopes
  BY <1>2, <1>3, RunType
<1> HIDE DEF s
<1>5. /\ s.ns["a"] \in Devices => "a" \in DOMAIN devices /\ devices["a"] = s.ns["a"]
      /\ \A i \in Given(content.oregistry) : content.oregistry[i].name \in DOMAIN devices
  <2>1. /\ asked \in Seq(Registered)
        /\ \A i \in Given(content.oregistry) :
              i \in DOMAIN asked /\ asked[i] = content.oregistry[i]
    BY <1>2, EnumeratedIs
  <2> HIDE DEF asked
  <2>2. /\ s.ns["a"] \in Devices => "a" \in DOMAIN devices /\ devices["a"] = s.ns["a"]
        /\ \A i \in DOMAIN asked : asked[i].name \in DOMAIN devices
    BY <1>4, <2>1, FoundType, RegistryKeeps
  <2> HIDE DEF devices
  <2> QED BY <2>1, <2>2
<1> HIDE DEF devices
<1>6. OffersWhatIsThere' /\ result' # Loads
  BY <1>1, <1>4, <1>5, FinishOffers
<1>7. ProfileType' /\ BetweenFiles' /\ LoadsAsIPythonDoes'
  BY <1>1, <1>4, <1>6 DEF ProfileType, BetweenFiles, LoadsAsIPythonDoes, Over
<1> QED BY <1>6, <1>7 DEF ProfileInv

LEMMA LoadDatabaseStep ==
  ASSUME ProfileInv, LoadDatabase
  PROVE  ProfileInv'
<1> DEFINE devices == ForEach(LoadEntry, <<>>, content.entries)
<1>1. /\ content.kind = "happi" /\ UNCHANGED <<content, todo, scope>>
      /\ result' = Loaded(devices, {"count"}, None)
      /\ content \in Contents /\ scope \in Scopes
  BY DEF LoadDatabase, ProfileInv, ProfileType
<1>2. DOMAIN devices = {content.entries[i].name : i \in {j \in DOMAIN content.entries :
                            content.entries[j].active /\ content.entries[j].loads}}
  BY <1>1, ContentForms, DatabaseGives
<1> HIDE DEF devices
<1>3. result'.ended = "loaded" /\ result'.devices = devices
  BY <1>1 DEF Loaded
<1>4. result' # Loads
  BY <1>3, ProfileAssumption DEF Loads
<1>5. OffersWhatIsThere'
  BY <1>1, <1>2, <1>3 DEF OffersWhatIsThere
<1>6. ProfileType' /\ BetweenFiles' /\ LoadsAsIPythonDoes'
  BY <1>1, <1>4 DEF ProfileType, BetweenFiles, LoadsAsIPythonDoes, Over
<1> QED BY <1>5, <1>6 DEF ProfileInv

\* A file is run: either it ends the load, or it was the last, or others are left.
LEMMA ExecFileStep ==
  ASSUME ProfileInv, ExecFile
  PROVE  ProfileInv'
<1>1. PICK path \in todo :
         /\ \A f \in todo : path.name <= f.name
         /\ scope' = Run(scope, [i \in DOMAIN path.lines |-> Patched(path.lines[i])])
         /\ todo' = IF scope'.raised # None THEN {} ELSE todo \ {path}
  BY DEF ExecFile
<1>2. /\ result = Loads /\ todo # {} /\ content' = content
      /\ content \in Contents /\ scope \in Scopes
      /\ IF todo' = {} THEN Finish(scope', Found(scope'.ns, Devices)) ELSE UNCHANGED result
  BY DEF ExecFile, ProfileInv, ProfileType
<1> DEFINE py == StartupFiles(content.files)
           done == py \ todo
           lines == {<<path, i>> : i \in DOMAIN path.lines}
<1>3. /\ content.kind = "ipython" /\ todo \subseteq py
      /\ \A f \in done, g \in todo : f.name < g.name
      /\ Plain(content.files) => Agrees(scope, CodeLines(done))
  BY <1>2 DEF ProfileInv, BetweenFiles
<1>4. /\ py \subseteq content.files /\ \A f \in py : f \in File /\ f.name \in Nat
      /\ \A f \in content.files, g \in content.files : f.name = g.name => f = g
  BY <1>2, <1>3, ContentForms DEF StartupFiles, Directories, File
<1>5. scope' \in Scopes
  <2>1. path \in File
    BY <1>1, <1>3, <1>4
  <2>2. path.lines \in Seq(Line)
    BY <2>1 DEF File
  <2>3. [i \in DOMAIN path.lines |-> Patched(path.lines[i])] \in Seq(Statement)
    BY <2>2, PatchedType
  <2> QED BY <1>1, <1>2, <2>3, RunType
<1>6. todo' = {} => OffersWhatIsThere' /\ result' # Loads
                    /\ (scope'.raised = None => result'.ended = "loaded")
                    /\ (scope'.raised # None => result'.ended = scope'.raised)
  <2> DEFINE s == scope'
  <2>1. s \in Scopes /\ scope' = s
    BY <1>5
  <2>2. /\ s.ns["a"] \in Devices =>
              "a" \in DOMAIN Found(s.ns, Devices) /\ Found(s.ns, Devices)["a"] = s.ns["a"]
        /\ content'.kind = "ipython" /\ content'.kind # "bits"
    BY <1>2, <1>3, <1>5, FoundType
  <2>3. todo' = {} => Finish(s, Found(s.ns, Devices))
    BY <1>2
  <2> HIDE DEF s
  <2> QED BY <2>1, <2>2, <2>3, FinishOffers
<1>7. ProfileType'
  BY <1>2, <1>5, <1>6 DEF ProfileType
<1>8. OffersWhatIsThere'
  <2>1. CASE todo' = {}
    BY <1>6, <2>1
  <2>2. CASE todo' # {}
    <3>1. result'.ended # "loaded"
      BY <1>2, <2>2, ProfileAssumption DEF Loads
    <3> QED BY <3>1 DEF OffersWhatIsThere
  <2> QED BY <2>1, <2>2
<1>9. ASSUME Plain(content.files) PROVE Agrees(scope', CodeLines(done \cup {path}))
  <2>1. Agrees(scope, CodeLines(done)) /\ path \in File
    BY <1>1, <1>3, <1>4, <1>9
  <2>2. \A i \in DOMAIN path.lines : ~Unusual(path.lines[i])
    <3>1. \A i \in DOMAIN path.lines : <<path, i>> \in CodeLines(content.files)
      BY <1>1, <1>3, <1>4 DEF CodeLines
    <3>2. \A i \in DOMAIN path.lines : At(<<path, i>>) = path.lines[i]
      BY DEF At
    <3> QED BY <1>9, <3>1, <3>2 DEF Plain
  <2>3. \A q \in CodeLines(done) : q[1].name \in Nat /\ q[1].name < path.name
    <3>1. \A q \in CodeLines(done) : q[1] \in done
      BY DEF CodeLines
    <3> QED BY <1>1, <1>3, <1>4, <3>1
  <2>4. CodeLines(done \cup {path}) = CodeLines(done) \cup lines
    <3> HIDE DEF done
    <3> QED BY DEF CodeLines
  <2> HIDE DEF done
  <2>5. Agrees(Run(scope, [i \in DOMAIN path.lines |-> Patched(path.lines[i])]),
               CodeLines(done) \cup lines)
    BY <2>1, <2>2, <2>3, OneMoreFile
  <2> QED BY <1>1, <2>4, <2>5
<1>10. todo' # {} => done \cup {path} = py \ todo' /\ scope'.raised = None
  BY <1>1, <1>3
<1>11. BetweenFiles'
  <2> SUFFICES ASSUME result' = Loads, todo' # {}
               PROVE  /\ content.kind = "ipython" /\ todo' \subseteq py
                      /\ \A f \in py \ todo', g \in todo' : f.name < g.name
                      /\ Plain(content.files) =>
                           Agrees(scope', CodeLines(py \ todo')) /\ Stops(CodeLines(py \ todo')) = {}
    BY <1>2 DEF BetweenFiles
  <2>1. todo' = todo \ {path} /\ done \cup {path} = py \ todo'
    BY <1>1, <1>10
  <2>2. ASSUME NEW f \in done \cup {path}, NEW g \in todo \ {path} PROVE f.name < g.name
    <3>1. CASE f \in done
      BY <1>3, <3>1
    <3>2. CASE f = path
      <4>1. path.name <= g.name /\ path.name # g.name /\ path.name \in Nat /\ g.name \in Nat
        BY <1>1, <1>3, <1>4
      <4> QED BY <3>2, <4>1
    <3> QED BY <3>1, <3>2
  <2>3. Plain(content.files) =>
           Agrees(scope', CodeLines(done \cup {path})) /\ Stops(CodeLines(done \cup {path})) = {}
    <3> HIDE DEF done
    <3> QED BY <1>9, <1>10, AgreesEnds
  <2> HIDE DEF done, py
  <2> QED BY <1>3, <2>1, <2>2, <2>3
<1>12. LoadsAsIPythonDoes'
  <2> SUFFICES ASSUME result' # Loads, Plain(content.files)
               PROVE  /\ EndsWhereItStops(CodeLines(content.files), result'.ended)
                      /\ HoldsTheLastBinding(CodeLines(content.files), scope'.ns)
    BY <1>2 DEF LoadsAsIPythonDoes, AsIPython, Plain, Over
  <2>1. todo' = {}
    BY <1>2
  <2>2. CodeLines(py) = CodeLines(content.files)
    <3>1. py = content.files
      BY DEF Plain, StartupFiles
    <3> QED BY <3>1
  <2>3. Agrees(scope', CodeLines(done \cup {path}))
    BY <1>9
  <2> DEFINE P == CodeLines(done \cup {path})
  <2>4. CASE scope'.raised = None
    <3>1. done \cup {path} = py
      BY <1>1, <1>3, <2>1, <2>4
    <3> HIDE DEF done, py
    <3>2. EndsWhereItStops(CodeLines(py), "loaded") /\ HoldsTheLastBinding(CodeLines(py), scope'.ns)
      BY <2>3, <2>4, <3>1, AgreesEnds
    <3> QED BY <1>6, <2>1, <2>2, <2>4, <3>2
  <2>5. CASE scope'.raised # None
    <3>1. Stops(P) # {}
      <4> HIDE DEF done
      <4> QED BY <2>3, <2>5, AgreesEnds
    <3>2. P \subseteq CodeLines(py)
      BY <1>1, <1>3 DEF CodeLines
    <3>3. \A q \in CodeLines(py) \ P, p \in P : Before(p, q) /\ ~Before(q, p)
      <4> SUFFICES ASSUME NEW q \in CodeLines(py) \ P, NEW p \in P
                   PROVE  Before(p, q) /\ ~Before(q, p)
        OBVIOUS
      <4>1. p[1] \in done \cup {path} /\ q[1] \in py /\ q[1] \notin done \cup {path}
        BY <1>1, <1>3 DEF CodeLines
      <4>2. q[1] \in todo /\ q[1] # path
        BY <4>1
      <4>3. path.name # q[1].name /\ path.name <= q[1].name
            /\ path.name \in Nat /\ q[1].name \in Nat /\ p[1].name \in Nat
        BY <1>1, <1>3, <1>4, <4>1, <4>2
      <4>4. p[1].name < q[1].name
        BY <1>3, <4>1, <4>2, <4>3
      <4> QED BY <4>3, <4>4 DEF Before
    <3> HIDE DEF P, py
    <3>4. Agrees(scope', CodeLines(py))
      BY <2>3, <3>1, <3>2, <3>3, AfterAStop DEF P
    <3>5. /\ EndsWhereItStops(CodeLines(py), scope'.raised)
          /\ HoldsTheLastBinding(CodeLines(py), scope'.ns)
      BY <2>5, <3>4, AgreesEnds
    <3> QED BY <1>6, <2>1, <2>2, <2>5, <3>5 DEF py
  <2> QED BY <2>4, <2>5
<1> QED BY <1>7, <1>8, <1>11, <1>12 DEF ProfileInv

\* The inductive invariant of loading a profile.
LEMMA ProfileInductive == ProfileInv /\ [ProfileNext]_profileVars => ProfileInv'
<1> SUFFICES ASSUME ProfileInv, [ProfileNext]_profileVars PROVE ProfileInv'
  OBVIOUS
<1>1. CASE OpenDirectory
  BY <1>1, OpenDirectoryStep
<1>2. CASE NotThere
  <2>1. /\ content.kind = "missing" /\ UNCHANGED <<content, todo, scope>>
        /\ result' = [ended |-> "error"] /\ content \in Contents /\ scope \in Scopes
    BY <1>2 DEF NotThere, Fails, ProfileInv, ProfileType
  <2>2. result' # Loads /\ result'.ended # "loaded"
    BY <2>1, ProfileAssumption DEF Loads
  <2> QED BY <2>1, <2>2
       DEF ProfileInv, ProfileType, BetweenFiles, LoadsAsIPythonDoes, OffersWhatIsThere, Over
<1>3. CASE ExecFile
  BY <1>3, ExecFileStep
<1>4. CASE ImportModule
  BY <1>4, ImportModuleStep
<1>5. CASE LoadDatabase
  BY <1>5, LoadDatabaseStep
<1>6. CASE UNCHANGED profileVars
  <2>1. content' = content /\ todo' = todo /\ scope' = scope /\ result' = result
    BY <1>6 DEF profileVars
  <2> QED BY <2>1
       DEF ProfileInv, ProfileType, BetweenFiles, LoadsAsIPythonDoes, AsIPython, OffersWhatIsThere,
           Over
<1> QED BY <1>1, <1>2, <1>3, <1>4, <1>5, <1>6 DEF ProfileNext

\* A directory of any number of .py files, each of any number of lines, whose imports of
\* get_ipython are plain, ends as IPython would end it, and leaves what it would leave.
THEOREM ProfileLoadsAsIPythonDoes == ProfileSpec => []LoadsAsIPythonDoes
<1>1. ProfileInv => LoadsAsIPythonDoes
  BY DEF ProfileInv
<1> QED BY <1>1, ProfileBegins, ProfileInductive, PTL DEF ProfileSpec

\* What any profile, module, registry or database holds is what is offered of it.
THEOREM ProfileOffersWhatIsThere == ProfileSpec => []OffersWhatIsThere
<1>1. ProfileInv => OffersWhatIsThere
  BY DEF ProfileInv
<1> QED BY <1>1, ProfileBegins, ProfileInductive, PTL DEF ProfileSpec

-----------------------------------------------------------------------------
(* Naming a failure.  That the root and the line of the profile are the right  *)
(* ones, however exceptions are chained.  The invariant speaks of the walk:    *)
(* what it has seen leads to where it is, while it looks for the root; then    *)
(* what it has seen has no frame, and is closed up to where it is.             *)

DiagnosticsType ==
    /\ raised \in Exceptions /\ link \in [Exceptions -> Link]
    /\ status \in [Exceptions -> Exceptions \cup {None}]
    /\ frame \in [Exceptions -> BOOLEAN]
    /\ seen \subseteq Exceptions
    /\ walk \in Exceptions \cup {None} /\ root \in Exceptions \cup {None}

FromRaised(e) == e = raised \/ Towards(raised, e)

\* While the root is looked for, the walk is at an exception that those seen lead to.
LookingForRoot ==
    root = None =>
        /\ walk \in Exceptions /\ summary = None
        /\ FromRaised(walk) /\ \A x \in seen : Towards(x, walk)

\* What has been found is the innermost, or one in a circle.
RootIsInnermost ==
    root # None =>
        FromRaised(root) /\ (Deeper(root) \notin {None, root} => Towards(root, root))

InView(e) == e \in {raised, root} \/ Printed(raised, e)

\* While a frame is looked for, those seen have none, and lead to no others but the next.
LookingForFrame ==
    root # None /\ summary = None =>
        /\ root \in seen /\ raised \in seen \cup {walk}
        /\ \A x \in seen : ~frame[x]
        /\ \A x \in (seen \cup {walk}) \ {None} : InView(x)
        /\ Deeper(root) = None => \A x \in seen : Inner(x) \in seen \cup {walk, None}

DiagnosticsInv ==
    /\ DiagnosticsType /\ LookingForRoot /\ RootIsInnermost /\ LookingForFrame
    /\ summary # None => root # None /\ summary.root = root
    /\ CauseAndLineAreNamed

LEMMA NextType ==
  ASSUME DiagnosticsType, NEW e \in Exceptions
  PROVE  Inner(e) \in Exceptions \cup {None} /\ Deeper(e) \in Exceptions \cup {None}
<1>1. link[e] \in Link /\ status[e] \in Exceptions \cup {None}
  BY DEF DiagnosticsType
<1>2. Inner(e) \in Exceptions \cup {None}
  BY <1>1 DEF Inner, Link
<1> QED BY <1>1, <1>2 DEF Deeper

\* Below an exception Python prints the one that the chain goes to, and no other.
LEMMA InnerIsPrinted ==
  ASSUME DiagnosticsType, NEW e \in Exceptions, NEW f \in Exceptions
  PROVE  IsPrintedNext(e, f) <=> f = Inner(e)
<1>1. link[e] \in Link
  BY DEF DiagnosticsType
<1>2. CASE link[e] \in [cause : Exceptions, context : {None}, suppress : {TRUE}]
  BY <1>2, DiagnosticsAssumption DEF IsPrintedNext, Inner
<1>3. CASE link[e] \in [cause : {None}, context : Exceptions, suppress : BOOLEAN]
  BY <1>3, DiagnosticsAssumption DEF IsPrintedNext, Inner
<1>4. CASE link[e] \in [cause : {None}, context : {None}, suppress : {FALSE}]
  BY <1>4, DiagnosticsAssumption DEF IsPrintedNext, Inner
<1> QED BY <1>1, <1>2, <1>3, <1>4 DEF Link

\* What an exception leads to leads on.
LEMMA TowardsNext ==
  ASSUME NEW e \in Exceptions, NEW f \in Exceptions, NEW g \in Exceptions,
         e = f \/ Towards(e, f), g = Deeper(f)
  PROVE  Towards(e, g)
BY DEF Towards, Leads, Closed, IsDeeper

LEMMA PrintedNext ==
  ASSUME DiagnosticsType, NEW e \in Exceptions, NEW f \in Exceptions, NEW g \in Exceptions,
         e = f \/ Printed(e, f), g = Inner(f)
  PROVE  Printed(e, g)
<1>1. IsPrintedNext(f, g)
  BY InnerIsPrinted
<1> QED BY <1>1 DEF Printed, Leads, Closed

\* A set that the chain does not leave has all that Python prints.
LEMMA ChainHasAll ==
  ASSUME DiagnosticsType, NEW U, U \subseteq Exceptions, NEW e \in U,
         \A x \in U : Inner(x) \in U \cup {None},
         NEW f \in Exceptions, Printed(e, f)
  PROVE  f \in U
<1>1. \A x \in U, y \in Exceptions : IsPrintedNext(x, y) => y \in U
  BY InnerIsPrinted, DiagnosticsAssumption
<1> QED BY <1>1 DEF Printed, Leads, Closed

\* None of this changes while the walk goes on.
LEMMA FailureStays ==
  ASSUME UNCHANGED failure
  PROVE  /\ raised' = raised /\ link' = link /\ status' = status /\ frame' = frame
         /\ \A e : Inner(e)' = Inner(e) /\ Deeper(e)' = Deeper(e)
         /\ \A e, f : Towards(e, f)' <=> Towards(e, f)
         /\ \A e, f : Printed(e, f)' <=> Printed(e, f)
<1>1. raised' = raised /\ link' = link /\ status' = status /\ frame' = frame
  BY DEF failure
<1>2. \A e : Inner(e)' = Inner(e) /\ Deeper(e)' = Deeper(e)
  BY <1>1 DEF Inner, Deeper
<1>3. \A e, f : Towards(e, f)' <=> Towards(e, f)
  BY <1>2 DEF Towards, Leads, Closed, IsDeeper
<1>4. \A e, f : Printed(e, f)' <=> Printed(e, f)
  BY <1>1 DEF Printed, Leads, Closed, IsPrintedNext
<1> QED BY <1>1, <1>2, <1>3, <1>4

LEMMA DiagnosticsBegins == DiagnosticsInit => DiagnosticsInv
<1> SUFFICES ASSUME DiagnosticsInit PROVE DiagnosticsInv
  OBVIOUS
<1>1. /\ raised \in Exceptions /\ walk = raised /\ seen = {} /\ root = None /\ summary = None
      /\ DiagnosticsType
  BY DEF DiagnosticsInit, Raising, DiagnosticsType
<1> QED BY <1>1
     DEF DiagnosticsInv, LookingForRoot, RootIsInnermost, LookingForFrame, FromRaised,
         CauseAndLineAreNamed

LEMMA GoDeeperStep ==
  ASSUME DiagnosticsInv, GoDeeper
  PROVE  DiagnosticsInv'
<1>1. /\ root = None /\ Deeper(walk) \notin {None, walk} /\ walk' = Deeper(walk)
      /\ seen' = seen \cup {walk} /\ UNCHANGED failure /\ root' = root /\ summary' = summary
  BY DEF GoDeeper
<1>2. DiagnosticsType /\ walk \in Exceptions /\ summary = None /\ FromRaised(walk)
      /\ \A x \in seen : Towards(x, walk)
  BY <1>1 DEF DiagnosticsInv, LookingForRoot
<1>3. PICK u \in Exceptions, w \in Exceptions : u = walk /\ w = Deeper(walk)
  BY <1>1, <1>2, NextType
<1>4. raised \in Exceptions /\ seen \subseteq Exceptions
  BY <1>2 DEF DiagnosticsType
<1>5. Towards(raised, w) /\ Towards(u, w)
  BY <1>2, <1>3, <1>4, TowardsNext DEF FromRaised
<1>6. \A x \in seen : Towards(x, w)
  BY <1>2, <1>3, <1>4, TowardsNext
<1>7. walk' = w /\ seen' = seen \cup {u}
  BY <1>1, <1>3
<1>8. LookingForRoot'
  <2>1. FromRaised(walk)'
    BY <1>1, <1>5, <1>7, FailureStays DEF FromRaised
  <2>2. \A x \in seen' : Towards(x, w)'
    BY <1>1, <1>5, <1>6, <1>7, FailureStays
  <2> QED BY <1>1, <1>2, <1>7, <2>1, <2>2 DEF LookingForRoot
<1>9. DiagnosticsType'
  BY <1>1, <1>2, <1>3, <1>4, <1>7, FailureStays DEF DiagnosticsType
<1> QED BY <1>1, <1>2, <1>8, <1>9
     DEF DiagnosticsInv, RootIsInnermost, LookingForFrame, CauseAndLineAreNamed

\* What is named, once it is known that the chain has no frame or that one of it has.
LEMMA NamedIsRight ==
  ASSUME DiagnosticsType, UNCHANGED failure, NEW r \in Exceptions, NEW where,
         FromRaised(r), Deeper(r) \notin {None, r} => Towards(r, r),
         where # None =>
            where \in Exceptions /\ frame[where] /\ (where \in {raised, r} \/ Printed(raised, where)),
         frame[r] => where = r,
         Deeper(r) = None /\ where = None =>
            \A e \in Exceptions : e \in {raised, r} \/ Printed(raised, e) => ~frame[e],
         summary' = [root |-> r, where |-> where]
  PROVE  CauseAndLineAreNamed'
<1> DEFINE inView == {raised, r} \cup {e \in Exceptions : Printed(raised, e)}
<1>1. summary'.root = r /\ summary'.where = where
  OBVIOUS
<1>2. raised \in Exceptions
  BY DEF DiagnosticsType
<1>3. \A e \in Exceptions : e \in inView <=> e \in {raised, r} \/ Printed(raised, e)
  OBVIOUS
<1>4. inView \subseteq Exceptions
  BY <1>2
<1>5. inView = {raised', r} \cup {e \in Exceptions : Printed(raised, e)'}
  BY FailureStays
<1> HIDE DEF inView
<1>6. ASSUME Deeper(r) = None PROVE (where = None) = (\A e \in inView : ~frame[e])
  <2>1. CASE where = None
    <3>1. \A e \in inView : ~frame[e]
      BY <1>3, <1>4, <1>6, <2>1
    <3> QED BY <2>1, <3>1
  <2>2. CASE where # None
    <3>1. where \in inView /\ frame[where]
      BY <1>3, <2>2
    <3>2. ~(\A e \in inView : ~frame[e])
      BY <3>1
    <3> QED BY <2>2, <3>2
  <2> QED BY <2>1, <2>2
<1>7. where # None => where \in inView /\ frame[where]
  BY <1>3
<1>8. (r = raised \/ Towards(raised, r)) /\ (Deeper(r) \notin {None, r} => Towards(r, r))
  BY DEF FromRaised
<1>9. /\ Deeper(r)' = Deeper(r) /\ frame' = frame /\ raised' = raised
      /\ Towards(raised, r)' <=> Towards(raised, r)
      /\ Towards(r, r)' <=> Towards(r, r)
  BY FailureStays
<1> QED BY <1>1, <1>5, <1>6, <1>7, <1>8, <1>9 DEF CauseAndLineAreNamed

LEMMA RootFoundStep ==
  ASSUME DiagnosticsInv, RootFound
  PROVE  DiagnosticsInv'
<1>1. /\ root = None /\ (walk \in seen \/ Deeper(walk) \in {None, walk})
      /\ root' = walk /\ walk' = raised /\ seen' = {walk} /\ UNCHANGED failure
      /\ IF frame[walk] THEN summary' = [root |-> walk, where |-> walk] ELSE summary' = summary
  BY DEF RootFound, Summarize
<1>2. /\ DiagnosticsType /\ walk \in Exceptions /\ summary = None /\ FromRaised(walk)
      /\ \A x \in seen : Towards(x, walk)
  BY <1>1 DEF DiagnosticsInv, LookingForRoot
<1>3. PICK r \in Exceptions : r = walk
  BY <1>2
<1>4. FromRaised(r) /\ (Deeper(r) \notin {None, r} => Towards(r, r)) /\ raised \in Exceptions
  BY <1>1, <1>2, <1>3 DEF DiagnosticsType
<1>5. root' = r /\ walk' = raised /\ seen' = {r} /\ raised' = raised /\ frame' = frame /\ r # None
  BY <1>1, <1>3, FailureStays, DiagnosticsAssumption
<1>6. DiagnosticsType'
  BY <1>1, <1>2, <1>4, <1>5, FailureStays DEF DiagnosticsType
<1>7. RootIsInnermost'
  <2>1. FromRaised(r)' <=> FromRaised(r)
    BY <1>1, FailureStays DEF FromRaised
  <2>2. Deeper(r)' = Deeper(r) /\ (Towards(r, r)' <=> Towards(r, r))
    BY <1>1, FailureStays
  <2> QED BY <1>4, <1>5, <2>1, <2>2 DEF RootIsInnermost
<1>8. CASE frame[r]
  <2>1. summary' = [root |-> r, where |-> r]
    BY <1>1, <1>3, <1>8
  <2>2. CauseAndLineAreNamed'
    BY <1>1, <1>2, <1>4, <1>5, <1>8, <2>1, NamedIsRight
  <2>3. summary' # None => root' # None /\ summary'.root = root'
    BY <1>5, <2>1
  <2>4. LookingForFrame'
    <3> SUFFICES ASSUME summary' = None PROVE FALSE
      BY DEF LookingForFrame
    <3>1. [root |-> r, where |-> r] \in [root : Exceptions, where : Exceptions \cup {None}]
      OBVIOUS
    <3> QED BY <2>1, <3>1, DiagnosticsAssumption
  <2> QED BY <1>5, <1>6, <1>7, <2>2, <2>3, <2>4 DEF DiagnosticsInv, LookingForRoot
<1>9. CASE ~frame[r]
  <2>1. summary' = None
    BY <1>1, <1>2, <1>3, <1>9
  <2>2. LookingForFrame'
    <3>1. \A x \in (seen' \cup {walk'}) \ {None} : InView(x)'
      BY <1>5 DEF InView
    <3>2. Deeper(root)' = None => Inner(r)' = None
      BY <1>5, DiagnosticsAssumption DEF Deeper
    <3> QED BY <1>5, <1>9, <3>1, <3>2 DEF LookingForFrame
  <2> QED BY <1>5, <1>6, <1>7, <2>1, <2>2 DEF DiagnosticsInv, LookingForRoot, CauseAndLineAreNamed
<1> QED BY <1>8, <1>9

LEMMA LookAtFramesStep ==
  ASSUME DiagnosticsInv, LookAtFrames
  PROVE  DiagnosticsInv'
<1>1. /\ root # None /\ summary = None /\ walk \notin seen \cup {None}
      /\ IF frame[walk] THEN summary' = [root |-> root, where |-> walk] /\ UNCHANGED <<walk, seen>>
         ELSE walk' = Inner(walk) /\ seen' = seen \cup {walk} /\ summary' = summary
      /\ UNCHANGED failure /\ root' = root
  BY DEF LookAtFrames, Summarize
<1>2. /\ DiagnosticsType /\ RootIsInnermost /\ walk \in Exceptions
      /\ root \in seen /\ raised \in seen \cup {walk}
      /\ \A x \in seen : ~frame[x]
      /\ \A x \in (seen \cup {walk}) \ {None} : InView(x)
      /\ Deeper(root) = None => \A x \in seen : Inner(x) \in seen \cup {walk, None}
  BY <1>1 DEF DiagnosticsInv, LookingForFrame, DiagnosticsType
<1>3. PICK r \in Exceptions, w \in Exceptions : r = root /\ w = walk
  BY <1>1, <1>2 DEF DiagnosticsType
<1>4. /\ root' = r /\ raised' = raised /\ frame' = frame /\ r # None /\ w # None
      /\ raised \in Exceptions /\ seen \subseteq Exceptions /\ walk \in Exceptions
  BY <1>1, <1>2, <1>3, FailureStays, DiagnosticsAssumption DEF DiagnosticsType
<1>5. FromRaised(r) /\ (Deeper(r) \notin {None, r} => Towards(r, r))
  BY <1>1, <1>2, <1>3 DEF RootIsInnermost
<1>6. RootIsInnermost'
  <2>1. FromRaised(r)' <=> FromRaised(r)
    BY <1>1, FailureStays DEF FromRaised
  <2>2. Deeper(r)' = Deeper(r) /\ (Towards(r, r)' <=> Towards(r, r))
    BY <1>1, FailureStays
  <2> QED BY <1>4, <1>5, <2>1, <2>2 DEF RootIsInnermost
<1>7. CASE frame[w]
  <2>1. summary' = [root |-> r, where |-> w] /\ walk' = walk /\ seen' = seen
    BY <1>1, <1>3, <1>7
  <2>2. w \in {raised, r} \/ Printed(raised, w)
    BY <1>2, <1>3, <1>4 DEF InView
  <2>3. ~frame[r] /\ w # None
    BY <1>2, <1>3, <1>4
  <2>4. CauseAndLineAreNamed'
    BY <1>1, <1>2, <1>5, <1>7, <2>1, <2>2, <2>3, NamedIsRight
  <2>5. summary' # None
    <3>1. [root |-> r, where |-> w] \in [root : Exceptions, where : Exceptions \cup {None}]
      OBVIOUS
    <3> QED BY <2>1, <3>1, DiagnosticsAssumption
  <2>6. DiagnosticsType'
    BY <1>1, <1>2, <1>4, <2>1, FailureStays DEF DiagnosticsType
  <2> QED BY <1>4, <1>6, <2>1, <2>4, <2>5, <2>6
       DEF DiagnosticsInv, LookingForRoot, LookingForFrame
<1>8. CASE ~frame[w]
  <2>1. walk' = Inner(w) /\ seen' = seen \cup {w} /\ summary' = None
    BY <1>1, <1>3, <1>8
  <2>2. Inner(w) \in Exceptions \cup {None}
    BY <1>2, NextType
  <2>3. DiagnosticsType'
    BY <1>1, <1>2, <1>4, <2>1, <2>2, FailureStays DEF DiagnosticsType
  <2>4. \A x \in (seen' \cup {walk'}) \ {None} : InView(x)'
    <3>1. \A x : InView(x)' <=> InView(x)
      BY <1>1, <1>4, FailureStays DEF InView
    <3>2. Inner(w) # None => InView(Inner(w))
      <4> SUFFICES ASSUME Inner(w) # None PROVE InView(Inner(w))
        OBVIOUS
      <4>1. PICK i \in Exceptions : i = Inner(w)
        BY <2>2
      <4>2. CASE w = raised
        BY <1>2, <1>4, <4>1, <4>2, PrintedNext DEF InView
      <4>3. CASE Printed(raised, w)
        BY <1>2, <1>4, <4>1, <4>3, PrintedNext DEF InView
      <4>4. CASE w = root
        BY <1>1, <1>2, <1>3, <4>4
      <4> QED BY <1>2, <1>3, <1>4, <4>2, <4>3, <4>4 DEF InView
    <3> QED BY <1>2, <1>3, <2>1, <3>1, <3>2
  <2>5. Deeper(root)' = None => \A x \in seen' : Inner(x)' \in seen' \cup {walk', None}
    <3>1. Deeper(r)' = Deeper(r) /\ \A x : Inner(x)' = Inner(x)
      BY <1>1, FailureStays
    <3>2. Deeper(r) = None => \A x \in seen : Inner(x) \in seen \cup {w, None}
      BY <1>2, <1>3
    <3>3. Deeper(root)' = Deeper(r)
      BY <1>4, <3>1
    <3> QED BY <2>1, <3>1, <3>2, <3>3
  <2>6. LookingForFrame'
    BY <1>2, <1>3, <1>4, <1>8, <2>1, <2>4, <2>5 DEF LookingForFrame
  <2> QED BY <1>4, <1>6, <2>1, <2>3, <2>6
       DEF DiagnosticsInv, LookingForRoot, CauseAndLineAreNamed
<1> QED BY <1>7, <1>8

LEMMA NoFrameStep ==
  ASSUME DiagnosticsInv, NoFrame
  PROVE  DiagnosticsInv'
<1>1. /\ root # None /\ summary = None /\ walk \in seen \cup {None}
      /\ summary' = [root |-> root, where |-> None]
      /\ UNCHANGED failure /\ walk' = walk /\ seen' = seen /\ root' = root
  BY DEF NoFrame, Summarize
<1>2. /\ DiagnosticsType /\ RootIsInnermost
      /\ root \in seen /\ raised \in seen \cup {walk}
      /\ \A x \in seen : ~frame[x]
      /\ Deeper(root) = None => \A x \in seen : Inner(x) \in seen \cup {walk, None}
  BY <1>1 DEF DiagnosticsInv, LookingForFrame
<1>3. PICK r \in Exceptions : r = root
  BY <1>1, <1>2 DEF DiagnosticsType
<1>4. /\ root' = r /\ raised' = raised /\ r # None
      /\ raised \in Exceptions /\ raised \in seen /\ seen \subseteq Exceptions
  BY <1>1, <1>2, <1>3, FailureStays, DiagnosticsAssumption DEF DiagnosticsType
<1>5. FromRaised(r) /\ (Deeper(r) \notin {None, r} => Towards(r, r))
  BY <1>1, <1>2, <1>3 DEF RootIsInnermost
<1>6. RootIsInnermost'
  <2>1. FromRaised(r)' <=> FromRaised(r)
    BY <1>1, FailureStays DEF FromRaised
  <2>2. Deeper(r)' = Deeper(r) /\ (Towards(r, r)' <=> Towards(r, r))
    BY <1>1, FailureStays
  <2> QED BY <1>4, <1>5, <2>1, <2>2 DEF RootIsInnermost
<1>7. Deeper(r) = None =>
        \A e \in Exceptions : e \in {raised, r} \/ Printed(raised, e) => ~frame[e]
  <2> SUFFICES ASSUME Deeper(r) = None, NEW e \in Exceptions,
                      e \in {raised, r} \/ Printed(raised, e)
               PROVE  e \in seen
    BY <1>2
  <2>1. CASE e \in {raised, r}
    BY <1>2, <1>3, <1>4, <2>1
  <2>2. CASE Printed(raised, e)
    <3>1. \A x \in seen : Inner(x) \in seen \cup {None}
      BY <1>1, <1>2, <1>3
    <3> QED BY <1>2, <1>4, <2>2, <3>1, ChainHasAll
  <2> QED BY <2>1, <2>2
<1>8. ~frame[r]
  BY <1>2, <1>3
<1>9. CauseAndLineAreNamed'
  BY <1>1, <1>2, <1>3, <1>5, <1>7, <1>8, NamedIsRight
<1>10. summary' # None /\ summary'.root = r
  <2>1. [root |-> r, where |-> None] \in [root : Exceptions, where : Exceptions \cup {None}]
    OBVIOUS
  <2> QED BY <1>1, <1>3, <2>1, DiagnosticsAssumption
<1>11. DiagnosticsType'
  BY <1>1, <1>2, FailureStays DEF DiagnosticsType
<1> QED BY <1>4, <1>6, <1>9, <1>10, <1>11 DEF DiagnosticsInv, LookingForRoot, LookingForFrame

LEMMA DiagnosticsInductive ==
  DiagnosticsInv /\ [DiagnosticsNext]_diagnosticsVars => DiagnosticsInv'
<1> SUFFICES ASSUME DiagnosticsInv, [DiagnosticsNext]_diagnosticsVars PROVE DiagnosticsInv'
  OBVIOUS
<1>1. CASE GoDeeper
  BY <1>1, GoDeeperStep
<1>2. CASE RootFound
  BY <1>2, RootFoundStep
<1>3. CASE LookAtFrames
  BY <1>3, LookAtFramesStep
<1>4. CASE NoFrame
  BY <1>4, NoFrameStep
<1>5. CASE UNCHANGED diagnosticsVars
  <2>1. /\ UNCHANGED failure /\ walk' = walk /\ seen' = seen /\ root' = root
        /\ summary' = summary
    BY <1>5 DEF diagnosticsVars
  <2>2. /\ raised' = raised /\ link' = link /\ status' = status /\ frame' = frame
        /\ \A e : Inner(e)' = Inner(e) /\ Deeper(e)' = Deeper(e)
        /\ \A e, f : Towards(e, f)' <=> Towards(e, f)
        /\ \A e, f : Printed(e, f)' <=> Printed(e, f)
    BY <2>1, FailureStays
  <2>3. DiagnosticsType' /\ LookingForRoot' /\ RootIsInnermost' /\ LookingForFrame'
    BY <2>1, <2>2
       DEF DiagnosticsInv, DiagnosticsType, LookingForRoot, RootIsInnermost, LookingForFrame,
           FromRaised, InView
  <2>4. {e \in Exceptions : Printed(raised, e)'} = {e \in Exceptions : Printed(raised, e)}
    BY <2>2
  <2>5. CauseAndLineAreNamed'
    BY <2>1, <2>2, <2>4 DEF DiagnosticsInv, CauseAndLineAreNamed
  <2> QED BY <2>1, <2>3, <2>5 DEF DiagnosticsInv
<1> QED BY <1>1, <1>2, <1>3, <1>4, <1>5 DEF DiagnosticsNext

\* Of exceptions of any number, linked in any way, in circles too.
THEOREM FailureIsNamed == DiagnosticsSpec => []CauseAndLineAreNamed
<1>1. DiagnosticsInv => CauseAndLineAreNamed
  BY DEF DiagnosticsInv
<1> QED BY <1>1, DiagnosticsBegins, DiagnosticsInductive, PTL DEF DiagnosticsSpec
=============================================================================
