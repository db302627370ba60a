-------------------------------- MODULE Startup --------------------------------
(***************************************************************************)
(* How a process of the service starts: the settings it ends up with       *)
(* (runtime/config.py), what it builds from them, in which order           *)
(* (runtime/compose.py), and what becomes of a step that fails             *)
(* (runtime/main.py).  ProfileSource is what LoadProfile stands for here,  *)
(* and Shutdown begins where a process serves.                             *)
(*                                                                         *)
(* Settings come from a YAML file, the environment and the flags of the    *)
(* command.  Of a setting the model keeps which of these it came from.     *)
(* Main and the engine thread are two threads: Main hands the loading of   *)
(* the profile to the engine thread and waits for the future.              *)
(***************************************************************************)
EXTENDS Python

Kinds == {"ipython", "bits", "happi"}

\* The settings that say where plans and devices are, one for each kind.
Places == {"startup_dir", "startup_module", "happi_path"}

PlaceOf == [ipython |-> "startup_dir", bits |-> "startup_module", happi |-> "happi_path"]

\* Any setting that has no kind to go with it, such as the HTTP port.
Settings == Places \cup {"port"}

Layers == {"default", "file", "environment", "flags"}

\* None is none of the values that it stands beside.
ASSUME StartupAssumption ==
    None \notin Kinds \cup {"adopted", "created", "0"} \cup [kind : Kinds, layer : Layers]

VARIABLES
    file,         \* what the file sets, its kind included; None: there is none
    environment,  \* what the environment sets
    flags,        \* what the flags set
    listing,      \* --list-plans
    config        \* the Config so far: the kind, and where each setting came from

VARIABLES
    main,        \* where the main thread is
    engineThread,\* where the engine thread is
    future,      \* of the loading of the profile
    state,       \* EngineHost._state
    engine,      \* EngineHost._engine: None, the profile's or a new one
    source,      \* the kind of the profile that is loaded, and its layer
    tables,      \* the database has its tables
    sequencer,   \* the sequencer's thread runs
    exitCode     \* of the process, None while it runs

given == <<file, environment, flags, listing>>
parts == <<state, engine, source, tables, sequencer>>
vars == <<given, config, main, engineThread, future, parts, exitCode>>

Files == [kind : Kinds \cup {None}, sets : SUBSET Settings] \cup {None}

\* A type for every variable.
TypeOK ==
    /\ file \in Files
    /\ environment \in SUBSET {"startup_dir", "startup_module", "port"}
    /\ flags \in SUBSET Settings
    /\ listing \in BOOLEAN
    /\ config \in [kind : Kinds, from : [Settings -> Layers]]
    /\ main \in {"file", "environment", "flags", "host", "source", "await", "registry",
                 "tables", "devices", "sequencer", "serve", "shutdown", "exited"}
    /\ engineThread \in {"off", "waiting", "loading", "ended"}
    /\ future \in {"none", "pending", "result", "exception", "quit"}
    /\ state \in {"starting", "no_engine", "idle", "closed"}
    /\ engine \in {None, "adopted", "created"}
    /\ source \in [kind : Kinds, layer : Layers] \cup {None}
    /\ tables \in BOOLEAN /\ sequencer \in BOOLEAN
    /\ exitCode \in {None, "0", "1", "of the profile"}

Starting(files, inFlags) ==
    /\ file \in files
    /\ environment \in SUBSET {"startup_dir", "startup_module", "port"}
    /\ flags \in SUBSET inFlags
    /\ listing \in BOOLEAN
    /\ config = [kind |-> "ipython", from |-> [s \in Settings |-> "default"]]
    /\ main = "file" /\ engineThread = "off" /\ future = "none"
    /\ state = "starting" /\ engine = None /\ source = None
    /\ tables = FALSE /\ sequencer = FALSE /\ exitCode = None

Init == Starting(Files, Settings)

-----------------------------------------------------------------------------
(* load_config. *)

\* The configuration after a layer that sets these settings and this kind.
Overlaid(c, layer, sets, kind) ==
    [kind |-> IF kind = None THEN c.kind ELSE kind,
     from |-> [s \in Settings |-> IF s \in sets THEN layer ELSE c.from[s]]]

\* An exception that main() does not catch, or `return 1'.
GiveUp == main' = "exited" /\ exitCode' = "1" /\ UNCHANGED parts

\* _apply_file; a file that is missing or has an unknown key is an error.
ApplyFile ==
    /\ main = "file"
    /\ IF file = None
       THEN main' = "environment" /\ UNCHANGED <<config, exitCode, parts>>
       ELSE \/ /\ config' = Overlaid(config, "file", file.sets, file.kind)
               /\ main' = "environment"
               /\ UNCHANGED <<exitCode, parts>>
            \/ GiveUp /\ UNCHANGED config
    /\ UNCHANGED <<given, engineThread, future>>

\* The environment names the kind with the place; a module wins over a directory.
KindFromEnvironment ==
    IF "startup_module" \in environment THEN "bits"
    ELSE IF "startup_dir" \in environment THEN "ipython" ELSE None

\* _apply_environment; a port that is no number is an error, and only then.
ApplyEnvironment ==
    /\ main = "environment"
    /\ \/ /\ config' = Overlaid(config, "environment", environment, KindFromEnvironment)
          /\ main' = "flags"
          /\ UNCHANGED <<exitCode, parts>>
       \/ "port" \in environment /\ GiveUp /\ UNCHANGED config
    /\ UNCHANGED <<given, engineThread, future>>

\* main(): the kind that goes with the flags; --startup-dir does not name one.
KindFromFlags ==
    IF "startup_module" \in flags THEN "bits"
    ELSE IF "happi_path" \in flags THEN "happi" ELSE None

\* The overrides.
ApplyFlags ==
    /\ main = "flags"
    /\ config' = Overlaid(config, "flags", flags, KindFromFlags)
    /\ main' = "host"
    /\ UNCHANGED <<given, engineThread, future, parts, exitCode>>

-----------------------------------------------------------------------------
(* build_application, and list_plans, which goes the same way to begin with. *)

\* EngineHost.start
StartHost ==
    /\ main = "host"
    /\ engineThread' = "waiting" /\ state' = "no_engine"
    /\ main' = "source"
    /\ UNCHANGED <<given, config, future, engine, source, tables, sequencer,
                   exitCode>>

\* Mutant: the failure is logged, and main() goes on to serve.
NoReturn == main' = "serve" /\ UNCHANGED exitCode

\* A step of the construction raises.  The service gives up, without closing what it
\* has built; list_plans shuts the host down on the way out.
Fail == main' = (IF listing THEN "shutdown" ELSE "exited") /\ exitCode' = "1"

\* make_source, which refuses a kind without its place (bound: there are the three
\* kinds); then load_source.
MakeSource ==
    /\ main = "source"
    /\ IF config.from[PlaceOf[config.kind]] = "default"
       THEN Fail /\ UNCHANGED future
       ELSE main' = "await" /\ future' = "pending" /\ UNCHANGED exitCode
    /\ UNCHANGED <<given, config, engineThread, parts>>

\* The engine thread takes the command.
BeginLoading ==
    /\ engineThread = "waiting" /\ future = "pending"
    /\ engineThread' = "loading"
    /\ UNCHANGED <<given, config, main, future, parts, exitCode>>

\* Mutant: an exception of the profile ends the thread, and nobody is told.
NoAnswer == engineThread' = "ended" /\ UNCHANGED future

\* _run_loop gives every exception to the future; a profile that calls exit() raises
\* SystemExit, which the source does not turn into a RuntimeError.
AnswerException == engineThread' = "waiting" /\ future' \in {"exception", "quit"}

\* find_engine: a profile may bring an engine of its own, a happi database has none.
EngineOf(kind) == IF kind = "happi" THEN {"created"} ELSE {"adopted", "created"}

\* _load_source_on_thread: the profile's code runs, and an engine is made if it
\* brought none.
LoadProfile ==
    /\ engineThread = "loading"
    /\ \/ /\ engine' \in EngineOf(config.kind)
          /\ source' = [kind |-> config.kind, layer |-> config.from[PlaceOf[config.kind]]]
          /\ state' = "idle"
          /\ engineThread' = "waiting" /\ future' = "result"
       \/ AnswerException /\ UNCHANGED <<engine, source, state>>
    /\ UNCHANGED <<given, config, main, tables, sequencer, exitCode>>

\* future.result() in main, which catches an Exception and not a SystemExit.
TakeResult ==
    /\ main = "await" /\ future \in {"result", "exception", "quit"}
    /\ future' = "none"
    /\ CASE future = "result"    -> main' = "registry" /\ UNCHANGED exitCode
         [] future = "exception" -> Fail
         [] OTHER -> /\ main' = IF listing THEN "shutdown" ELSE "exited"
                     /\ exitCode' = "of the profile"
    /\ UNCHANGED <<given, config, engineThread, parts>>

\* Registry.load_from; list_plans prints what is there and is done.
FillRegistry ==
    /\ main = "registry"
    /\ IF listing THEN main' = "shutdown" /\ exitCode' = "0"
                  ELSE main' = "tables" /\ UNCHANGED exitCode
    /\ UNCHANGED <<given, config, engineThread, future, parts>>

\* Database, create_all: it raises if the database cannot be reached.
CreateTables ==
    /\ main = "tables"
    /\ \/ tables' = TRUE /\ main' = "devices" /\ UNCHANGED exitCode
       \/ Fail /\ UNCHANGED tables
    /\ UNCHANGED <<given, config, engineThread, future, state, engine, source, sequencer>>

\* instantiate_all_enabled: one bad device does not stop it, the database does.
InstantiateDevices ==
    /\ main = "devices"
    /\ \/ main' = "sequencer" /\ UNCHANGED exitCode
       \/ Fail
    /\ UNCHANGED <<given, config, engineThread, future, parts>>

\* Sequencer.start_thread, and the HTTP application.
StartSequencer ==
    /\ main = "sequencer"
    /\ sequencer' = TRUE
    /\ main' = "serve"
    /\ UNCHANGED <<given, config, engineThread, future, state, engine, source, tables, exitCode>>

-----------------------------------------------------------------------------
(* The way out of list_plans; how a process that serves stops is the module Shutdown. *)

\* EngineHost.shutdown: None in the command queue, and join.
EndThread == engineThread' = "ended"

ShutdownHost ==
    /\ main = "shutdown" /\ engineThread \in {"waiting", "ended"}
    /\ EndThread
    /\ state' = "closed"
    /\ main' = "exited"
    /\ UNCHANGED <<given, config, future, engine, source, tables, sequencer,
                   exitCode>>

-----------------------------------------------------------------------------
LoadConfig == ApplyFile \/ ApplyEnvironment \/ ApplyFlags

Build ==
    \/ StartHost \/ MakeSource \/ TakeResult \/ FillRegistry \/ CreateTables
    \/ InstantiateDevices \/ StartSequencer \/ ShutdownHost

EngineThread == BeginLoading \/ LoadProfile

Next == LoadConfig \/ Build \/ EngineThread

\* Main goes on by itself; that the profile's code ends is assumed.
Fairness == WF_vars(LoadConfig \/ Build) /\ WF_vars(EngineThread)

Spec == Init /\ [][Next]_vars /\ Fairness

-----------------------------------------------------------------------------
(* Properties. *)

\* Does this layer say where plans and devices are?
NamesPlace(layer) ==
    CASE layer = "flags"       -> flags \cap Places # {}
      [] layer = "environment" -> environment \cap Places # {}
      [] OTHER                 -> TRUE

Later(layer) ==
    CASE layer = "flags"       -> {}
      [] layer = "environment" -> {"flags"}
      [] OTHER                 -> {"environment", "flags"}

\* README.md:36: "Everything can be set three ways; later entries win".  The profile
\* that is loaded is one that the last layer to name any has named.
LaterEntriesWin ==
    source # None => \A layer \in Later(source.layer) : ~NamesPlace(layer)

\* main.py:86, "a profile that does not load is fatal on purpose": requests are
\* served only by a process that has an engine on a live thread, its tables and a
\* sequencer, and no process that failed to build one of them reports success, as
\* long as its profile does not call exit() with a code of its own.  A listing leaves no
\* engine thread behind, whatever the profile did.
ServesOnlyWhenBuilt ==
    /\ main = "serve" =>
         /\ engine # None /\ state = "idle" /\ engineThread = "waiting"
         /\ source # None /\ tables /\ sequencer
    /\ main = "exited" /\ exitCode = "0" => source # None
    /\ main = "exited" /\ listing /\ state # "starting"
         => state = "closed" /\ engineThread = "ended"

\* Every start that has its settings comes to serve or to an end, whatever the profile
\* raises: main never waits for a future that nobody resolves (host.py:163, "turns every
\* exception into a Future's result").
StartEnds == main = "host" ~> main \in {"serve", "exited"}
================================================================================
