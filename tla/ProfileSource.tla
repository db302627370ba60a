----------------------------- MODULE ProfileSource -----------------------------
(***************************************************************************)
(* How a profile is loaded: a startup directory whose files are patched    *)
(* and run one after the other in one namespace, a BITS module, or a happi *)
(* database; then what is found there, and the engine that is adopted.     *)
(*                                                                         *)
(* A line of code is what it does: it binds a name, imports get_ipython,   *)
(* uses the shell that get_ipython returns, is a magic, raises or exits.   *)
(* IPython's own get_ipython returns None in this process.                 *)
(***************************************************************************)
EXTENDS Naturals, Sequences, FiniteSets, Python

Engines == {"engine1", "engine2"}
Devices == {"device1", "device2"}
Names == {"RE", "a", "_a"}

ASSUME ProfileAssumption ==
    None \notin Engines \cup Devices \cup {"plan", "error", "SystemExit", "loaded"}

\* What a name can be bound to by a line of a profile.
Values(name) == IF name = "RE" THEN Engines ELSE Engines \cup {"device1", "plan"}

\* The forms of `from IPython import get_ipython': alone on its line, with a comment
\* after it, and with its names in parentheses on the next line.
Forms == {"plain", "commented", "wrapped"}

Bind(name, value) == [does |-> "bind", name |-> name, value |-> value]

Line == (UNION {{Bind(n, v) : v \in Values(n)} : n \in Names})
        \cup [does : {"import"}, form : Forms]
        \cup [does : {"magic", "use", "raise", "exit"}]

\* A name stands for its place in lexical order.
File == [name : Nat, suffix : {".py", ".ipy"}, lines : Seq(Line)]

Directories ==
    {files \in SUBSET File :
        IsFiniteSet(files) /\ \A f, g \in files : f.name = g.name => f = g}

VARIABLES
    content,   \* what the setting points to, by kind
    todo,      \* files of the directory still to run
    scope,     \* the namespace, its get_ipython, and what has been raised
    result     \* what load() has come to; while it runs, nothing has ended

profileVars == <<content, todo, scope, result>>

Empty == [ns |-> [n \in Names |-> None], shell |-> "patched", raised |-> None]

\* Devices of a registry, one of which may raise when it is asked for; and of a database.
Registered == [name : STRING, device : Devices, raises : BOOLEAN]
Entry == [name : STRING, active : BOOLEAN, loads : BOOLEAN]

Contents ==
    [kind : {"ipython"}, files : Directories]
    \cup [kind : {"bits"}, lines : Seq(Line), oregistry : Seq(Registered)]
    \cup [kind : {"happi"}, entries : Seq(Entry)]
    \cup [kind : {"missing"}]

Loads == [ended |-> None]

Loading(from) == content \in from /\ todo = {} /\ scope = Empty /\ result = Loads

ProfileInit == Loading(Contents)

-----------------------------------------------------------------------------
(* Running a profile's code. *)

\* Mutant: an import of get_ipython is left as it is.
NoPatch(line) == IF line.does = "magic" THEN [does |-> "comment"] ELSE line

\* patch_profile_code, line by line: a magic becomes a comment; to an import of
\* get_ipython that one line holds, a rebinding is appended, which after a comment is
\* part of it.
Patched(line) ==
    CASE line.does = "magic" -> [does |-> "comment"]
      [] line.does = "import" /\ line.form = "plain" -> [does |-> "rebind"]
      [] OTHER -> line

\* What a statement does; one that is not IPython's business is the profile's own.
Effect(s, statement) ==
    IF s.raised # None THEN s
    ELSE CASE statement.does = "bind"   -> [s EXCEPT !.ns[statement.name] = statement.value]
           [] statement.does = "import" -> [s EXCEPT !.shell = "real"]
           [] statement.does = "rebind" -> [s EXCEPT !.shell = "patched"]
           [] statement.does = "comment" -> s
           [] statement.does = "use" /\ s.shell = "patched" -> s
           [] statement.does = "exit"   -> [s EXCEPT !.raised = "SystemExit"]
           [] OTHER                     -> [s EXCEPT !.raised = "error"]

Run(s, statements) == ForEach(Effect, s, statements)

\* startup_files: none that is not plain Python.
StartupFiles(files) == {f \in files : f.suffix = ".py"}

Fails == result' = [ended |-> "error"]

\* IPythonProfileSource.load, up to the first file.
OpenDirectory ==
    /\ result = Loads /\ content.kind = "ipython" /\ todo = {}
    /\ IF StartupFiles(content.files) = {}
       THEN Fails /\ UNCHANGED todo
       ELSE todo' = StartupFiles(content.files) /\ UNCHANGED result
    /\ UNCHANGED <<content, scope>>

\* No directory, no such module, no database: each kind has an exception for it.
NotThere ==
    /\ result = Loads /\ content.kind = "missing"
    /\ Fails /\ UNCHANGED <<content, todo, scope>>

-----------------------------------------------------------------------------
(* What is found in the namespace. *)

Public(name) == name # "_a"

\* iter_devices and iter_plans: the names a client may use.
Found(ns, kinds) == [n \in {m \in Names : Public(m) /\ ns[m] \in kinds} |-> ns[n]]

\* find_engine: RE by convention, else the value of the only name that has an engine.
EngineIn(ns) ==
    LET names == {n \in Names : ns[n] \in Engines}
    IN IF "RE" \in names THEN ns["RE"]
       ELSE IF \E n \in names : names = {n} THEN ns[CHOOSE n \in names : TRUE] ELSE None

\* setdefault, for each device of the registry in turn.
WithDefault(devices, entry) ==
    IF entry.name \in DOMAIN devices THEN devices
    ELSE [n \in DOMAIN devices \cup {entry.name} |->
             IF n = entry.name THEN entry.device ELSE devices[n]]

\* LoadResult, and the engine the host installs: _load_source_on_thread.
Loaded(devices, plans, engine) ==
    [ended |-> "loaded", devices |-> devices, plans |-> plans,
     engine |-> IF engine = None THEN "created" ELSE engine]

\* An exception of the profile is raised as a RuntimeError; SystemExit is none.
Finish(s, devices) ==
    result' = IF s.raised # None THEN [ended |-> s.raised]
              ELSE Loaded(devices, DOMAIN Found(s.ns, {"plan"}), EngineIn(s.ns))

\* The next file in lexical order is compiled and run; after the last, load_result.
ExecFile ==
    /\ result = Loads
    /\ \E path \in todo :
         /\ \A f \in todo : path.name <= f.name
         /\ scope' = Run(scope, [i \in DOMAIN path.lines |-> Patched(path.lines[i])])
         /\ todo' = IF scope'.raised # None THEN {} ELSE todo \ {path}
    /\ IF todo' = {} THEN Finish(scope', Found(scope'.ns, Devices)) ELSE UNCHANGED result
    /\ UNCHANGED content

\* What is got out of all_devices: an exception on the way ends the loop, and no more.
Enumerated(oregistry) ==
    LET n == CHOOSE n \in 0..Len(oregistry) :
                /\ \A i \in 1..n : ~oregistry[i].raises
                /\ n < Len(oregistry) => oregistry[n + 1].raises
    IN SubSeq(oregistry, 1, n)

\* BitsInstrumentSource.load: the module is imported as it is (one that uses the shell
\* gets IPython's), and its oregistry is asked for devices the module has no name for.
ImportModule ==
    /\ result = Loads /\ content.kind = "bits"
    /\ scope' = Run([scope EXCEPT !.shell = "real"], content.lines)
    /\ Finish(scope', ForEach(WithDefault, Found(scope'.ns, Devices),
                              Enumerated(content.oregistry)))
    /\ UNCHANGED <<content, todo>>

\* Mutant: the load ends with the first bad entry.
StopAtFailure(devices, entry) ==
    IF ~entry.active \/ "a" \in DOMAIN devices THEN devices ELSE
    [n \in DOMAIN devices \cup {entry.name} |-> IF entry.loads THEN "device1" ELSE None]

\* One entry of the database: an inactive one is passed over, a bad one is logged.
LoadEntry(devices, entry) ==
    IF ~entry.active \/ ~entry.loads THEN devices
    ELSE [n \in DOMAIN devices \cup {entry.name} |-> "device1"]

\* HappiDatabaseSource.load; the plans are bluesky's.
LoadDatabase ==
    /\ result = Loads /\ content.kind = "happi"
    /\ result' = Loaded(ForEach(LoadEntry, <<>>, content.entries), {"count"}, None)
    /\ UNCHANGED <<content, todo, scope>>

ProfileNext == OpenDirectory \/ NotThere \/ ExecFile \/ ImportModule \/ LoadDatabase

ProfileSpec == ProfileInit /\ [][ProfileNext]_profileVars

-----------------------------------------------------------------------------
(* Properties. *)

Over(kind) == result # Loads /\ content.kind = kind

\* The places of the lines of a directory, .ipy files included, and IPython's order of them.
CodeLines(files) == UNION {{<<f, i>> : i \in DOMAIN f.lines} : f \in files}
At(place) == place[1].lines[place[2]]
Before(p, q) == p[1].name < q[1].name \/ (p[1].name = q[1].name /\ p[2] < q[2])

\* Where the profile would end among these places, which it would reach, and where it
\* would bind a name.
Stops(places) == {p \in places : At(p).does \in {"raise", "exit"}}
Reached(places) == {p \in places : \A q \in Stops(places) : ~Before(q, p)}
Bindings(places, name) == {p \in Reached(places) : At(p).does = "bind" /\ At(p).name = name}

Unusual(line) == line.does = "import" /\ line.form # "plain"

EndsWhereItStops(places, ended) ==
    IF Stops(places) = {} THEN ended = "loaded"
    ELSE \E p \in Stops(places) \cap Reached(places) :
             ended = IF At(p).does = "raise" THEN "error" ELSE "SystemExit"

HoldsTheLastBinding(places, ns) ==
    \A n \in Names :
        IF Bindings(places, n) = {} THEN ns[n] = None
        ELSE \E p \in Bindings(places, n) :
                 /\ \A q \in Bindings(places, n) : ~Before(p, q)
                 /\ ns[n] = At(p).value

\* What a profile came to is what IPython makes of its directory.
AsIPython(files) ==
    EndsWhereItStops(CodeLines(files), result.ended) /\ HoldsTheLastBinding(CodeLines(files), scope.ns)

\* The module's "the way IPython does for a profile": a directory of .py files alone, whose
\* imports of get_ipython are plain, ends as it would in IPython, with every name bound to
\* what the last line that binds it has bound it to, whatever uses of the shell its files
\* contain, and in whatever order the directory lists them.  A magic binds nothing and ends
\* nothing: it is passed over (in a .py file, IPython itself has a SyntaxError for it).
LoadsAsIPythonDoes ==
    Over("ipython") =>
        LET files == content.files IN
        /\ files # {} /\ \A f \in files : f.suffix = ".py"
        /\ \A p \in CodeLines(files) : ~Unusual(At(p))
        => AsIPython(files)

\* The devices that the registry of a module gives before one raises.
Given(oregistry) == {i \in DOMAIN oregistry : \A j \in 1..i : ~oregistry[j].raises}

\* What is offered is what is there.  An engine that has one name is adopted, and one
\* called RE before any other (else the engine of a run would not be the one that the
\* profile's callbacks subscribe to); the plans are those that a client may name; a device
\* of the module is offered, and not replaced by one of the registry, whose others are
\* offered up to the first that raises; a bad entry of a database costs no other its place.
OffersWhatIsThere ==
    result.ended = "loaded" =>
        /\ content.kind # "happi" =>
             LET engines == {n \in Names : scope.ns[n] \in Engines} IN
             /\ \A n \in Names : engines = {n} => result.engine = scope.ns[n]
             /\ "RE" \in engines => result.engine = scope.ns["RE"]
             /\ \A n \in Names : n \in result.plans <=> Public(n) /\ scope.ns[n] = "plan"
             /\ scope.ns["a"] \in Devices =>
                  "a" \in DOMAIN result.devices /\ result.devices["a"] = scope.ns["a"]
        /\ content.kind = "bits" =>
             \A i \in Given(content.oregistry) : content.oregistry[i].name \in DOMAIN result.devices
        /\ content.kind = "happi" =>
             DOMAIN result.devices =
                {content.entries[i].name : i \in {j \in DOMAIN content.entries :
                    content.entries[j].active /\ content.entries[j].loads}}

\* ipython_profile.py:95: "The files IPython would run for this startup directory".
RunsWhatIPythonRuns ==
    Over("ipython") /\ (\A p \in CodeLines(content.files) : ~Unusual(At(p))) =>
        AsIPython(content.files)

\* bits_instrument.py:39: "an ophyd-registry ("oregistry") as well; include what it holds".
WholeRegistryOffered ==
    result.ended = "loaded" /\ content.kind = "bits" =>
        \A i \in DOMAIN content.oregistry :
            ~content.oregistry[i].raises => content.oregistry[i].name \in DOMAIN result.devices

\* ipython_profile.py:78: "a line importing get_ipython from IPython gets get_ipython
\* rebound to the patched one afterwards (the profile then talks to FakeIPython)".
AlwaysPatched == Over("ipython") => scope.shell = "patched"

\* protocol.py:5: "it constructs one only when the source supplied none".
CreatedOnlyIfNone ==
    result.ended = "loaded" /\ result.engine = "created" =>
        \A n \in Names : scope.ns[n] \notin Engines
================================================================================
