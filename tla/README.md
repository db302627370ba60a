# Verification of qs: the queue server

qs is a single-process HTTP service that runs Bluesky plans from a queue. This directory holds
TLA+ models of the parts of qs whose correctness depends on the order in which threads,
requests, failures and restarts happen, the TLC configurations that check them, and TLAPS
proofs of the main safety properties for every value of the constants. Paths below are
relative to `src/src/qs` of the repository.

Contents: [the system](#the-system) · [modules](#modules) · [how the models correspond to the
code](#how-the-models-correspond-to-the-code) · [what the runs check](#what-the-runs-check) ·
[disagreements found](#disagreements-between-code-and-documentation) · [what is
proved](#what-is-proved) · [what is not modelled](#what-is-not-modelled-and-why) ·
[plan](#plan) · [running it](#running-it)

## The system

| Component | State | Operations | Interacts with |
|---|---|---|---|
| Sequencer (`sequencer/sequencer.py`) | `_running`, `_stop_pending`, `_autostart`, `_loop_mode`, `_closing`, `_running_item`, `_pending_history`; its own thread | loop (poll, pop, run, record), start, stop, cancel, autostart, loop mode, execute now, close | queue service, engine host, event bus; called by the HTTP thread |
| Queue service (`queue/service.py`) | revision counter, an RLock | add, add batch, update, remove, move, clear, pop, push front, history | repository; called by HTTP thread and sequencer |
| Persistence (`persistence/`) | queue table with dense positions, history table, device definitions | one transaction per method | database |
| Engine host (`engine/host.py`) | engine thread, command queue, state, directive, current item, last outcome | submit, run plan, pause, resume, abort/stop/halt, device calls, shutdown | RunEngine (external), sequencer, HTTP thread |
| Events and streams (`engine/events.py`, `api/streams.py`, `api/routers/ws.py`) | subscribers; a bounded queue per websocket | emit, subscribe, deliver | every publisher; websocket clients |
| Status (`api/status.py`) | last counts, stall clock | snapshot, stall alarm | reads every other component |
| Device progress (`engine/progress.py`) | per-device progress | waiting hook | engine thread, event bus |
| Console (`api/console.py`) | ring of messages, revision | write, read, incremental read | every logger, HTTP thread |
| Devices and registry (`devices/`, `registry/`) | definitions table, live registry | create, update, delete, instantiate, remove | engine thread, registry, status uid |
| Runtime (`runtime/`) | the configuration, what has been built so far | merge settings, load the profile, build, serve, close | constructs and closes every other component |
| Profile sources (`sources/`) | a namespace while a profile loads | patch and run its files, import it, or read a database; find plans, devices, the engine | run on the engine thread; fill the registry |
| HTTP plumbing and authentication (`api/`) | none | find a credential, check it, answer | every route and socket |
| Diagnostics (`diagnostics.py`, `errors.py`) | none | name the root cause and the profile's line | engine host, sequencer, runtime |
| Command line (`cli/qsctl.py`) | none | one request, or one after another (`watch`) | the API, over HTTP |

Threads: the event loop serves HTTP requests one at a time (handlers do not await while they
work), `qs-sequencer` runs the loop, `qs-engine` runs plans. What is hard:

- requests change the queue and its flags while the loop is between two of its own steps;
- some fields are guarded by `Sequencer._lock`, some by nothing (`_pending_history`);
- the database can go away between any two transactions, also in the middle of one call;
- the process can die at any moment; the tables survive and the fields do not;
- the engine thread hands its state to the HTTP thread in two steps (state, then directive);
- a status document is read field by field while the other threads go on;
- any step of the construction can fail with two threads already running;
- the process ends while two threads, neither of which keeps it alive, are at any of their steps;
- a client leaves, gives up waiting, or asks twice, and the service is not told.

What makes each component correct:

- *Sequencer*: an accepted item runs at most once and is never lost except by a process death,
  or an `exit()`, while it runs; its outcome reaches the history, in run order; a failure stops the queue until
  someone has it run again; a stop lets at most one more item begin; nothing waits in vain.
- *Queue service and tables*: the table is a list at every commit; items land where the client
  asked; moves disturb no other item; the revision changes when the list does.
- *Engine host*: a plan of the sequencer is never refused by a busy engine; the outcome is known
  to whoever reads "idle"; every plan is answered; a directive acts on the pause it was meant for.
- *Status and streams*: what was announced is shown; "idle" is true.
- *Console and progress*: no printed text is lost, doubled or out of order; a client that polls or
  reads a socket catches up; a device that was reported as done is not moving again.
- *Devices*: a live device is what its stored definition says; devices of the profile are never
  touched; the uid clients poll follows; an item is run with what its names meant.
- *Stall alarm*: a plan that has stopped collecting is reported, once.
- *Runtime*: nothing half built serves; no one waits for ever; a stop ends the process, and cuts
  nothing but a plan that goes on for too long.
- *Profile sources*: a profile does what it does in IPython; what it has is what is offered.
- *Authentication and sockets*: the API and the sockets serve the same clients; progress comes once and in
  order; a client that leaves leaves nothing behind.
- *Diagnostics*: the cause that is named is the innermost one, and the profile's part is not hidden.
- *Command line*: what it says was done was done; what is typed again is done once, unless nobody could
  know whether it had been done.

`PROJECT.json` lists each hazard at its line with the properties that are about it.

## Modules

| Module | Role |
|---|---|
| `Sequencer` | the loop thread, the control requests, outages, restarts |
| `QueueContract` | abstract: what a run queue promises, with neither threads nor code |
| `QueueTable` | the queue table: what one transaction does to the positions (operators only) |
| `QueueList` | abstract: the queue as a list, the repository protocol |
| `QueueService` | the queue calls as transactions under the service's lock, with the router's move/batch |
| `EngineHost` | the engine thread, its command queue, pauses and directives, interrupts, shutdown |
| `StatusMonitor` | extends `Sequencer` with the status snapshot and the socket that sends it |
| `DeviceService` | device definitions, the devices built from them, and the requests on both |
| `ItemResolution` | extends `DeviceService` with an item whose arguments are resolved meanwhile |
| `ConsoleCapture` | threads that print, the ring of messages, the poll and the socket that read it |
| `ProgressWatcher` | the waiting hook and the callbacks of the statuses it watches |
| `StallAlarm` | the alarm of the status document, beside plans that collect, pause and end |
| `Monitoring` | the three together |
| `Startup` | the layers of settings and the construction of a process, with their failures |
| `ProfileSource` | loading a profile, line by line, from each of the three kinds of sources |
| `Shutdown` | how a process ends, beside an item at any step of its way through the two threads |
| `Diagnostics` | which exception, and which line, the headline of a failure names |
| `Sockets` | a client's credential, and one websocket (status or info) from accept to close |
| `Qsctl` | the command line at one end of a connection, the service at the other |
| `Python` | what the last six share: `None`, and the `for` loop |
| `MCService` | these six in one instance |
| other `MC...` | instances for TLC: each extends a module and defines its symmetry sets |
| `SequenceLemmas` | facts about sequences (injectivity, ranges of head, tail, append, remove); induction over the turns of a loop |
| `SequencerProofs`, `EngineHostProofs`, `QueueServiceProofs`, `StatusMonitorProofs` | TLAPS proofs about the module of that name |
| `DeviceServiceProofs` | about `DeviceService` and `ItemResolution` |
| `MonitoringProofs` | about `ConsoleCapture`, `ProgressWatcher` and `StallAlarm`, beside one another |
| `ServiceProofs` | about `Startup`, `ProfileSource`, `Shutdown`, `Diagnostics`, `Sockets` and `Qsctl` |

Composition: `StatusMonitor` EXTENDS `Sequencer` and runs beside every step of it;
`QueueService` EXTENDS `QueueTable`; `ItemResolution` EXTENDS `DeviceService` and runs beside
every step of it; `Monitoring` EXTENDS `ConsoleCapture`, `ProgressWatcher` and `StallAlarm`; `MCService`
EXTENDS the six modules about a process and its clients. The six share no variable, and meet only where one begins
after another has ended (`Startup` and `Shutdown`) or stands for the other's detail (`LoadProfile` of
`Startup` for `ProfileSource`); a behaviour of `MCService` is one of one of them, chosen at
the start, with the others at theirs. `Sequencer` instantiates `QueueContract` and `QueueService`
instantiates `QueueList`, each with a refinement mapping.

## How the models correspond to the code

**Steps.** A step is the code between two points where another thread can act: one database
transaction, one critical section of a lock, or one access to a field no lock protects. Nothing
that the code does after such a point is left to a later, optional action. Handlers of the event
loop never await while they work, so the HTTP thread is one process that finishes a request
before it begins the next; its steps still interleave with those of the other threads.

**`Sequencer`.** `pc[Loop]` is the place in `_loop`, `_should_run`, `_run_one`, `_record`;
`pc[Http]` the place in `queue_start`. `queue` and `history` are the tables, the other variables
the fields of the same name. `flush_pending_history` is three actions (`FlushRead`,
`FlushAppend`, `FlushDrop`) taken by either thread, since both run it and no lock protects the
list. The code holds `_lock` across a database read in one place only (`queue_start` counting
the items), which is `LockFree`. A database that is down makes the call raise; where the code
catches, the model goes on along the handler, where it does not (`pop_front` and `len` in the
loop) the thread goes to `"dead"`. So it does when a plan, its factory or a device calls `exit()`
(`SeqExits`): `SystemExit` is no `Exception`, the engine thread hands it over in the future, and
`_run_one` raises it again (lines 285-287). The thread is gone, `_running` is still true, the item
has no history row (it is in `lost`), the engine still says running, and the process goes on: a stop that is accepted
then stays pending and nothing more is taken until the next start of the process. `StopHonoured`,
`EveryRunIsRecorded` and `AutostartTakesItems` say what they promise up to that point. `Restart` is the death of the process and its next start: the
tables stay, every field has the value of `__init__`. The engine is only idle or running here;
`EngineHost` models what is behind it. Auxiliary variables (`submitted`, `withdrawn`, `handed`,
`lost`, `authority`, `sinceStop`, `overlapped`) record the past and appear in no guard, with one exception:
`submitted` keeps a uid from being used twice, as uuid4 does in the code.

**`QueueService`.** `rows` maps a uid to its position, `call` is the request in progress with the
step of the code it has reached. `Take`, `Insert`, `PutBack`, `Replace`, `ClearTable` are the transactions;
`Bump` is `_bump` at the end of a change; `"gap"` is the place between two moves of move/batch,
one where a request is in progress and the service's lock is free. Each route of
`routers/queue.py` is an action; `queue/get` is two reads (`QueueGet`, `TakeRevision`) without the lock. The sequencer's
`PopFront` and `LoopAdd` are one transaction each and come wherever the lock is free.

**`EngineHost`.** `pc[Eng]` follows `_run_loop`, `_run_plan_on_thread`, `_handle_pause` and
`_wait_directive`; `pc[Ctl]` follows the handlers (`_interrupt`, `_set_directive`,
`call`); `pc[Seq_]` follows `_should_run`, `run_plan` and `.result()`. The RunEngine is external:
it is modelled by what `host.py` relies on, namely that it is idle, running or paused, that a
call which starts or resumes a plan returns, raises, or raises `RunEngineInterrupted`, and that
`abort`, `stop` and `halt` end what is running or paused; a plan that calls `exit()` raises what is no
`Exception` (`Fatal`): the item is cleared, no outcome is kept, the state stays running, and the future
gives it to the sequencer, whose thread ends. `took.pause` and `intent.pause` are
auxiliary: they say in which pause a request was accepted; so is `ended`, the plan that came to an
outcome last, noted before it is kept.

**`StatusMonitor`.** `reader` is the place in `_status_body` and `snapshot()`; each field read
from another thread is one action, in the code's order. `Emitted` gives the kinds of the events
that follow a step and `StatusChangeKinds` is the set of `events.py`. An event is on its way
(`call_soon_threadsafe`), then in the socket's queue; the model keeps whether there is one and
not how many, because the document depends on the state alone.

**`DeviceService`.** `call.todo` is the list of steps the request has still to make; a step
commits and goes on, or raises (`Refuse`) and leaves what was done. `Restart` brings any other
profile and any set of definitions that cannot be built.

**`ItemResolution`.** `_substitute` asks the registry twice for each string, each time under its
lock: `HasDevice` and `GetDevice`. `DeviceStep` is any step of `DeviceService` between them.
`meant` is auxiliary: what each name has been in the registry since the item was taken.

**`StallAlarm`.** The count, the clock and the state are read in that order; `ReadTotal` is the
first and `Decide` the rest, so a plan may end or begin between them. The engine's thread is
modelled by what changes the count. One tick of the clock is one period of the status socket, so
a document is built at least once a tick; `begun`, `quietFrom`, `news` and `meanwhile` are auxiliary.

**`Startup`.** Of a setting the model keeps the layer it came from, and the settings are the three
that say where the profile is, and a port that stands for the rest. `main` follows `main()`,
`list_plans` and `build_application`; `engineThread` follows `_run_loop` with the loading
of the profile as its only command. Each step of the construction that can raise may raise.

**`ProfileSource`.** A line of a profile is what it does: bind a name to an engine, a device or a
plan, import `get_ipython` in one of three forms, use the shell that it returns, be a magic, raise,
or call `exit()`. `Patched` is what `patch_profile_code` makes of a line and `Effect` what the result does;
`scope.shell` is what `get_ipython` is bound to. `ExecFile` is one file of a startup directory, whose
namespace goes on to the next; `ImportModule` and `LoadDatabase` are the other two sources. A loop of the
code is `ForEach`, with the body of the loop as its step. The loop over a registry ends silently at the first device
that raises (`Enumerated`). `todo` is the set of files still to run, of which the
first in lexical order is next. `Loaded`
is `load_result` with the engine that `_load_source_on_thread` then adopts or creates. What IPython would
do is stated without running anything: by the places of the lines in their files (`At`, `Before`), all files of the
directory and not only those that the code selects, the first place at which the code stops, and the last one before
it that binds a name. `LoadsAsIPythonDoes` is about directories of `.py` files; that IPython runs `.ipy` files too is
what `RunsWhatIPythonRuns` shows. A magic in a `.py` file, which IPython refuses and this code comments out, counts as a
line that does nothing.

**`Shutdown`.** `stage` follows `manager/stop`, the server that returns when the last response
is written, and `Application.close` with its two joins. `loop` and `worker` follow the two threads in less
detail than `Sequencer` and `EngineHost`, which have no end of the process, and `item` says
where each item is, so that one lost between two places shows; that of a plan that called `exit()` is `"exited"`, and the
loop's thread over (`LoopExits`). Only a plan takes ten seconds: this
is what `TimedOut` says.

**`Diagnostics`.** An exception has a cause or a context, which `from None` suppresses; a
`FailedStatus` carries another. Exceptions may form a circle. A turn of the loop of `root_cause` is
`GoDeeper`, one of the loop of `user_frame` (with `_chain`) is `LookAtFrames`; `walk` and `seen` are
their local variables. They are compared with what leads to what: an exception leads to those in every set that
holds what comes next and that what comes next does not lead out of (`Leads`).

**`Sockets`.** `FromHeadersAndQuery` and `Authenticate` serve the routes and both sockets; a first message
(`WithMessage`) the sockets alone. `Authenticate` gives a principal or what is raised: `hmac.compare_digest` raises a
`TypeError` for a text that is not ASCII, which a route answers with 401 like any other exception, and which the
socket does not catch: `Crash` is the end of a handler that raised, when the server closes the socket (1011, not 4401 or 4001).
A binary frame does the same in place of the first message (`BinaryFirst`), and ends the task that reads later (`BinaryLater`).
`phase` is the place in `_authenticate`, `_serve` and the body of the socket. An event goes from the
bus's callback (`Publish`, on the engine's thread) by `scheduled`, the callbacks of
`call_soon_threadsafe`, to the bounded queue (`Deliver`). `drain` is the task that notices that the
client has left. `told` records the events whose callback was called.

**`Qsctl`.** A request is in `pending` until the service gets to it, whether or not
qsctl still waits. A reply is the form of its body and the line it is shown in: `get_principal`
answers with another form than the routes, and the handler of unexpected errors with a third (`InternalError`), after a change
was committed or before: an add reads the database again for its reply, a start counts the items after it has set the
flag. A connection can break at any moment, before the request is there or after it was carried out (`StopWaiting`);
one that cannot be made sends nothing (`Unreachable`). `performed` records the changes that were carried out,
`doubt` that an answer was of a kind that leaves this open.

**`ConsoleCapture`.** A text is its pieces, each but the last ended by a newline; a line is the
pieces it is made of, so that a lost or doubled piece shows. `feed` is one step for its critical
section, and for each line `AppendLine` (the critical section of `_append`) and `EmitLine`. `uid`
is counted where the code draws a uuid4: only equality is used. The three reads of
`console_output_update` are three steps, since the threads that print do not stop for them;
`DeliverLine` and `SendLine` run on the same event loop as the handler and never in the middle of
it. The printing threads are those beside the event loop. `appended`, `newest` and `slipped`
record the past.

**`ProgressWatcher`.** `hook` is the place of the engine's thread in `__call__`, `update` and
`completion` those of the two callbacks of each status. What a callback has computed before it
takes the lock (`sawDone`) and the map it has copied and not yet emitted (`snapshot`) are its own.
A status may finish before the hook reaches it, may not support `watch()` and may refuse a
completion callback; a wait may end while some of its statuses still move, as one that fails ends
it for all. The throttle may or may not suppress an update that says nothing final.

## What the runs check

Eight runs pass; each finishes in two minutes or less. Four end in a counterexample
([below](#disagreements-between-code-and-documentation)).

| Run | Question | Bounds |
|---|---|---|
| `sequencer_healthy` | Does the loop, with all requests, implement `QueueContract`? Are stops honoured, outcomes written, autostart effective, up to a plan that calls `exit()`? | 2 items, 3 exits (success, abort, fail), 1 restart, no outage; fair |
| `sequencer_faults` | What survives outages, restarts and a changing experiment: each item handed out once, nothing runs unauthorised, stop takes effect; is each run in the history or on its way there, once and in order? | 2 items, 2 outages, 1 restart |
| `queue` | Is the table a list under every mix of calls, pops and failures; do items land where asked; what can a failure lose? | 4 items, batches of 2 or 3, positions -2..2, no change begins after 4 others of its process, 1 failure |
| `host` | Never refused, outcome with idle, every plan answered, be it by `exit()` | 2 plans, 2 pauses, device calls, shutdown |
| `status` | Announced is shown, idle is true, an ended item goes | 1 item (and its run, stop, failure, loop) |
| `devices` | Live is as defined, profile untouched, uid follows; an item gets what its names meant | 2 names, 3 versions, 2 failures; items with 1 or 2 names, one after another |
| `monitoring` | Is no text lost or out of order, does the newest line reach the socket; does done stay done; is a quiet plan reported, and once? | 2 printing threads, 2 texts of up to 2 lines, ring of 2, socket queue of 1; 2 statuses; 2 plans, 6 ticks, alarm after 2 |
| `service` | Can something half built serve, or a start wait for ever; is a profile loaded as in IPython, and what it has offered; does a stop end the process, and what does it cut; is a failure named rightly; do API and sockets serve the same clients, is progress complete, does a client that leaves leave anything; is a repeated command done once? | every set of 3 + 1 settings in each layer; files of 2 and 1 lines (`SmallContents`), 2 entries; 2 items; 3 exceptions, 1 `FailedStatus`; 3 events, queue of 2; 2 tries, 2 changes |

What each property says, and where it could go wrong, is in the comment above it in the module. The type
invariants that no run lists (`TypeOK`, `MonitorTypeOK`, `MonitoringTypeOK`, `ResolutionTypeOK`,
`ShutdownTypeOK`) hold in the same instances; `TypeCorrect` and the inductive invariants prove four of them.

**Why these bounds are enough.** In the queue loop the races are between the item at hand, the
next item and an entry held in memory. Two items with two outages are the smallest instance in
which an entry is held, a second item is taken, and the flush of the first fails again, and one
in which an item waits behind the one that runs, or has run before it. One restart at any point covers "before" and "after" of each commit. For the queue, four items are
a batch of three and the item it is placed after, or a batch of two, its place and one more that must not be disturbed; positions
-2..2 reach both ends of such a queue from both sides. For the host, two pauses of one plan and
two plans separate a directive meant for this pause, for the next, and for the pause of another
plan. For devices, two names let a request on one meet a profile that defines the other, and three
versions let a definition be replaced, and replaced again after a failed request; two names in
one item may be the same or different. The status run needs one
item: the document shows at most one item and a count. For the console, two texts of two lines
overflow a ring of two and a queue of one, and two threads are what it takes to come between the
two critical sections of a line; console, progress and alarm share no variable, so `MCMonitoring` runs
each while the others have nothing to do. Six ticks let two plans in a row each be quiet for
longer than the alarm waits. For the process and its clients: two lines and one in a second file let a binding
be replaced, an import come before a use and a file depend on another; two items let one be in hand while one
is queued; three exceptions let the root be reached through one that is neither it nor the one raised, and
form a circle that the one raised is not part of; three events overflow a queue of two; two tries are one repetition. Clients
come to a socket before or after events, and the credentials are all combinations of a header, two parameters
of the query and a first message, of texts that are the key, another one, or not ASCII: all of them are tried where events are used up, and all interleavings of events and
a client that leaves with one credential, since no step after `Admit` depends on it. `Startup` has no counter to
bound.

**Symmetry** of items or names is used in the runs whose properties have no temporal operator
other than `[]`; `sequencer_healthy`, `host`, `status` and `service` use none.

**Deadlock.** The models with bounded resources (every item used, the service closed) really do
stop; their configurations say `CHECK_DEADLOCK FALSE`. `DeviceService` never stops and is checked
for deadlock.

**Fairness.** `sequencer_healthy`: weak fairness of a request that has begun, of the plan (plans end
or are interrupted) and of the database's return; strong fairness of the loop thread, because its
critical sections compete for `_lock` with requests that take it again and again, and a thread
that wants a free lock infinitely often gets it. `host`: weak fairness of each thread and of
the RunEngine, none of the client: so a paused plan may wait for ever, which `PlanAnswered`
allows and names. `status`: strong fairness of the socket's task and of the delivery callback,
because asyncio serves tasks in turn however many requests arrive, weak fairness of the rest.
`service`: weak fairness of main and of the engine's thread while it loads, that is, the profile's code comes to an
end; at the end, of main, of the sequencer's thread and of the engine's taking its next command, but not of a plan's end; of the
socket's coroutine, the delivery callback and the task that reads, which the event loop runs in turn. None of what
stops the service, publishes an event or closes a socket.
Clients are never assumed to send anything.

## Disagreements between code and documentation

Each of the four violation runs checks one sentence of a comment or docstring, and TLC finds an
execution of the model in which the code does otherwise.

- **`fault_kills_the_loop`** (`sequencer.py:222`, `:254`). The module says "A fault here (a
  database error, a bad item) stops the queue and is reported". `pop_front` and `len(self._queue)`
  are called outside any `try`: when the database is down the exception ends the thread, and
  `queue_running` stays true in the status. (A plan that calls `exit()` has the same effect, through
  lines 285-287; the property leaves that case out.)
- **`flush_by_two_threads`** (`sequencer.py:151`). "The outcome is not lost: it is held here and
  written when the database returns". `queue_start` and `_record` flush at the same time: both
  write entry 0, both `pop(0)`, and the second pop takes an entry nobody wrote.
- **`stop_kills_the_plan`** (`runtime/compose.py:46`). "the running plan is left to finish"
  (`manager/stop`) and "Does not abort a running plan" (`EngineHost.shutdown`). `Application.close` waits ten
  seconds for each of two daemon threads, and `main` returns: a plan that is longer, or paused, dies with
  the process, and the history has no row of it. `OnlyLongPlansAreCut` is what holds.
- **`qsctl_says_ok`** (`cli/qsctl.py:239`). The README of qs: "exits 1 when qs refuses or cannot be reached"; the
  docstring: "exits 1 when the server answers ``success: false`` or cannot be reached"; the test:
  "Failures come back as exit code 1 with the server's message, not a traceback". A request without the right key is answered with `{"detail": ...}`; having no
  `success`, it counts as one, and qsctl prints `ok`, or `(queue empty)`.

Twenty-nine more properties that the modules state have counterexamples, kept for whoever changes this code. They
are weaker statements, consequences of one above, or sentences that can be read in two ways. The
first column is the configuration that shows it: one of its own, or that of a run, in which the property
takes the place of those listed ("as `Host`").

| Configuration | Property | What TLC shows |
|---|---|---|
| `SequencerAutostartAfterFailure` | `NothingRunsUntilAHumanStarts` | with autostart on, the next item runs after a failure: the docstring's "until a human starts it again" holds only if enabling autostart counts |
| `SequencerUnrecorded` | `NothingRunsUnrecorded` | an entry can be held while a later item runs: "The queue stops so nothing runs unrecorded" is undone by autostart, or by a start that races with the hold |
| `SequencerUnsynced` | `NeverStartsUnsynced` | the experiment is checked when autostart is enabled, not when autostart starts the queue |
| `SequencerEmptyRace` | `IdleOnlyWhenEmpty` | an add and a start between the empty pop and the critical section are undone by it: the queue is not empty and goes idle |
| `SequencerStaleStop` | `StopPendingOnlyWhileRunning` | the hold clears the running flag and leaves a stop pending: the next start withdraws it, but autostart does not, and the run that it begins ends after one item |
| `SequencerTwoOutages` | `WrittenInRunOrder` | an outage that begins before the held entry is flushed and ends before the next item is recorded leaves the first held and writes the second: the history has them in the wrong order |
| as `Queue` | `RevisionTracksTheQueue` | a refused move has put its item at the back without a new revision |
| as `Queue` | `AnswerIsCurrent` | `queue/get` reads the items, then the revision: a pop in between gives the old list the new uid |
| as `Host` | `ControlNeverWaits` | "so a control request never waits behind the plan that is blocking the engine thread": instantiating a device waits on the event loop, without a timeout, for the engine thread (`devices/service.py:119`); while the plan is paused only a request could end the wait, and none is served |
| as `Host` | `DirectivesActOnTheirPause` | the state is still `paused` until the thread has woken up, so a second resume is stored and acts on the next pause |
| as `Host` | `RefusedOnlyWithoutPlan` | `_interrupt` reads the state twice; a plan that resumes or pauses in between refuses the interrupt though it is on |
| as `Host` | `PausedIsPaused` | the engine is asked whether it is paused before the state is set; an abort in between leaves `paused` with no pause |
| as `Status` | `NoIdleBeforeOutcome` | the history is counted before the flag is read: a document can say idle without the outcome |
| as `Devices` | `FailedCreateLeavesNothing` | a create whose instance cannot be built is refused although its definition is stored |
| as `Devices` | `NoBareNameDuringUpdate` | an item resolved while an update has taken its device away gets the name, not the device |
| as `Devices` | `SameNameSameDevice` | two arguments of one name get the device before and after an update |
| as `Monitoring` | `StalledMeansNothingCollected` | short plans that collect nothing, with no document built between them, are one long silence to the alarm: the second is called stalled as it begins |
| as `Monitoring` | `UidMeansSeen` | the messages are copied before the uid is read: a line appended in between is not in the answer, and the client that polls with that uid gets nothing until another line is printed |
| as `Monitoring` | `OnlyTheWaitInTheMap` | a callback that gets the lock after the wait has cleared the map puts its device back, to be shown in the next wait |
| as `Monitoring` | `CompletedIsLast` | the same callback, or one that had left the lock, publishes progress after `completed: True` |
| `StartupDirectory` | `LaterEntriesWin` | "Everything can be set three ways; later entries win", flags last: `--startup-module` and `--happi-path` set the kind of the profile with its place, `--startup-dir` does not (`runtime/main.py:53`): where another layer names another kind, the directory is stored and the other profile loaded |
| `ServiceClaims` (with `MCService`) | `AlwaysPatched` | an import of `get_ipython` with a comment after it, or in parentheses, keeps IPython's own, which returns `None` in this process |
| `ServiceClaims` | `RunsWhatIPythonRuns` | "The files IPython would run for this startup directory": IPython runs `.ipy` files as well, which are skipped |
| `ServiceClaims` | `WholeRegistryOffered` | "include what it holds": a device of the registry that raises ends the enumeration without a word, and those behind it are not offered |
| `ServiceClaims` | `ClosedWithItsCode` | "Bad credentials close with 4401 (api key) or 4001 (token)": one that is not ASCII raises a `TypeError` that `_authenticate` does not catch, and a binary first frame a `KeyError` |
| `ServiceClaims` | `CreatedOnlyIfNone` | a profile's engine that has two names, neither of them `RE`, is not adopted: a new one is created beside it |
| `DiagnosticsDeepest` | `DeepestLineIsNamed` | "innermost first, then outwards": after the root, the chain goes from the exception that was raised inwards, so an outer line is named before an inner one |
| as `ShutdownKillsThePlan` | `StopEndsAnyway` | the server waits for the responses that are open: a client that reads the console as a stream keeps the process from ending |
| as `QsctlSaysOk` | `ErrorMeansNotDone` | after thirty seconds qsctl prints "cannot reach qs" and exits with 1; the service carries out the request all the same (likewise where the connection breaks, or an error comes after the commit) |

## What is proved

TLAPS checks these for every value of the constants that the named assumptions allow: any finite
or infinite set of items, any number of outages, restarts, plans, pauses, names, versions and tries, batches and arguments of any length, any positions. The
assumptions (`SequencerAssumption`, `HostAssumption`, `DeviceAssumption`, `ShutdownAssumption`,
`QsctlAssumption`, `StartupAssumption`, `ServiceAssumption`, `CallAssumption`, `ProfileAssumption`, `DiagnosticsAssumption`) say that the bounds are natural numbers, flags are Boolean, the exceptions at hand are finitely many, and that `None` is not one of the values it stands beside; TLC
evaluates each in the runs of its module. The others are as plain: `NoneIsNothing` (`None` is neither a header nor a key),
`ConsoleAssumption` (a printing thread is called neither `"ring"` nor `"pending"`, the two other places of a line), and
`StallAssumption`, `ResolutionAssumption`, `ProgressAssumption` and `SocketsAssumption`. One theorem, `KeepsTheContract`, has a hypothesis, `MaxOutages = 0`: what it states is promised only while the
database answers, and two of the [disagreements](#disagreements-between-code-and-documentation) show how it breaks when
it does not. `MonitorSpec` has no outage by its definition, for the same reason.

| Theorem | States |
|---|---|
| `TypeCorrect` | `Sequencer!TypeOK`: types, and that a thread holds what the place it is at needs |
| `Authorised` | `RunsOnlyWhenAuthorised`: stop-and-wait |
| `StopWorks` | `StopTakesEffect`: at most one item after a stop |
| `ExactlyOnce` | `HandedOutOnce`: an item is in one place, and handed out once |
| `KeepsTheContract` | `ImplementsContract`: the threads and requests refine `QueueContract`, if the database answers |
| `RunOrderRecorded` | `HistoryIsTheRunOrder`: what is in the history, held and in hand is each item that was handed out, once, but for those that a restart or `exit()` took; up to a second outage in the order of the runs |
| `NeverRefused` | `PlanNotRefused`: the engine is still idle when the sequencer submits |
| `OutcomeKnown` | `OutcomeWithIdle`: a state that says idle has the outcome of the last plan beside it |
| `AsDefined` | `LiveIsAsDefined`: a live device is the stored, enabled definition |
| `PlansGetTheirDevices` | `ResolvedAsRegistered`: an item gets what its names meant while it was resolved |
| `ProfileSafe` | `ProfileNeverTouched`: an action property |
| `UidCurrent` | `UidTracksTheDevices`: who has the current uid knows the devices |
| `PositionsStayDense` | `PositionsDense`: positions 0, 1, ..., whatever transactions, failures and restarts |
| `TableIsTheList` | `ImplementsList`: the table of positions refines the list, through failures and restarts |
| `PlacedRight` | `PlacedWhereAsked`: an item lands where the client asked, for every form of the position |
| `BatchInOrder` | `BatchStaysTogether`: a moved batch, of any length, stays together in its order |
| `FewAreLost` | `EachFailureLosesAtMostOne`: a failure loses one item at most, and nothing else loses any |
| `OnlyWhenBuilt` | `ServesOnlyWhenBuilt`: a request is served only by a process that is whole |
| `LongPlansOnly` | `OnlyLongPlansAreCut`: what the end of the process can lose |
| `RouteAndSocketAgree` | `BothAnswerAlike`: routes and sockets serve the same credentials, wherever the client put them |
| `ProgressIsKept` | `ProgressArrivesInOrder`: progress reaches an info socket once and in order, unless its queue was full |
| `WaitingClientIsUpToDate` | `AnnouncedIsShown`: a client that is left waiting has seen every announced change |
| `IdleIsNeverWrong` | `IdleIsTrue`: an action property; a document that says idle is right |
| `DoneIsFinal` | `DoneStaysDone`: an action property; a finished status is not moving again in its wait |
| `QuietIsReported`, `WarnsOnce` | `QuietPlanIsReported`, `OneWarningPerQuiet`: a quiet plan is reported, and once |
| `PrintedIsKept` | `NothingLostOrDoubled`: each printed piece is in one line, and in one only |
| `TextsStayInOrder` | `LinesOfATextInOrder`: the lines of a text keep their order in the ring and at the socket |
| `NewestArrives` | `NewestIsSent`: a socket that has caught up has sent the newest line |
| `ProfileLoadsAsIPythonDoes` | `LoadsAsIPythonDoes`: any number of `.py` files, each of any number of lines, end as in IPython and leave the same names |
| `ProfileOffersWhatIsThere` | `OffersWhatIsThere`: the plans and devices of any module or database are offered, those of a registry up to the first that raises, and the right engine is adopted |
| `FailureIsNamed` | `CauseAndLineAreNamed`: the root is the innermost of any chain, and the profile's line is not hidden |
| `OnceUnlessInDoubt` | `RepeatedOnlyInDoubt`: a command typed again is done once, unless it was left open whether it had been done |

**The argument for the sequencer.** `RunsOnlyWhenAuthorised` is not inductive: after a failure the
loop goes through several steps before it clears the flag, so one must know why the flag may still
be set without authority. `SafetyInv` adds `RunningWhileBusy` (while the loop takes or runs an
item the flag is set: only the loop's own thread clears it), `RevokedOnlyWhileSettling` (the flag
is set without authority only on the way to the critical section that clears it, or when the
thread has died) and `CountedWhileStopPending` (items are counted against a stop only while it is
pending, and after the one that may still start the loop is not at the pop). `SafetyStep` shows that each
action keeps it. `HandedOutOnce` is inductive with `TypeOK`; its cases need that appending,
removing and taking the head keep a sequence injective and change its range as expected, which
are the lemmas of `SequenceLemmas`.

**The argument for the contract and the order.** `Undisturbed` says that while the database answers no outcome is
held in memory, no thread is between reading an entry and dropping it, and none has died: `hold`, `append` and `drop` are
not reached. `ContractStep` then has one step per action: a pop is the contract's `Take`, the end of a plan, or an
item that is refused, its `End`, `SeqRecord` its `Write`, `Restart` its `Crash`, an add or an execute its `Submit`, and what concerns only
the threads and their flags is a stutter or a `Permit`. That a take is permitted is part of `SafetyInv`; an item
lost by `exit()` is a `Crash` of the contract's runner, like a restart. For the order nothing is assumed of the database: `RunOrderStep`
follows `Ran`, the history with the held entries and the item in hand behind it. A pop appends to `Ran` and to
`handed` alike (`OrderAtBack`); holding, flushing and recording move an outcome on, from the hand to the held entries or the
history, and leave `Ran` as it is (`MoveOver`, `UnwrittenKept`), for which a thread must drop the entry that it has
written (`FlushesApart`); a restart takes what is held and in hand from its end, and `exit()` the item in hand (`WithoutEnd`), which are
then in `lost`. An item is recorded past held ones only when the database went between its flush and its
record, so that until a second outage this changes no order (`HeldSinceTheOutage`).

**The argument for the host.** `HostInv` = `TypeOK` ∧ `HandsOK` ∧ `OnePlan` ∧ `OutcomeKept`.
`OnePlan` says that a plan is in the command queue or on the engine thread, never two, and that
the sequencer then waits for its future; hence the state cannot leave idle while the sequencer is
between its poll and its submission; after an `exit()` the state says running with no plan on, and the
sequencer has died of the future or will. `OutcomeKept` says that `_last_outcome` is the outcome of the plan that ended
last at every place but the one where it is about to be stored, and that at none from the start of a plan to there is the
state idle; so the order of the two assignments is what it rests on. `HandsOK` says what each thread holds where
it is, without which types are not kept.

**The argument for devices.** `LiveIsAsDefined` is broken by no single step only because earlier
steps of the same request prepared it: `RequestOK` says that an instance is gone before its
definition is written or erased, and that the device about to be registered is the one the table
has. `Consistent` = `TypeOK` ∧ `LiveIsAsDefined` ∧ `RequestOK` is inductive.
An item is resolved beside all this by two questions for each name, and anything may happen to the registry between
them. `Remembered` adds that what the registry says now is among what it has said since the item began, and that
the name being fetched has meant a device; so what is given has been meant, and a refusal means that the
device was taken away (`PlansGetTheirDevices`).

**The argument for the queue.** `QueueInv` = `Table(rows)` ∧ (a call in progress `Knows` its record).
`RemovedIsDense`, `InsertedIsDense` and `PoppedIsDense` say that one transaction keeps a dense table
dense, provided the row removed is there and the row inserted is not. The calls do not test this
in the transaction: an update, a move and the later items of a batch rely on what was read
before. `Knows` says that they may, step by step, and `LoopKeeps` that the sequencer
cannot come between, since it needs the lock; a gap of `move/batch` is where it can, and there
the call relies on nothing. For the loss, `LossInv` bounds `Lost`, the items owed and neither in the table nor
in flight; an item in flight counts as lost from the moment the database is down, for then its call
can only fail, and so it is the outage that is charged and not the failing call. This needs the
types of calls (`QueueTyped`), since a call that goes on must not look like none.

**The argument for the list.** A dense table is a list: the row at place *p* of `ListOf` has position *p* - 1, since as many rows
are before it (`RowsBelow`, by the cardinality of intervals), and any sequence of which that is true is the list (`ListIs`). The lemmas about one transaction say what it does to that list (insert at an index,
remove, take the head), and `TableIsTheList` goes through the calls: a step that commits is an operation of
`QueueList` on the item that the call `Knows`, every other step leaves the list alone. For `PlacedRight`,
`PlaceInv` says that from the moment a call has computed its index until it inserts, the index stays the right one,
since the lock keeps the sequencer out, and that nothing comes between the insert and the bump;
`LandsWhereAsked` is the arithmetic of the five forms of a position, with negative indexes and those beyond an end.
For `BatchInOrder`, `BatchInv` says which item of its batch a move has come to, and that those it is done with
are in order. Taking a row out brings nothing between two others (`OrderRemoved`), and a new row comes between two only at
the place of the second (`OrderInserted`): that of the item in hand is behind the last one that was
moved, and the sequencer, which is let in between two moves, takes the first row or adds behind the last.

**The argument for the construction.** `StartupInv` follows what is built so far (`BuiltSoFar`), and
what the entry thread's future may hold (`FutureFits`), up to the place where the server starts.

**The argument for the end of the process.** `OnlyLongPlansAreCut` speaks of the last state alone.
`ShutdownInv` = `ShutdownTypeOK` ∧ `HandFits` ∧ `OnePlan` ∧ `OnlyLongLeft`. `HandFits` ties the items in hand to the
place of the sequencer's thread, `OnePlan` the plan to the command queue or the engine's thread, never two.
With these, main can pass the first join only with the sequencer's thread ended, when nothing
is in hand or a plan has called `exit()`, or with a plan on; after that no new item is taken, since `_closing` is set, and
`OnlyLongLeft` holds until the end.

**The argument for the status document.** A document is read field by field, and may be old before it is sent. `ReadIsCurrent` says: unless
an event is on its way or waits in the socket's queue, what has been read so far still holds, and what was sent
holds too. It is kept because each step of the service either emits an event that wakes the socket or changes none of
the fields (`UnannouncedChangesNothing`), for which one must know that an outcome enters the history only where the loop
records it (`WhereThingsHappen`). Idle is true because the engine runs a plan only while the loop waits for it
(`EngineIsWaitedFor`), and the loop is there only with the flag set (`SafetyInv`): a flag that is down when it is read says
that no plan has begun since the engine was looked at.

**The argument for console, progress and alarm.** The three share no variable, so each has an invariant of its own, and a
step of another leaves it alone. *Progress*: nothing is needed beside the types, since an update looks again at what was recorded
once it has the lock, and only the end of a wait clears the map.
*Alarm*: `AlarmInv` says what the count that was last read has to do with the plan's, for how long
it has been quiet, and that a count read while it changes can make the alarm late by the one tick that
`QuietPlanIsReported` allows (`Noticed`); `SinceTheWarning` says that after a warning the counts
stay equal until the plan does something. *Order*: the lines of a text are in one writer's hands until they
are appended and emitted, so what is coming from it is later than what is in the ring and at the socket
(`ComingInOrder`, `SocketInOrder`), and belongs to no other writer (`EachItsOwn`). Dropping the oldest line of a
full queue removes the head of a sequence, and keeps the order. *Nothing lost*: `HeldInv` gives each
piece its one place (who holds it, in which line, where in the line). Taking a newline ends the line that is pending
and hands it to the writer that found it, though another may have begun it: `FeedPlaces` and `FeedKeepsHeld` say where every
piece goes.

**The argument for the sockets.** A client that presents one credential has one way of presenting it (`OneOffer`), and what
`authenticate` makes of that is a principal exactly if it is the right one (`RightIsLetIn`). `AnswerInv` says that a
websocket which is past its decision was let in or refused accordingly (`AdmitDecides`), and that one which is not has got no first message yet. `ArrivalInv` is about one sequence, what
was sent, what waits and what is scheduled, one behind the other: publishing appends to it, delivering and sending leave it
as it is, and only what is not about progress goes from its middle; so its events are in order and those about progress are what
the callback was told (`Arriving`).

**The argument for the command line.** As long as there is no `doubt`, the service has at
most one request to get to, the last (`Known`), and a change it has carried out is the
last, too: its answer is on the way, or is an internal error that will leave doubt when it is printed, or qsctl has
exited with 0, after which nothing is typed again. A request that never arrived is withdrawn from `pending` before the next is sent.

**The argument for the profile.** `BetweenFiles` says that the scope *agrees* with the places that have been run: it is what
IPython would have after them (`Agrees`), if the imports are plain. One more line, patched, keeps this (`OneMoreLine`), a place
behind one that stops counts for nothing (`AfterAStop`), and so one more file keeps it (`OneMoreFile`), by induction over
its lines. `SetInduction` gets induction over the natural numbers as a statement about sets from the well-foundedness
of `<`, which needs no operator as a parameter; `TurnByTurn` is the same for the turns of a loop, and `LoopRuns` says that a
loop has a run, which is what the recursive function in `ForEach` is (`RunTurns`, `RegistryTurns`, `DatabaseTurns`). That a
registry replaces no device (`RegistryKeeps`), is enumerated up to the first that raises (`EnumeratedIs`) and that an entry of a database costs no other its
place (`DatabaseGives`) are inductions of the same form.

**The argument for the headline.** `DiagnosticsInv` follows the two walks. While the root is looked for, what has been seen
leads to where the walk is, so an exception that is met again is in a circle (`LookingForRoot`). While a frame is looked
for, what has been seen has none and leads to nothing but the next, so a walk that has come to its end has seen
all that Python prints (`LookingForFrame`, `ChainHasAll`).

**Only model-checked.** Eight properties of the passing runs are liveness, since fairness and ENABLED are outside
what TLAPS does here: `StopHonoured`, `EveryRunIsRecorded`, `AutostartTakesItems`, `PlanAnswered`, `EndedItemGoes`,
`StartEnds`, `StopEnds`, `LeavesNoTrace`. The four
violations are TLC's by nature. Every other property that a passing run lists is stated by a theorem.

## What is not modelled, and why

- *Clearing the history, the replies of requests that change the queue*: not yet; see the plan.
- *The text route of the console, the chained waiting hook, the figures of a progress report*: reads
  or data that no property is about.
- *A profile's own code* beyond the lines of `ProfileSource`: what it does elsewhere is its own.
- *Settings* other than those that choose the profile: they are copied, and one stands for them all.
- *HTTP plumbing* beyond the credential and the form of a reply: the routes for keys, which refuse, CORS, the smoke
  page, reading a payload. They keep no state.
- *Several sockets at once*: they share only the bus, which calls their callbacks one after the other.
- *The error catalogue* (`errors.py`), the logging filter: texts and codes.
- *SQLAlchemy and the database*: external. A transaction commits or raises. A commit whose answer
  is lost is not modelled: SQLite, the default, is in the same process.
- *The RunEngine*: external; modelled by what `host.py` relies on.
- *Validation and the content of items*, log lines, event payloads, the text of `last_error`,
  the summaries of qsctl: wording and formatting that no property is about.

## Plan

Done, in this order: `Sequencer` with `QueueContract` and its proofs; `QueueTable`, `QueueList`,
`QueueService`; `EngineHost` and its proofs; `StatusMonitor`; `DeviceService` and its proofs;
`ConsoleCapture`, `ProgressWatcher`, `StallAlarm` and `Monitoring`; `ItemResolution`; `Startup`;
`ProfileSource`, `Shutdown`, `Diagnostics`, `Sockets`, `Qsctl` and `MCService`; the proofs about the
end of the process, the command line, the construction and the queue.

Then the proofs of the refinements, of the order of the history, of the places in the queue, of the status document, of
console, progress and alarm, of the sockets, and of what an item is given. Then `ProfileSource` and `Diagnostics`
without bounds or recursive operators, and the proofs about them.

Next:

1. The requests that clear the history (`Sequencer`: an entry held in memory, and a clear) and the
   replies of the requests that change the queue, beside what the sequencer has done meanwhile.
2. How the outcome of a plan becomes a history entry (`_outcome_from_result`, `_record`, the states
   of `models.py`), as operators against a reference definition.
3. What survives of `HistoryIsTheRunOrder` when the two threads flush at once, once the code has a lock there.

## Running it

    tlc -config SequencerHealthy.cfg MCSequencer     (and likewise for each run of PROJECT.json)
    tlapm SequencerProofs.tla

The mutants of `PROJECT.json` replace one definition by a plausible bug in the code it models;
under each of them the run that is named finds the property violated.
