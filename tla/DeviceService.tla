----------------------------- MODULE DeviceService -----------------------------
(***************************************************************************)
(* Device definitions and the devices built from them (devices/service.py, *)
(* registry/registry.py, persistence/device_repository.py and the routes   *)
(* of api/routers/qs_devices.py).                                          *)
(*                                                                         *)
(* A definition is a row of a table; a device is an entry of the Registry, *)
(* which the profile fills too and which a restart fills anew.  Requests   *)
(* are served one at a time, but each is several transactions and calls,   *)
(* any of which can fail and leave the earlier ones done; `todo' of the    *)
(* request is what it has still to do.  What a definition says is reduced  *)
(* to a version and whether it is enabled; importing its class and         *)
(* building the device succeed or raise.                                   *)
(***************************************************************************)
EXTENDS Integers, Sequences

CONSTANTS
    Names,        \* device names
    MaxVersions,  \* bound: definitions written
    MaxFailures,  \* bound: database outages and restarts, together
    None          \* Python's None

VARIABLES
    defs,      \* the table of definitions
    live,      \* Registry._devices
    call,      \* the request being served
    versions,  \* definitions written so far
    known,     \* what StatusReporter._registry_revision stands for: the devices
               \* when it was last bumped, which a client with that uid knows
    dbUp,      \* the database answers
    failures   \* outages and restarts so far

vars == <<defs, live, call, versions, known, dbUp, failures>>

Definition == [version : 1..MaxVersions, enabled : BOOLEAN]
Device == [origin : {"profile"}] \cup [origin : {"definition"}, version : 1..MaxVersions]
Profile == [origin |-> "profile"]

ASSUME DeviceAssumption ==
    /\ None \notin Definition /\ None \notin Device
    /\ MaxVersions \in Nat /\ MaxFailures \in Nat

Ops == {"create", "update", "delete", "instantiate", "remove"}
Steps == {"unregister", "validate", "save", "fetch", "register", "erase"}

\* new is the definition that create and update write, build whether the payload
\* asks for an instance; wasLive is the local variable of update_device.
Calls == [op : Ops, name : Names, new : Definition \cup {None},
          build : BOOLEAN, todo : Seq(Steps)]

\* A type for every variable.
TypeOK ==
    /\ defs \in [Names -> Definition \cup {None}]
    /\ live \in [Names -> Device \cup {None}]
    /\ call \in Calls \cup {None}
    /\ versions \in 0..MaxVersions
    /\ known \in [Names -> Device \cup {None}]
    /\ dbUp \in BOOLEAN /\ failures \in 0..MaxFailures

\* The first start: an empty table, and what the profile defines.
Init ==
    /\ defs = [n \in Names |-> None]
    /\ live \in [Names -> {Profile, None}]
    /\ known = live
    /\ call = None /\ versions = 0
    /\ dbUp = TRUE /\ failures = 0

-----------------------------------------------------------------------------
FromDefinition(n) == live[n] # None /\ live[n].origin = "definition"
FromProfile(n) == live[n] # None /\ live[n].origin = "profile"

\* Mutant: the refresh of the status is forgotten.
NoChange == UNCHANGED known

\* on_change: StatusReporter.bump_registry, after which clients read the devices.
OnChange == known' = live'

Begin(op, n, new, build, todo) ==
    /\ call = None
    /\ call' = [op |-> op, name |-> n, new |-> new, build |-> build, todo |-> todo]
    /\ UNCHANGED <<defs, live, known, dbUp, failures>>

\* POST /qs/devices
Create(n, enabled, build) ==
    /\ versions < MaxVersions /\ versions' = versions + 1
    /\ Begin("create", n, [version |-> versions', enabled |-> enabled], build,
             <<"validate", "save">>)

\* Mutant: the instance stays while the definition changes.
UpdateInPlace(n) == <<"validate", "save">>

\* PUT /qs/devices/{name}: an instance goes first.
UpdateSteps(n) ==
    IF FromDefinition(n) THEN <<"unregister", "validate", "save">>
    ELSE <<"validate", "save">>

Update(n, enabled, build) ==
    /\ versions < MaxVersions /\ versions' = versions + 1
    /\ Begin("update", n, [version |-> versions', enabled |-> enabled], build,
             UpdateSteps(n))

\* DELETE /qs/devices/{name}: get, then the instance, then the row.
Delete(n) ==
    /\ dbUp /\ defs[n] # None
    /\ Begin("delete", n, None, FALSE,
             IF FromDefinition(n) THEN <<"unregister", "erase">> ELSE <<"erase">>)
    /\ UNCHANGED versions

\* POST /qs/devices/{name}/instantiate
Instantiate(n) ==
    Begin("instantiate", n, None, TRUE, <<"fetch", "register">>) /\ UNCHANGED versions

\* POST /qs/devices/{name}/remove
Remove(n) ==
    Begin("remove", n, None, FALSE, <<"unregister">>) /\ UNCHANGED versions

Request ==
    \E n \in Names :
        \/ \E enabled, build \in BOOLEAN : Create(n, enabled, build) \/ Update(n, enabled, build)
        \/ Delete(n) \/ Instantiate(n) \/ Remove(n)

-----------------------------------------------------------------------------
(* The steps of a request. *)

At(step) == call # None /\ call.todo # <<>> /\ Head(call.todo) = step

Continue(todo) == call' = IF todo = <<>> THEN None ELSE [call EXCEPT !.todo = todo]

\* Registry.remove_device refuses a name that is unknown or the profile's.
Unregister ==
    /\ At("unregister")
    /\ FromDefinition(call.name)
    /\ live' = [live EXCEPT ![call.name] = None]
    /\ OnChange
    /\ Continue(Tail(call.todo))
    /\ UNCHANGED <<defs, versions, dbUp, failures>>

\* _validate, and the test that the definition is new (create) or known (update).
\* Importing the class may raise: see Refuse.
Validate ==
    /\ At("validate") /\ dbUp
    /\ ~FromProfile(call.name)
    /\ (call.op = "create") <=> (defs[call.name] = None)
    /\ Continue(Tail(call.todo))
    /\ UNCHANGED <<defs, live, versions, known, dbUp, failures>>

\* save_definition; an instance is built if the payload asks for it and the
\* definition is enabled.
Save ==
    /\ At("save") /\ dbUp
    /\ defs' = [defs EXCEPT ![call.name] = call.new]
    /\ UNCHANGED live /\ OnChange
    /\ Continue(IF call.build /\ call.new.enabled THEN <<"fetch", "register">> ELSE <<>>)
    /\ UNCHANGED <<versions, dbUp, failures>>

Erase ==
    /\ At("erase") /\ dbUp
    /\ defs' = [defs EXCEPT ![call.name] = None]
    /\ UNCHANGED live /\ OnChange
    /\ Continue(Tail(call.todo))
    /\ UNCHANGED <<versions, dbUp, failures>>

\* instantiate refuses a definition that does not exist or is disabled.
Buildable(n) == defs[n] # None /\ defs[n].enabled

\* instantiate: get, then the constructor on the engine thread.  It may raise: see
\* Refuse.
Fetch ==
    /\ At("fetch") /\ dbUp
    /\ Buildable(call.name)
    /\ call' = [call EXCEPT !.todo = Tail(@), !.new = defs[call.name]]
    /\ UNCHANGED <<defs, live, versions, known, dbUp, failures>>

\* Mutant: the origin of what is there is not looked at.
Replaceable(n) == TRUE

\* Registry.add_device refuses a name of the profile.
Addable(n) == ~FromProfile(n)

\* _construct_on_engine_thread, and the DeviceEntry around what it returns.
Built(d) == [origin |-> "definition", version |-> d.version]

Register ==
    /\ At("register")
    /\ Addable(call.name)
    /\ live' = [live EXCEPT ![call.name] = Built(call.new)]
    /\ OnChange
    /\ Continue(Tail(call.todo))
    /\ UNCHANGED <<defs, versions, dbUp, failures>>

\* The step raises, and the route reports it: a test fails, the database is down,
\* the class cannot be imported, the device cannot be built or connected.
Refuse ==
    /\ call # None
    /\ \/ At("unregister") /\ ~FromDefinition(call.name)
       \/ At("validate") \/ At("fetch")
       \/ At("register") /\ ~Addable(call.name)
       \/ ~dbUp /\ (At("save") \/ At("erase"))
    /\ call' = None
    /\ UNCHANGED <<defs, live, versions, known, dbUp, failures>>

-----------------------------------------------------------------------------
DbFail ==
    /\ dbUp /\ failures < MaxFailures
    /\ dbUp' = FALSE /\ failures' = failures + 1
    /\ UNCHANGED <<defs, live, call, versions, known>>

DbRecover ==
    /\ ~dbUp /\ dbUp' = TRUE
    /\ UNCHANGED <<defs, live, call, versions, known, failures>>

\* The process dies, or is stopped, and starts again with a profile that may have
\* changed: instantiate_all_enabled builds the enabled definitions that can be
\* built and that the profile leaves room for.  Clients reconnect and read anew.
Restart ==
    /\ failures < MaxFailures
    /\ failures' = failures + 1 /\ dbUp' = TRUE
    /\ \E profile, broken \in SUBSET Names :
          live' = [n \in Names |->
                     IF n \in profile THEN Profile
                     ELSE IF n \notin broken /\ Buildable(n)
                          THEN Built(defs[n])
                          ELSE None]
    /\ known' = live'
    /\ call' = None
    /\ UNCHANGED <<defs, versions>>

CallStep == Unregister \/ Validate \/ Save \/ Erase \/ Fetch \/ Register \/ Refuse

Environment == DbFail \/ DbRecover \/ Restart

Next == Request \/ CallStep \/ Environment

Spec == Init /\ [][Next]_vars
-----------------------------------------------------------------------------
(* Properties. *)

\* devices/service.py:4-5: "Profile-defined devices are never touched", whatever
\* definitions of the same name earlier profiles have allowed.
ProfileNeverTouched ==
    [][\A n \in Names : FromProfile(n) /\ failures' = failures => live'[n] = live[n]]_vars

\* A device that was built from a definition is what its definition says now: it
\* exists, is enabled and is the version that was built, whichever step of a
\* request failed (update_device, delete).
LiveIsAsDefined ==
    \A n \in Names : FromDefinition(n) =>
        defs[n] # None /\ defs[n].enabled /\ defs[n].version = live[n].version

\* What a request has done is what its remaining steps rely on: an instance is gone
\* before its definition is written or erased, and the device about to be
\* registered is what the table says.  The inductive part of LiveIsAsDefined.
RequestOK ==
    call # None =>
        /\ call.todo \in {<<"unregister", "validate", "save">>, <<"validate", "save">>,
                          <<"save">>, <<"fetch", "register">>, <<"register">>,
                          <<"unregister", "erase">>, <<"erase">>, <<"unregister">>}
        /\ call.todo \in {<<"unregister", "validate", "save">>, <<"validate", "save">>, <<"save">>}
               => call.op \in {"create", "update"} /\ call.new # None
        /\ call.todo = <<"unregister", "validate", "save">> => call.op = "update"
        /\ call.todo = <<"validate", "save">> /\ call.op = "update"
               => ~FromDefinition(call.name)
        /\ call.todo \in {<<"save">>, <<"erase">>} => ~FromDefinition(call.name)
        /\ call.todo = <<"register">>
               => call.new # None /\ call.new = defs[call.name] /\ call.new.enabled

\* A client whose uid is the current one knows the devices (status.py,
\* devices_existing_uid), also after a request that failed half way.
UidTracksTheDevices == known = live

\* A request to create a device that fails has created nothing, so that it can be
\* made again (qs_devices.py:62: "Device could not be created").
FailedCreateLeavesNothing ==
    [][call # None /\ call.op = "create" /\ call' = None /\ failures' = failures
          /\ At("fetch") /\ Refuse
        => defs[call.name] = None]_vars
=============================================================================
