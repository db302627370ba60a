-------------------------- MODULE DeviceServiceProofs --------------------------
(* Theorems about DeviceService and the plans that use its devices            *)
(* (ItemResolution), for every set of device names, every number of           *)
(* definitions written, of outages and restarts, and of names in an item.     *)
EXTENDS ItemResolution, SequenceTheorems, TLAPS

\* What every step keeps: the types, the property, and what the request relies on.
Consistent == TypeOK /\ LiveIsAsDefined /\ RequestOK

\* A device that is built is an entry of the registry.
LEMMA BuiltType ==
    ASSUME NEW d \in Definition
    PROVE  /\ Built(d) \in Device
           /\ Built(d).origin = "definition" /\ Built(d).version = d.version
BY DEF Built, Definition, Device

\* A request that begins changes nothing but `call'.
LEMMA BeginKeeps ==
    ASSUME TypeOK, LiveIsAsDefined,
           NEW op \in Ops, NEW n \in Names, NEW new \in Definition \cup {None},
           NEW build \in BOOLEAN, NEW todo \in Seq(Steps),
           Begin(op, n, new, build, todo), versions' \in 0..MaxVersions
    PROVE  TypeOK' /\ LiveIsAsDefined'
<1>1. TypeOK'
  BY DEF TypeOK, Begin, Calls
<1>2. LiveIsAsDefined'
  BY DEF LiveIsAsDefined, Begin, FromDefinition
<1> QED
  BY <1>1, <1>2

\* A request that begins relies on nothing that does not hold.
LEMMA RequestKeeps == Consistent /\ Request => Consistent'
<1> SUFFICES ASSUME Consistent, Request PROVE Consistent'
  OBVIOUS
<1> USE DeviceAssumption DEF Consistent
<1>a. /\ {<<"validate", "save">>, <<"unregister", "validate", "save">>, <<"erase">>,
          <<"unregister", "erase">>, <<"fetch", "register">>, <<"unregister">>}
            \subseteq Seq(Steps)
      /\ {"create", "update", "delete", "instantiate", "remove"} \subseteq Ops
  BY DEF Steps, Ops
<1>b. versions \in 0..MaxVersions
  BY DEF TypeOK
<1>1. ASSUME NEW n \in Names, NEW enabled \in BOOLEAN, NEW build \in BOOLEAN,
             Create(n, enabled, build)
      PROVE  Consistent'
  <2> DEFINE new == [version |-> versions', enabled |-> enabled]
             todo == <<"validate", "save">>
  <2>1. new \in Definition /\ new # None /\ versions' \in 0..MaxVersions
    BY <1>1, <1>b DEF Create, Definition
  <2>2. Begin("create", n, new, build, todo)
    BY <1>1 DEF Create
  <2>3. RequestOK'
    BY <2>1, <2>2 DEF Begin, RequestOK
  <2>4. "create" \in Ops /\ todo \in Seq(Steps)
    BY <1>a
  <2> HIDE DEF new, todo
  <2> QED
    BY <2>1, <2>2, <2>3, <2>4, BeginKeeps
<1>2. ASSUME NEW n \in Names, NEW enabled \in BOOLEAN, NEW build \in BOOLEAN,
             Update(n, enabled, build)
      PROVE  Consistent'
  <2> DEFINE new == [version |-> versions', enabled |-> enabled]
             todo == UpdateSteps(n)
  <2>1. new \in Definition /\ new # None /\ versions' \in 0..MaxVersions
    BY <1>2, <1>b DEF Update, Definition
  <2>2. Begin("update", n, new, build, todo)
    BY <1>2 DEF Update
  <2>3. RequestOK'
    BY <2>1, <2>2 DEF Begin, RequestOK, UpdateSteps, FromDefinition
  <2>4. "update" \in Ops /\ todo \in Seq(Steps)
    BY <1>a DEF UpdateSteps
  <2> HIDE DEF new, todo
  <2> QED
    BY <2>1, <2>2, <2>3, <2>4, BeginKeeps
<1>3. ASSUME NEW n \in Names, Delete(n) PROVE Consistent'
  <2> DEFINE todo == IF FromDefinition(n) THEN <<"unregister", "erase">> ELSE <<"erase">>
  <2>1. Begin("delete", n, None, FALSE, todo) /\ versions' \in 0..MaxVersions
    BY <1>3, <1>b DEF Delete
  <2>2. RequestOK'
    BY <2>1 DEF Begin, RequestOK, FromDefinition
  <2>3. "delete" \in Ops /\ todo \in Seq(Steps)
    BY <1>a
  <2> HIDE DEF todo
  <2> QED
    BY <2>1, <2>2, <2>3, BeginKeeps
<1>4. ASSUME NEW n \in Names, Instantiate(n) PROVE Consistent'
  <2> DEFINE todo == <<"fetch", "register">>
  <2>1. Begin("instantiate", n, None, TRUE, todo) /\ versions' \in 0..MaxVersions
    BY <1>4, <1>b DEF Instantiate
  <2>2. RequestOK'
    BY <2>1 DEF Begin, RequestOK, FromDefinition
  <2>3. "instantiate" \in Ops /\ todo \in Seq(Steps)
    BY <1>a
  <2> HIDE DEF todo
  <2> QED
    BY <2>1, <2>2, <2>3, BeginKeeps
<1>5. ASSUME NEW n \in Names, Remove(n) PROVE Consistent'
  <2> DEFINE todo == <<"unregister">>
  <2>1. Begin("remove", n, None, FALSE, todo) /\ versions' \in 0..MaxVersions
    BY <1>5, <1>b DEF Remove
  <2>2. RequestOK'
    BY <2>1 DEF Begin, RequestOK, FromDefinition
  <2>3. "remove" \in Ops /\ todo \in Seq(Steps)
    BY <1>a
  <2> HIDE DEF todo
  <2> QED
    BY <2>1, <2>2, <2>3, BeginKeeps
<1> QED
  BY <1>1, <1>2, <1>3, <1>4, <1>5 DEF Request

\* What the guard of a step says of the request.
LEMMA AtStep ==
    ASSUME TypeOK, NEW step, At(step)
    PROVE  /\ call \in Calls /\ call.name \in Names /\ call # None
           /\ Tail(call.todo) \in Seq(Steps)
BY DEF At, TypeOK, Calls

\* Ending a request, or going on with it, keeps its type.
LEMMA ContinueType ==
    ASSUME call \in Calls, NEW todo \in Seq(Steps), Continue(todo)
    PROVE  call' \in Calls \cup {None}
BY DEF Continue, Calls

\* A step of a request leaves the next one what it relies on.
LEMMA StepKeeps == Consistent /\ CallStep => Consistent'
<1> SUFFICES ASSUME Consistent, CallStep PROVE Consistent'
  OBVIOUS
<1> USE DeviceAssumption DEF Consistent
<1>1. CASE Unregister
  <2>1. call \in Calls /\ call.name \in Names /\ call # None /\ Tail(call.todo) \in Seq(Steps)
    BY <1>1, AtStep DEF Unregister
  <2>2. live' \in [Names -> Device \cup {None}]
    BY <1>1, <2>1 DEF Unregister, TypeOK
  <2>3. TypeOK'
    BY <1>1, <2>1, <2>2, ContinueType DEF Unregister, OnChange, TypeOK
  <2>4. LiveIsAsDefined'
    BY <1>1, <2>1 DEF Unregister, LiveIsAsDefined, FromDefinition, TypeOK
  <2>5. live'[call.name] = None
    BY <1>1, <2>1 DEF Unregister, TypeOK
  <2>6. call.todo \in {<<"unregister", "validate", "save">>, <<"unregister", "erase">>,
                       <<"unregister">>}
    BY <1>1, <2>1 DEF Unregister, At, RequestOK
  <2>7. call' = IF Tail(call.todo) = <<>> THEN None ELSE [call EXCEPT !.todo = Tail(call.todo)]
    BY <1>1 DEF Unregister, Continue
  <2>8. call' # None => /\ Tail(call.todo) # <<>> /\ call'.todo = Tail(call.todo)
                        /\ call'.name = call.name /\ call'.op = call.op
                        /\ call'.new = call.new
    BY <2>1, <2>7 DEF Calls
  <2>9. call' # None => live'[call'.name] = None
    BY <2>5, <2>8
  <2>10. RequestOK'
    <3> SUFFICES ASSUME call' # None PROVE RequestOK'
      BY DEF RequestOK
    <3>1. CASE call.todo = <<"unregister", "validate", "save">>
      <4>1. call.op = "update" /\ call.new # None
        BY <2>1, <3>1 DEF RequestOK
      <4>2. call'.todo = <<"validate", "save">> /\ call'.op = "update" /\ call'.new # None
        BY <2>8, <3>1, <4>1
      <4> QED
        BY <2>9, <4>2 DEF RequestOK, FromDefinition
    <3>2. CASE call.todo = <<"unregister", "erase">>
      <4>1. call'.todo = <<"erase">>
        BY <2>8, <3>2
      <4> QED
        BY <2>9, <4>1 DEF RequestOK, FromDefinition
    <3>3. CASE call.todo = <<"unregister">>
      BY <2>8, <3>3
    <3> QED
      BY <2>6, <3>1, <3>2, <3>3
  <2> QED
    BY <2>3, <2>4, <2>10
<1>2. CASE Validate
  <2>1. call \in Calls /\ call.name \in Names /\ call # None /\ Tail(call.todo) \in Seq(Steps)
    BY <1>2, AtStep DEF Validate
  <2>2. TypeOK'
    BY <1>2, <2>1, ContinueType DEF Validate, TypeOK
  <2>3. LiveIsAsDefined'
    BY <1>2 DEF Validate, LiveIsAsDefined, FromDefinition
  <2>4. call.todo = <<"validate", "save">>
    BY <1>2, <2>1 DEF Validate, At, RequestOK
  <2>5. ~FromDefinition(call.name)
    BY <1>2, <2>1, <2>4 DEF Validate, RequestOK, LiveIsAsDefined
  <2>6. RequestOK'
    BY <1>2, <2>1, <2>4, <2>5 DEF Validate, Continue, RequestOK, FromDefinition, Calls
  <2> QED
    BY <2>2, <2>3, <2>6
<1>3. CASE Save
  <2>1. call \in Calls /\ call.name \in Names /\ call # None
    BY <1>3, AtStep DEF Save
  <2>2. call.todo = <<"save">> /\ call.new \in Definition /\ ~FromDefinition(call.name)
    BY <1>3, <2>1 DEF Save, At, RequestOK, Calls
  <2>3. <<"fetch", "register">> \in Seq(Steps) /\ <<>> \in Seq(Steps)
    BY DEF Steps
  <2>4. call' \in Calls \cup {None}
    BY <1>3, <2>1, <2>3, ContinueType DEF Save
  <2>5. TypeOK'
    BY <1>3, <2>1, <2>2, <2>4 DEF Save, OnChange, TypeOK
  <2>6. LiveIsAsDefined'
    BY <1>3, <2>1, <2>2 DEF Save, LiveIsAsDefined, FromDefinition, TypeOK
  <2>7. RequestOK'
    BY <1>3, <2>1 DEF Save, Continue, RequestOK, Calls
  <2> QED
    BY <2>5, <2>6, <2>7
<1>4. CASE Erase
  <2>1. call \in Calls /\ call.name \in Names /\ call # None /\ Tail(call.todo) \in Seq(Steps)
    BY <1>4, AtStep DEF Erase
  <2>2. call.todo = <<"erase">> /\ ~FromDefinition(call.name)
    BY <1>4, <2>1 DEF Erase, At, RequestOK
  <2>3. TypeOK'
    BY <1>4, <2>1, ContinueType DEF Erase, OnChange, TypeOK
  <2>4. LiveIsAsDefined'
    BY <1>4, <2>1, <2>2 DEF Erase, LiveIsAsDefined, FromDefinition, TypeOK
  <2>5. RequestOK'
    BY <1>4, <2>2 DEF Erase, Continue, RequestOK
  <2> QED
    BY <2>3, <2>4, <2>5
<1>5. CASE Fetch
  <2>1. call \in Calls /\ call.name \in Names /\ call # None /\ Tail(call.todo) \in Seq(Steps)
    BY <1>5, AtStep DEF Fetch
  <2>2. call.todo = <<"fetch", "register">>
    BY <1>5, <2>1 DEF Fetch, At, RequestOK
  <2>3. TypeOK'
    BY <1>5, <2>1 DEF Fetch, TypeOK, Calls
  <2>4. LiveIsAsDefined'
    BY <1>5 DEF Fetch, LiveIsAsDefined, FromDefinition
  <2>5. /\ call'.todo = <<"register">> /\ call'.name = call.name
        /\ call'.new = defs[call.name]
    BY <1>5, <2>1, <2>2 DEF Fetch, Calls
  <2>6. RequestOK'
    BY <1>5, <2>5 DEF Fetch, Buildable, RequestOK
  <2> QED
    BY <2>3, <2>4, <2>6
<1>6. CASE Register
  <2>1. call \in Calls /\ call.name \in Names /\ call # None /\ Tail(call.todo) \in Seq(Steps)
    BY <1>6, AtStep DEF Register
  <2>2. /\ call.todo = <<"register">> /\ call.new \in Definition
        /\ call.new = defs[call.name] /\ call.new.enabled
    BY <1>6, <2>1 DEF Register, At, RequestOK, Calls
  <2>3. /\ Built(call.new) \in Device /\ Built(call.new).version = call.new.version
    BY <2>2, BuiltType
  <2>4. live' \in [Names -> Device \cup {None}]
    BY <1>6, <2>1, <2>3 DEF Register, TypeOK
  <2>5. TypeOK'
    BY <1>6, <2>1, <2>4, ContinueType DEF Register, OnChange, TypeOK
  <2>6. LiveIsAsDefined'
    BY <1>6, <2>1, <2>2, <2>3 DEF Register, LiveIsAsDefined, FromDefinition, TypeOK
  <2>7. RequestOK'
    BY <1>6, <2>2 DEF Register, Continue, RequestOK
  <2> QED
    BY <2>5, <2>6, <2>7
<1>7. CASE Refuse
  BY <1>7 DEF Refuse, TypeOK, LiveIsAsDefined, RequestOK, FromDefinition
<1> QED
  BY <1>1, <1>2, <1>3, <1>4, <1>5, <1>6, <1>7 DEF CallStep

\* Neither an outage nor a restart leaves a device that is not as defined.
LEMMA EnvironmentKeeps == Consistent /\ Environment => Consistent'
<1> SUFFICES ASSUME Consistent, Environment PROVE Consistent'
  OBVIOUS
<1> USE DeviceAssumption DEF Consistent
<1>1. CASE DbFail
  <2>1. failures' \in 0..MaxFailures
    BY <1>1 DEF DbFail, TypeOK
  <2>2. TypeOK'
    BY <1>1, <2>1, Zenon DEF DbFail, TypeOK
  <2>3. LiveIsAsDefined' /\ RequestOK'
    BY <1>1 DEF DbFail, LiveIsAsDefined, RequestOK, FromDefinition
  <2> QED
    BY <2>2, <2>3
<1>2. CASE DbRecover
  BY <1>2 DEF DbRecover, TypeOK, LiveIsAsDefined, RequestOK, FromDefinition
<1>3. CASE Restart
  <2>1. PICK profile \in SUBSET Names, broken \in SUBSET Names :
           live' = [n \in Names |->
                      IF n \in profile THEN Profile
                      ELSE IF n \notin broken /\ Buildable(n) THEN Built(defs[n])
                           ELSE None]
    BY <1>3 DEF Restart
  <2>2. ASSUME NEW n \in Names
        PROVE  /\ live'[n] \in Device \cup {None}
               /\ FromDefinition(n)' => Buildable(n) /\ live'[n] = Built(defs[n])
    BY <2>1 DEF FromDefinition, Profile, Device, Buildable, Built, TypeOK, Definition
  <2>3. live' \in [Names -> Device \cup {None}]
    BY <2>1, <2>2
  <2>4. TypeOK'
    BY <1>3, <2>3 DEF Restart, TypeOK
  <2>5. LiveIsAsDefined'
    BY <1>3, <2>2, BuiltType DEF Restart, LiveIsAsDefined, Buildable, TypeOK
  <2>6. RequestOK'
    BY <1>3 DEF Restart, RequestOK
  <2> QED
    BY <2>4, <2>5, <2>6
<1> QED
  BY <1>1, <1>2, <1>3 DEF Environment

LEMMA InitConsistent == Init => Consistent
BY DeviceAssumption
   DEF Init, Consistent, TypeOK, LiveIsAsDefined, RequestOK, FromDefinition, Device, Profile

LEMMA ConsistentStep == Consistent /\ [Next]_vars => Consistent'
<1>1. Consistent /\ UNCHANGED vars => Consistent'
  BY DEF vars, Consistent, TypeOK, LiveIsAsDefined, RequestOK, FromDefinition
<1> QED
  BY <1>1, RequestKeeps, StepKeeps, EnvironmentKeeps DEF Next

\* Every reachable state is consistent.
THEOREM AlwaysConsistent == Spec => []Consistent
BY InitConsistent, ConsistentStep, PTL DEF Spec

\* A device built from a definition is what its definition says, whichever step of
\* a request failed and however often the service restarted (update_device, delete,
\* instantiate_all_enabled).
THEOREM AsDefined == Spec => []LiveIsAsDefined
<1>1. Consistent => LiveIsAsDefined
  BY DEF Consistent
<1> QED
  BY <1>1, AlwaysConsistent, PTL

\* No request touches a device of the profile (add_device, remove_device).
THEOREM ProfileSafe == Spec => ProfileNeverTouched
<1> DEFINE Untouched ==
       \A n \in Names : FromProfile(n) /\ failures' = failures => live'[n] = live[n]
<1>1. TypeOK /\ [Next]_vars => [Untouched]_vars
  <2> SUFFICES ASSUME TypeOK, Next, NEW n \in Names, FromProfile(n), failures' = failures
               PROVE  live'[n] = live[n]
    OBVIOUS
  <2>1. CASE Request
    BY <2>1 DEF Request, Create, Update, Delete, Instantiate, Remove, Begin
  <2>2. CASE Unregister
    BY <2>2 DEF Unregister, FromDefinition, FromProfile, TypeOK
  <2>3. CASE Register
    BY <2>3 DEF Register, Addable, FromProfile, TypeOK
  <2>4. CASE Validate \/ Save \/ Erase \/ Fetch \/ Refuse
    BY <2>4 DEF Validate, Save, Erase, Fetch, Refuse
  <2>5. CASE DbFail \/ DbRecover
    BY <2>5 DEF DbFail, DbRecover
  <2>6. CASE Restart
    BY <2>6 DEF Restart, TypeOK
  <2> QED
    BY <2>1, <2>2, <2>3, <2>4, <2>5, <2>6 DEF Next, CallStep, Environment
<1>2. Consistent => TypeOK
  BY DEF Consistent
<1> QED
  BY <1>1, <1>2, AlwaysConsistent, PTL DEF Spec, ProfileNeverTouched

\* The uid that clients poll stands for the devices there are, whatever step of a request
\* has failed (every change of the registry is followed by on_change).
THEOREM UidCurrent == Spec => []UidTracksTheDevices
<1>1. Init => UidTracksTheDevices
  BY DEF Init, UidTracksTheDevices
<1>2. UidTracksTheDevices /\ [Next]_vars => UidTracksTheDevices'
  <2> SUFFICES ASSUME UidTracksTheDevices, [Next]_vars PROVE UidTracksTheDevices'
    OBVIOUS
  <2> USE DEF UidTracksTheDevices, OnChange
  <2>1. CASE UNCHANGED vars
    BY <2>1 DEF vars
  <2>2. CASE Request
    BY <2>2 DEF Request, Create, Update, Delete, Instantiate, Remove, Begin
  <2>3. CASE CallStep
    BY <2>3 DEF CallStep, Unregister, Validate, Save, Erase, Fetch, Register, Refuse
  <2>4. CASE Environment
    BY <2>4 DEF Environment, DbFail, DbRecover, Restart
  <2> QED
    BY <2>1, <2>2, <2>3, <2>4 DEF Next
<1> QED
  BY <1>1, <1>2, PTL DEF Spec

-----------------------------------------------------------------------------
(* What a plan gets for the names among its arguments. *)

\* A type for the sequencer's thread, and where it can be.
ResolutionType ==
    /\ arguments \in Seq(Names)
    /\ asking \in {"nothing", "has", "get", "resolved", "refused"}
    /\ given \in Seq(Device \cup {Plain})
    /\ meant \in [Names -> SUBSET (Device \cup {None})]
    /\ asking = "nothing" => given = <<>>
    /\ asking # "nothing" => Len(given) <= Len(arguments)
    /\ asking \in {"has", "get", "refused"} => Len(given) < Len(arguments)

\* What the Registry says now is among what it has said, and a device that it knew when it was asked
\* is one of them.
Remembered ==
    /\ \A n \in Names : live[n] \in meant[n]
    /\ asking = "get" => \E d \in Device : d \in meant[Current]

ResolutionInv == Consistent /\ ResolutionType /\ Remembered /\ ResolvedAsRegistered

\* The name whose turn it is.
LEMMA CurrentType ==
    ASSUME ResolutionType, asking \in {"has", "get", "refused"}
    PROVE  Current \in Names /\ Len(given) + 1 \in DOMAIN arguments
BY DEF ResolutionType, Current

LEMMA ResolutionBegins == ResolutionInit => ResolutionInv
<1> SUFFICES ASSUME ResolutionInit PROVE ResolutionInv
  OBVIOUS
<1>1. Consistent
  BY InitConsistent DEF ResolutionInit
<1>2. \A n \in Names : live[n] \in Device \cup {None} /\ meant[n] = {live[n]}
  BY <1>1 DEF Consistent, TypeOK, ResolutionInit, Meaning
<1>3. ResolutionType
  BY <1>2 DEF ResolutionInit, ResolutionType, Meaning
<1>4. Remembered /\ ResolvedAsRegistered
  BY <1>2 DEF ResolutionInit, Remembered, ResolvedAsRegistered
<1> QED
  BY <1>1, <1>3, <1>4 DEF ResolutionInv

\* Something is given for the name whose turn it is, which it has meant.
LEMMA GivingKeeps ==
    ASSUME ResolutionInv, asking \in {"has", "get"}, UNCHANGED <<vars, arguments, meant>>,
           NEW x \in Device \cup {Plain}, (IF x = Plain THEN None ELSE x) \in meant[Current],
           given' = Append(given, x), asking' = NextQuestion(given')
    PROVE  ResolutionType' /\ ResolvedAsRegistered'
<1>1. /\ Len(given) < Len(arguments) /\ Len(given) \in Nat /\ Len(arguments) \in Nat
      /\ given \in Seq(Device \cup {Plain})
  BY DEF ResolutionInv, ResolutionType
<1>2. /\ Len(given') = Len(given) + 1 /\ given'[Len(given) + 1] = x
      /\ \A k \in 1..Len(given) : given'[k] = given[k]
      /\ given' \in Seq(Device \cup {Plain})
  BY <1>1
<1>3. \A k \in 1..Len(given') : k = Len(given) + 1 \/ k \in 1..Len(given)
  BY <1>1, <1>2
<1>4. asking' = "resolved" \/ (asking' = "has" /\ Len(given') # Len(arguments))
  BY DEF NextQuestion
<1>5. ResolutionType'
  BY <1>1, <1>2, <1>4 DEF ResolutionInv, ResolutionType
<1>6. \A k \in 1..Len(given') : (IF given'[k] = Plain THEN None ELSE given'[k]) \in meant'[arguments'[k]]
  BY <1>2, <1>3 DEF ResolutionInv, ResolvedAsRegistered, Current
<1> QED
  BY <1>4, <1>5, <1>6 DEF ResolvedAsRegistered

\* A question of the sequencer's thread.
LEMMA QuestionKeeps ==
    ASSUME ResolutionInv, BeginItem \/ HasDevice \/ GetDevice
    PROVE  ResolutionType' /\ Remembered' /\ ResolvedAsRegistered'
<1>0. /\ UNCHANGED vars /\ live' = live
      /\ \A n \in Names : live[n] \in Device \cup {None} /\ live[n] \in meant[n]
  BY DEF BeginItem, HasDevice, GetDevice, vars, ResolutionInv, Consistent, TypeOK, Remembered
<1>1. CASE BeginItem
  <2>1. PICK size \in 1..MaxArguments : arguments' \in [1..size -> Names]
    BY <1>1 DEF BeginItem
  <2>2. arguments' \in Seq(Names) /\ Len(arguments') = size /\ size \in Nat \ {0}
    BY <2>1, SeqDef
  <2>3. /\ given' = <<>> /\ asking' = "has" /\ Len(arguments') \in Nat \ {0}
        /\ meant' = [n \in Names |-> {live[n]}]
    BY <1>1, <2>2 DEF BeginItem, Meaning
  <2>4. ResolutionType'
    BY <1>0, <2>2, <2>3 DEF ResolutionType
  <2>5. Remembered' /\ ResolvedAsRegistered'
    BY <1>0, <2>3 DEF Remembered, ResolvedAsRegistered
  <2> QED
    BY <2>4, <2>5
<1>2. CASE HasDevice
  <2>1. Current \in Names /\ UNCHANGED <<arguments, meant>> /\ asking = "has"
    BY <1>2, CurrentType DEF HasDevice, ResolutionInv
  <2>2. CASE live[Current] # None
    <3>1. asking' = "get" /\ given' = given
      BY <1>2, <2>2 DEF HasDevice, Known
    <3>2. live[Current] \in Device /\ live[Current] \in meant[Current]
      BY <1>0, <2>1, <2>2
    <3>3. Current' = Current
      BY <2>1, <3>1 DEF Current
    <3>4. Remembered'
      BY <1>0, <2>1, <3>1, <3>2, <3>3 DEF Remembered
    <3> QED
      BY <2>1, <3>1, <3>4 DEF ResolutionInv, ResolutionType, ResolvedAsRegistered
  <2>3. CASE live[Current] = None
    <3>1. given' = Append(given, Plain) /\ asking' = NextQuestion(given')
      BY <1>2, <2>3 DEF HasDevice, Known
    <3>2. None \in meant[Current]
      BY <1>0, <2>1, <2>3
    <3>3. ResolutionType' /\ ResolvedAsRegistered'
      BY <1>0, <2>1, <3>1, <3>2, GivingKeeps
    <3>4. Remembered'
      BY <1>0, <2>1, <3>1 DEF Remembered, NextQuestion
    <3> QED
      BY <3>3, <3>4
  <2> QED
    BY <2>2, <2>3
<1>3. CASE GetDevice
  <2>1. Current \in Names /\ UNCHANGED <<arguments, meant>> /\ asking = "get"
    BY <1>3, CurrentType DEF GetDevice, ResolutionInv
  <2>2. CASE live[Current] = None
    <3>1. asking' = "refused" /\ given' = given
      BY <1>3, <2>2 DEF GetDevice
    <3>2. PICK d \in Device : d \in meant[Current]
      BY <2>1 DEF ResolutionInv, Remembered
    <3>3. None \in meant[Current] /\ Current' = Current
      BY <1>0, <2>1, <2>2, <3>1 DEF Current
    <3>4. ResolvedAsRegistered'
      BY <2>1, <3>1, <3>2, <3>3 DEF ResolutionInv, ResolvedAsRegistered
    <3> QED
      BY <1>0, <2>1, <3>1, <3>4 DEF ResolutionInv, ResolutionType, Remembered
  <2>3. CASE live[Current] # None
    <3>1. given' = Append(given, live[Current]) /\ asking' = NextQuestion(given')
      BY <1>3, <2>3 DEF GetDevice
    <3>2. live[Current] \in Device /\ live[Current] \in meant[Current] /\ live[Current] # Plain
      BY <1>0, <2>1, <2>3, ResolutionAssumption
    <3>3. ResolutionType' /\ ResolvedAsRegistered'
      BY <1>0, <2>1, <3>1, <3>2, GivingKeeps
    <3>4. Remembered'
      BY <1>0, <2>1, <3>1 DEF Remembered, NextQuestion
    <3> QED
      BY <3>3, <3>4
  <2> QED
    BY <2>2, <2>3
<1> QED
  BY <1>1, <1>2, <1>3

\* The Registry changes: what a name has meant is added to.
LEMMA ChangeKeeps ==
    ASSUME ResolutionInv, TypeOK', DeviceStep
    PROVE  ResolutionType' /\ Remembered' /\ ResolvedAsRegistered'
<1>1. /\ UNCHANGED <<arguments, asking, given>>
      /\ meant' = [n \in Names |-> meant[n] \cup {live'[n]}]
  BY DEF DeviceStep
<1>2. \A n \in Names : /\ meant'[n] = meant[n] \cup {live'[n]} /\ live'[n] \in Device \cup {None}
                       /\ meant[n] \subseteq Device \cup {None}
  BY <1>1 DEF TypeOK, ResolutionInv, ResolutionType
<1>3. ResolutionType'
  BY <1>1, <1>2 DEF ResolutionInv, ResolutionType
<1>4. Current' = Current
  BY <1>1 DEF Current
<1>5. Remembered'
  <2>1. \A n \in Names : live'[n] \in meant'[n]
    BY <1>2
  <2>2. asking = "get" => \E d \in Device : d \in meant'[Current]
    BY <1>2, CurrentType DEF ResolutionInv, Remembered
  <2> QED
    BY <1>1, <1>4, <2>1, <2>2 DEF Remembered
<1>6. ResolvedAsRegistered'
  <2>1. ASSUME NEW k \in 1..Len(given)
        PROVE  (IF given[k] = Plain THEN None ELSE given[k]) \in meant'[arguments[k]]
    <3>1. arguments[k] \in Names
      <4>1. k \in 1..Len(arguments)
        BY <2>1 DEF ResolutionInv, ResolutionType
      <4> QED
        BY <4>1 DEF ResolutionInv, ResolutionType
    <3> QED
      BY <1>2, <3>1 DEF ResolutionInv, ResolvedAsRegistered
  <2>2. asking = "refused" => \E d \in Device : {d, None} \subseteq meant'[Current]
    <3> SUFFICES ASSUME asking = "refused" PROVE \E d \in Device : {d, None} \subseteq meant'[Current]
      OBVIOUS
    <3>1. PICK d \in Device : {d, None} \subseteq meant[Current]
      BY DEF ResolutionInv, ResolvedAsRegistered
    <3>2. {d, None} \subseteq meant'[Current]
      BY <1>2, <3>1, CurrentType DEF ResolutionInv
    <3> QED
      BY <3>2
  <2> QED
    BY <1>1, <1>4, <2>1, <2>2 DEF ResolvedAsRegistered
<1> QED
  BY <1>3, <1>5, <1>6

LEMMA ResolutionStep == ResolutionInv /\ [ResolutionNext]_allVars => ResolutionInv'
<1> SUFFICES ASSUME ResolutionInv, [ResolutionNext]_allVars PROVE ResolutionInv'
  OBVIOUS
<1>1. Consistent'
  <2>1. [Next]_vars
    BY DEF ResolutionNext, BeginItem, HasDevice, GetDevice, DeviceStep, RestartProcess, allVars, Next,
           Environment
  <2> QED
    BY <2>1, ConsistentStep DEF ResolutionInv
<1>2. CASE BeginItem \/ HasDevice \/ GetDevice
  BY <1>1, <1>2, QuestionKeeps DEF ResolutionInv
<1>3. CASE DeviceStep
  BY <1>1, <1>3, ChangeKeeps DEF ResolutionInv, Consistent
<1>4. CASE RestartProcess
  <2>1. /\ given' = <<>> /\ asking' = "nothing" /\ arguments' = <<>>
        /\ meant' = [n \in Names |-> {live'[n]}]
    BY <1>4 DEF RestartProcess
  <2>2. \A n \in Names : live'[n] \in Device \cup {None}
    BY <1>1 DEF Consistent, TypeOK
  <2>3. ResolutionType' /\ Remembered' /\ ResolvedAsRegistered'
    BY <2>1, <2>2 DEF ResolutionType, Remembered, ResolvedAsRegistered
  <2> QED
    BY <1>1, <2>3 DEF ResolutionInv
<1>5. CASE UNCHANGED allVars
  BY <1>1, <1>5 DEF allVars, vars, resolutionVars, ResolutionInv, ResolutionType, Remembered,
                    ResolvedAsRegistered, Current
<1> QED
  BY <1>2, <1>3, <1>4, <1>5 DEF ResolutionNext

\* A plan gets under each name what the name meant at some moment since the item was taken, although the
\* Registry is asked twice for it (Registry.resolve, has_device and get_device) and requests change it
\* in between; and an item is refused only when a device of its own was taken away meanwhile.
THEOREM PlansGetTheirDevices == ResolutionSpec => []ResolvedAsRegistered
<1>1. ResolutionInv => ResolvedAsRegistered
  BY DEF ResolutionInv
<1> QED
  BY <1>1, ResolutionBegins, ResolutionStep, PTL DEF ResolutionSpec
=============================================================================
