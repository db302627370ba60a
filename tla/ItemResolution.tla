---------------------------- MODULE ItemResolution ----------------------------
(***************************************************************************)
(* What a plan gets for the names among its arguments (Registry.resolve,   *)
(* registry/registry.py, called by Sequencer._run_one), beside the         *)
(* requests that build, replace and remove the devices they name.          *)
(*                                                                         *)
(* The sequencer's thread looks at each string of the arguments in turn,   *)
(* in lists and dictionaries too, and asks the Registry twice: whether the *)
(* string names a device, and for the device.  Each question holds the     *)
(* lock of the Registry; between two of them a request may change it.      *)
(* Dotted names are reduced to the device they begin with.                 *)
(***************************************************************************)
EXTENDS DeviceService

CONSTANTS
    Plain,        \* a string that is passed as it is
    MaxArguments  \* bound on the names in one item

ASSUME ResolutionAssumption ==
    Plain \notin Device \cup {None} /\ MaxArguments \in Nat

VARIABLES
    arguments,  \* the strings of the item that are names
    asking,     \* what the sequencer's thread does next
    given       \* resolved_args so far

\* Auxiliary: what each name has meant to the Registry since the item began.
VARIABLE meant

resolutionVars == <<arguments, asking, given, meant>>
allVars == <<vars, resolutionVars>>

\* A type for every variable.
ResolutionTypeOK ==
    /\ TypeOK
    /\ arguments \in Seq(Names)
    /\ asking \in {"nothing", "has", "get", "resolved", "refused"}
    /\ given \in Seq(Device \cup {Plain})
    /\ meant \in [Names -> SUBSET (Device \cup {None})]

Meaning == [n \in Names |-> {live[n]}]

ResolutionInit ==
    /\ Init
    /\ arguments = <<>> /\ asking = "nothing" /\ given = <<>>
    /\ meant = Meaning

-----------------------------------------------------------------------------
\* The argument whose turn it is.
Current == arguments[Len(given) + 1]

\* Is there another, once g has been given?
NextQuestion(g) == IF Len(g) = Len(arguments) THEN "resolved" ELSE "has"

\* Sequencer._run_one: an item with names among its arguments, after any other.
BeginItem ==
    /\ asking \notin {"has", "get"}
    /\ \E k \in 1..MaxArguments : arguments' \in [1..k -> Names]
    /\ asking' = "has" /\ given' = <<>>
    /\ meant' = Meaning
    /\ UNCHANGED vars

\* Mutant: the second question is asked without the first.
AlwaysKnown(n) == TRUE

\* has_device
Known(n) == live[n] # None

\* _substitute, a string: one that names no device passes unchanged.
HasDevice ==
    /\ asking = "has"
    /\ IF Known(Current)
       THEN asking' = "get" /\ UNCHANGED given
       ELSE given' = Append(given, Plain) /\ asking' = NextQuestion(given')
    /\ UNCHANGED <<vars, arguments, meant>>

\* get_device; a name that is unknown by now is a RegistryError, and the item fails.
GetDevice ==
    /\ asking = "get"
    /\ IF live[Current] = None
       THEN asking' = "refused" /\ UNCHANGED given
       ELSE given' = Append(given, live[Current]) /\ asking' = NextQuestion(given')
    /\ UNCHANGED <<vars, arguments, meant>>

\* The event loop, or the engine's thread on its behalf, changes the Registry.
DeviceStep ==
    /\ Request \/ CallStep \/ DbFail \/ DbRecover
    /\ meant' = [n \in Names |-> meant[n] \cup {live'[n]}]
    /\ UNCHANGED <<arguments, asking, given>>

\* The process dies with the item it was resolving.
RestartProcess ==
    /\ Restart
    /\ arguments' = <<>> /\ asking' = "nothing" /\ given' = <<>>
    /\ meant' = [n \in Names |-> {live'[n]}]

ResolutionNext ==
    BeginItem \/ HasDevice \/ GetDevice \/ DeviceStep \/ RestartProcess

ResolutionSpec == ResolutionInit /\ [][ResolutionNext]_allVars

-----------------------------------------------------------------------------
(* Properties. *)

\* A plan gets under each name what the name meant at some moment since the item
\* was taken, and an item is refused only if a name of its own was taken away
\* meanwhile: a name that nobody touched gives its device, or its text.
ResolvedAsRegistered ==
    /\ \A k \in 1..Len(given) :
          (IF given[k] = Plain THEN None ELSE given[k]) \in meant[arguments[k]]
    /\ asking = "refused" => \E d \in Device : {d, None} \subseteq meant[Current]

\* registry.py:116-118: strings that "name a registered device ... are replaced by
\* the device object".  An update takes the instance away before it builds the new
\* one; a plan that is resolved meanwhile must not be given the bare name.
NoBareNameDuringUpdate ==
    [][asking = "has" /\ Len(given') > Len(given)
          /\ call # None /\ call.op = "update" /\ call.name = Current
        => meant[Current] = {None}]_allVars

\* Two arguments of one name are one device, which an update between the two
\* questions for them (routers/qs_devices.py, update_device) does not respect.
SameNameSameDevice ==
    asking = "resolved" =>
        \A j, k \in DOMAIN arguments : arguments[j] = arguments[k] => given[j] = given[k]
===============================================================================
