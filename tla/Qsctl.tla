--------------------------------- MODULE Qsctl ---------------------------------
(***************************************************************************)
(* The operator's command line, qsctl, at one end of a connection and the  *)
(* service at the other.  The operator asks for one thing, and types the   *)
(* command again when it has exited with 1; or watches the status.  What   *)
(* qsctl says and exits with depends on the body of the reply alone: of an *)
(* operation, {success, msg, ...}; of GET status, the document; of a       *)
(* request that is refused before it reaches its route, {detail}.          *)
(***************************************************************************)
EXTENDS Naturals, FiniteSets, Python

CONSTANTS
    MaxTries,    \* times the operator types the command (bound)
    MaxChanges   \* times the status changes (bound)

ASSUME QsctlAssumption == MaxTries \in Nat /\ MaxChanges \in Nat /\ None # "ok"

Reads == {"status", "queue", "history", "plans", "devices", "experiment"}
Changes == {"add", "start"}  \* one whose reply has an item, and one whose reply has none
Commands == Reads \cup Changes \cup {"watch"}

VARIABLES
    key,        \* the service accepts the key that qsctl sends
    command,    \* [name, json]: what the operator types
    tries,      \* times it was typed
    at,         \* where qsctl is
    reply,      \* what its request has come to
    shown,      \* what it has printed
    exit,       \* None until it exits
    pending,    \* by number, the requests the service has not got to yet
    performed,  \* by number, the requests for a change that it has carried out
    doubt,      \* qsctl has once left it open whether a request was carried out
    document,   \* what is in the status and in the line that shows it; and what is not
    changes     \* of the document

clientVars == <<tries, at, shown, exit, doubt>>
documentVars == <<document, changes>>
qsctlVars == <<key, command, reply, pending, performed, clientVars, documentVars>>

About(names) ==
    /\ key \in BOOLEAN
    /\ command \in [name : names, json : BOOLEAN]
    /\ tries = 0 /\ at = "shell" /\ reply = None /\ shown = None /\ exit = None
    /\ pending = {} /\ performed = {} /\ doubt = FALSE
    /\ document = [line |-> "idle", rest |-> "idle"] /\ changes = 0

QsctlInit == About(Commands)

-----------------------------------------------------------------------------
(* The service. *)

\* fail and fail_from, of a route that has changed nothing: success is false.
Refused == [body |-> "failed", line |-> "error"]

\* The handler of unexpected errors: so it is here, but one that is raised after the change,
\* by a read of the database that the answer needs, leaves the change done.
InternalError == [body |-> "internal", line |-> "error"]

\* get_principal and require_scope.
NotAdmitted == [body |-> "detail", line |-> None]

\* ok(...): success is true; a document has no such key.
Answered ==
    [body |-> IF command.name \in {"status", "experiment", "watch"} THEN "document" ELSE "done",
     line |-> document.line]

\* get_services and the route: a change is carried out, or refused with a reason, or either
\* when the route fails.
Serve(n) ==
    /\ n \in pending
    /\ pending' = pending \ {n}
    /\ \E answer \in IF ~key THEN {NotAdmitted} ELSE {Refused, InternalError, Answered} :
          /\ performed' \in {performed, performed \cup {n}}
          /\ performed' # performed => command.name \in Changes /\ answer.body \in {"done", "internal"}
          /\ command.name \in Changes /\ answer.body = "done" => n \in performed'
          /\ reply' = IF at = "waiting" /\ n = tries THEN answer ELSE reply
    /\ UNCHANGED <<key, command, clientVars, documentVars>>

Change ==
    /\ changes < MaxChanges
    /\ \E part \in {"line", "rest"} :
          document' = [document EXCEPT ![part] = IF @ = "idle" THEN "busy" ELSE "idle"]
    /\ changes' = changes + 1
    /\ UNCHANGED <<key, command, reply, pending, performed, clientVars>>

-----------------------------------------------------------------------------
(* qsctl. *)

\* main, _queue, _re: one request for a command.  The operator tries again after a failure.
Type ==
    /\ at = "shell" \/ (at = "exited" /\ exit = 1 /\ command.name \in Changes)
    /\ tries < MaxTries
    /\ tries' = tries + 1 /\ pending' = pending \cup {tries'}
    /\ at' = "waiting" /\ reply' = None /\ exit' = None
    /\ UNCHANGED <<key, command, shown, performed, doubt, documentVars>>

Exits(code) == at' = "exited" /\ exit' = code

\* Mutant: a request that failed is sent once more before qsctl gives up.
Resend ==
    /\ at = "waiting" /\ tries \notin pending /\ tries < MaxTries
    /\ pending' = pending \cup {tries + 1} /\ tries' = tries + 1 /\ reply' = None
    /\ UNCHANGED <<key, command, shown, performed, at, exit, doubt, documentVars>>

\* httpx.HTTPError: nothing listens there, and the request is not received (ConnectError),
Unreachable ==
    /\ at = "waiting" /\ tries \in pending
    /\ pending' = pending \ {tries} /\ Exits(1)
    /\ UNCHANGED <<key, command, tries, reply, shown, performed, doubt, documentVars>>

\* or it may have been: the connection breaks, or thirty seconds pass, with the request or
\* its answer on the way, or lost.  What was received the service carries out alone.
StopWaiting ==
    /\ at = "waiting"
    /\ pending' \in {pending, pending \ {tries}}
    /\ doubt' = TRUE /\ Exits(1)
    /\ UNCHANGED <<key, command, tries, reply, shown, performed, documentVars>>

\* reply.get("success", True)
Succeeded == reply.body \notin {"failed", "internal"}

\* _summarise, for each body: None where it raises a KeyError.
Summary ==
    CASE ~Succeeded -> "error"
      [] reply.body = "detail" /\ command.name \in {"status", "watch"} -> None
      [] reply.body = "detail" /\ command.name \in Reads -> "nothing there"
      [] command.name \in {"status", "watch"} -> reply.line
      [] command.name \in Reads \ {"status"} -> "content"
      [] OTHER -> "ok"

\* The reply is printed: as it is, or in short.
ShowReply ==
    /\ at = "waiting" /\ reply # None /\ command.name # "watch"
    /\ IF command.json
       THEN shown' = reply.body /\ Exits(IF Succeeded THEN 0 ELSE 1)
       ELSE IF Summary = None
            THEN Exits(1) /\ UNCHANGED shown
            ELSE shown' = Summary /\ Exits(IF Succeeded THEN 0 ELSE 1)
    /\ doubt' = (doubt \/ reply.body = "internal")
    /\ UNCHANGED <<key, command, tries, reply, pending, performed, documentVars>>

NewLine == Summary # shown

\* _watch: prints the line if it is not the last one printed, and sleeps.
Watch ==
    /\ at = "waiting" /\ reply # None /\ command.name = "watch"
    /\ IF Summary = None
       THEN Exits(1) /\ UNCHANGED shown
       ELSE at' = "sleeping" /\ shown' = (IF NewLine THEN Summary ELSE shown)
            /\ UNCHANGED exit
    /\ UNCHANGED <<key, command, tries, reply, pending, performed, doubt, documentVars>>

\* The next request of the watch.
Wake ==
    /\ at = "sleeping"
    /\ at' = "waiting" /\ pending' = pending \cup {tries} /\ reply' = None
    /\ UNCHANGED <<key, command, tries, shown, exit, performed, doubt, documentVars>>

Interrupt ==
    /\ command.name = "watch" /\ at \in {"waiting", "sleeping"} /\ Exits(0)
    /\ UNCHANGED <<key, command, tries, reply, shown, pending, performed, doubt, documentVars>>

QsctlNext ==
    \/ Type \/ Unreachable \/ StopWaiting \/ ShowReply \/ Watch \/ Wake \/ Interrupt \/ Change
    \/ \E n \in 1..MaxTries : Serve(n)

\* qsctl goes on, and does not wait for ever; the service need not answer.
QsctlGoesOn == StopWaiting \/ Unreachable \/ ShowReply \/ Watch \/ Wake

QsctlFairness == WF_qsctlVars(QsctlGoesOn)

QsctlSpec == QsctlInit /\ [][QsctlNext]_qsctlVars /\ QsctlFairness

-----------------------------------------------------------------------------
(* Properties. *)

\* An operator who types the command again whenever it has exited with 1 does not add the
\* item, or start the queue, twice, unless qsctl has once left it open whether that was done:
\* it gave up waiting, its connection broke, or it printed an internal error.
RepeatedOnlyInDoubt == Cardinality(performed) > 1 => doubt

\* tests/test_qsctl_and_list_plans.py:48, "Failures come back as exit code 1": a change
\* for which qsctl prints ok and exits with 0 was carried out.
OkMeansDone ==
    exit = 0 /\ command.name \in Changes => tries \in performed

\* qsctl.py:234, "cannot reach qs": what failed was not done.
ErrorMeansNotDone ==
    exit = 1 /\ command.name \in Changes => tries \notin performed
================================================================================
