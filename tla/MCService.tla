------------------------------- MODULE MCService -------------------------------
(* Instances of the parts of the service and its clients that meet only where *)
(* one begins after another has ended: how a process starts, loads a profile, *)
(* stops, names a failure, serves a websocket and answers qsctl.  They share  *)
(* no variable, so a behaviour is one of one part, the others at their start. *)
EXTENDS Startup, ProfileSource, Shutdown, Diagnostics, Sockets, Qsctl

CONSTANT MaxLines  \* lines of a profile's first file (bound; the second has one at most)

VARIABLE part  \* the part that moves

Parts == {"startup", "profile", "shutdown", "diagnostics", "sockets", "qsctl"}

\* The settings of the part that moves, or one of them, for any other.
Of(name, all, one) == IF part = name THEN all ELSE {one}

\* Profiles of two files, modules of two lines, and databases of two entries.
UpTo(n, S) == UNION {[1..k -> S] : k \in 0..n}
PyOrNot(n, lines) == [name : {n}, suffix : {".py", ".ipy"}, lines : lines]
SmallContents ==
    [kind : {"ipython"}, files : {{f, g} : f \in PyOrNot(1, UpTo(MaxLines, Line)),
                                           g \in PyOrNot(2, UpTo(1, Line))}]
    \cup [kind : {"bits"}, lines : UpTo(2, Line \ [does : {"magic"}]),
          oregistry : UpTo(2, [name : {"a", "b"}, device : Devices, raises : BOOLEAN])]
    \cup [kind : {"happi"}, entries : UpTo(2, [name : {"a", "b"}, active : BOOLEAN, loads : BOOLEAN])]
    \cup [kind : {"missing"}]

\* Exceptions of which one at most is a FailedStatus; nothing else tells them apart, so
\* one of them may be the one that was raised.
Carried ==
    {[e \in Exceptions |-> IF e = failed THEN carried ELSE None] :
        failed \in Exceptions, carried \in Exceptions \cup {None}}
Alone == [cause |-> None, context |-> None, suppress |-> FALSE]

AKey == [header |-> None, apiKey |-> "key", accessToken |-> None]
Secured == [anonymous |-> FALSE, key |-> "key"]

MCInit ==
    /\ part \in Parts
    /\ Starting(Of("startup", Files, None), IF part = "startup" THEN Settings ELSE {})
    /\ part # "startup" => environment = {} /\ ~listing
    /\ Loading(Of("profile", SmallContents, [kind |-> "missing"]))
    /\ ShutdownInit
    /\ Raising({CHOOSE e \in Exceptions : TRUE}, Of("diagnostics", Link, Alone),
               Of("diagnostics", Carried, [e \in Exceptions |-> None]))
    /\ part # "diagnostics" => frame = [e \in Exceptions |-> FALSE]
    /\ \/ Opening(Of("sockets", Settled, Secured), Of("sockets", Presented, AKey), {MaxPublished})
       \/ part = "sockets" /\ Opening({Secured}, {AKey}, {0})
    /\ part # "sockets" => kind = "info"
    /\ About(Of("qsctl", Commands, "add"))
    /\ part # "qsctl" => key /\ ~command.json

Startups(A) ==
    /\ part = "startup" /\ A
    /\ UNCHANGED <<part, profileVars, shutdownVars, diagnosticsVars, socketVars, qsctlVars>>
Profiles(A) ==
    /\ part = "profile" /\ A
    /\ UNCHANGED <<part, vars, shutdownVars, diagnosticsVars, socketVars, qsctlVars>>
Shutdowns(A) ==
    /\ part = "shutdown" /\ A
    /\ UNCHANGED <<part, vars, profileVars, diagnosticsVars, socketVars, qsctlVars>>
Summaries(A) ==
    /\ part = "diagnostics" /\ A
    /\ UNCHANGED <<part, vars, profileVars, shutdownVars, socketVars, qsctlVars>>
OneSocket(A) ==
    /\ part = "sockets" /\ A
    /\ UNCHANGED <<part, vars, profileVars, shutdownVars, diagnosticsVars, qsctlVars>>
Asks(A) ==
    /\ part = "qsctl" /\ A
    /\ UNCHANGED <<part, vars, profileVars, shutdownVars, diagnosticsVars, socketVars>>

MCNext ==
    \/ Startups(Next) \/ Profiles(ProfileNext) \/ Shutdowns(ShutdownNext)
    \/ Summaries(DiagnosticsNext) \/ OneSocket(SocketsNext) \/ Asks(QsctlNext)

allVars == <<part, vars, profileVars, shutdownVars, diagnosticsVars, socketVars, qsctlVars>>

\* What is fair in each part is fair while it moves.
MCFairness ==
    /\ WF_allVars(Startups(LoadConfig \/ Build)) /\ WF_allVars(Startups(EngineThread))
    /\ WF_allVars(Shutdowns(MainGoesOn)) /\ WF_allVars(Shutdowns(LoopThread))
    /\ WF_allVars(Shutdowns(EngineTakes))
    /\ WF_allVars(OneSocket(Coroutine)) /\ WF_allVars(OneSocket(Deliver)) /\ WF_allVars(OneSocket(DrainEnds))
    /\ WF_allVars(Asks(QsctlGoesOn))

MCSpec == MCInit /\ [][MCNext]_allVars /\ MCFairness
================================================================================
