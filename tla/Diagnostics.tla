------------------------------ MODULE Diagnostics ------------------------------
(***************************************************************************)
(* The headline of a failure: which exception is named as its root cause,  *)
(* and which line of the profile beside it (diagnostics.py).  It is what   *)
(* last_error, the log and the outcome of a plan show.                     *)
(***************************************************************************)
EXTENDS FiniteSets, Python

CONSTANT Exceptions  \* the exceptions at hand

ASSUME DiagnosticsAssumption ==
    /\ IsFiniteSet(Exceptions)
    /\ None \notin Exceptions \cup [root : Exceptions, where : Exceptions \cup {None}]

\* How an exception was raised: `from' another, while handling another, while handling
\* another `from None', or on its own.  `from' suppresses the context as well.
Link ==
    [cause : Exceptions, context : {None}, suppress : {TRUE}]
    \cup [cause : {None}, context : Exceptions, suppress : BOOLEAN]
    \cup [cause : {None}, context : {None}, suppress : {FALSE}]

VARIABLES
    raised,  \* the exception to summarise
    link,    \* of each exception
    status,  \* of a FailedStatus, the exception its status carries; else None
    frame,   \* does its traceback have a frame outside libraries and qs?
    walk,    \* the exception that the walk is at; None: it has come to an end
    seen,    \* those it has been at
    root,    \* what root_cause has returned; None: it is still looking
    summary  \* ExceptionSummary: the exception named, and the one whose frame is

failure == <<raised, link, status, frame>>
diagnosticsVars == <<failure, walk, seen, root, summary>>

Raising(exceptions, links, statuses) ==
    /\ raised \in exceptions
    /\ link \in [Exceptions -> links]
    /\ status \in statuses
    /\ frame \in [Exceptions -> BOOLEAN]
    /\ walk = raised /\ seen = {} /\ root = None /\ summary = None

DiagnosticsInit ==
    Raising(Exceptions, Link, [Exceptions -> Exceptions \cup {None}])

-----------------------------------------------------------------------------
\* Mutant: `from None' hides nothing.
IgnoreSuppress(e) == IF link[e].cause # None THEN link[e].cause ELSE link[e].context

\* __cause__ or (None if __suppress_context__ else __context__)
Inner(e) ==
    IF link[e].cause # None THEN link[e].cause
    ELSE IF link[e].suppress THEN None ELSE link[e].context

\* What root_cause goes to next: what a failed status carries comes first.
Deeper(e) == IF status[e] \notin {None, e} THEN status[e] ELSE Inner(e)

Summarize(innermost, where) == summary' = [root |-> innermost, where |-> where]

\* A turn of root_cause's loop.
GoDeeper ==
    /\ root = None /\ walk \notin seen /\ Deeper(walk) \notin {None, walk}
    /\ walk' = Deeper(walk) /\ seen' = seen \cup {walk}
    /\ UNCHANGED <<failure, root, summary>>

\* Its end.  user_frame looks at the root first, then from the exception that was
\* raised inwards: _chain.
RootFound ==
    /\ root = None /\ (walk \in seen \/ Deeper(walk) \in {None, walk})
    /\ root' = walk /\ walk' = raised /\ seen' = {walk}
    /\ IF frame[walk] THEN Summarize(walk, walk) ELSE UNCHANGED summary
    /\ UNCHANGED failure

\* The next in the chain: it has a frame of the profile, or one further in may have.
LookAtFrames ==
    /\ root # None /\ summary = None /\ walk \notin seen \cup {None}
    /\ IF frame[walk] THEN Summarize(root, walk) /\ UNCHANGED <<walk, seen>>
       ELSE walk' = Inner(walk) /\ seen' = seen \cup {walk} /\ UNCHANGED summary
    /\ UNCHANGED <<failure, root>>

\* None in the chain has one.
NoFrame ==
    /\ root # None /\ summary = None /\ walk \in seen \cup {None}
    /\ Summarize(root, None)
    /\ UNCHANGED <<failure, walk, seen, root>>

DiagnosticsNext == GoDeeper \/ RootFound \/ LookAtFrames \/ NoFrame

DiagnosticsSpec == DiagnosticsInit /\ [][DiagnosticsNext]_diagnosticsVars

-----------------------------------------------------------------------------
(* Properties. *)

\* An exception leads to those in every set that what comes next does not lead out of.
Closed(U, next(_, _)) == \A x \in U, y \in Exceptions : next(x, y) => y \in U
Leads(e, f, next(_, _)) ==
    \A U \in SUBSET Exceptions :
        Closed(U, next) /\ (\A y \in Exceptions : next(e, y) => y \in U) => f \in U

\* Which exceptions root_cause can come to from which.
IsDeeper(e, f) == f = Deeper(e)
Towards(e, f) == Leads(e, f, IsDeeper)

\* Which ones Python prints above which: a cause, or a context that nothing suppresses.
IsPrintedNext(e, f) == f = link[e].cause \/ (f = link[e].context /\ ~link[e].suppress)
Printed(e, f) == Leads(e, f, IsPrintedNext)

\* diagnostics.py:40, "The innermost exception": the root is the exception itself or one
\* it leads to, and leads to no other unless the exceptions go round in a circle, where
\* the walk ends too.  Where they do not, the line that is named is the root's, if its
\* traceback has one of the profile, else one of an exception that Python would have
\* printed, if any has one: a wrapped failure never hides the profile's part in it.
CauseAndLineAreNamed ==
    summary # None =>
        /\ summary.root = raised \/ Towards(raised, summary.root)
        /\ Deeper(summary.root) \notin {None, summary.root} =>
             Towards(summary.root, summary.root)
        /\ Deeper(summary.root) = None =>
             LET shown == {raised, summary.root} \cup {e \in Exceptions : Printed(raised, e)}
             IN /\ frame[summary.root] => summary.where = summary.root
                /\ (summary.where = None) = (\A e \in shown : ~frame[e])
                /\ summary.where # None => summary.where \in shown /\ frame[summary.where]

\* diagnostics.py:82, "innermost first, then outwards": no exception below the one whose
\* line is named has a line of the profile (where exceptions form no circle).
DeepestLineIsNamed ==
    LET circle == \E e \in Exceptions : Towards(e, e) \/ Printed(e, e)
    IN summary # None /\ summary.where # None /\ ~circle =>
           \A e \in Exceptions : Printed(summary.where, e) => ~frame[e]
===============================================================================
