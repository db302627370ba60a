---------------------------- MODULE QueueService ----------------------------
(***************************************************************************)
(* The queue service (queue/service.py) over the queue table, as its two   *)
(* callers use it: the HTTP thread, which serves one request at a time,    *)
(* and the sequencer thread, which pops the front and adds in loop mode.   *)
(*                                                                         *)
(* A service call holds QueueService._lock and makes one or more           *)
(* transactions; each transaction is a step.  Between two of them the      *)
(* database can go away or the process die, and what was committed stays.  *)
(* move/batch is a loop of calls in the router (api/routers/queue.py): it  *)
(* has the lock during each move and not between two of them.              *)
(***************************************************************************)
EXTENDS Integers, Sequences, SequencesExt, QueueTable

CONSTANTS
    Items,        \* uids
    MaxRevision,  \* bound on the changes of one process
    MaxFailures,  \* bound on database outages and process deaths
    MaxBatch,     \* bound on the items of a batch
    MaxPosition,  \* bound on the positions that clients give, from either end
    None

ASSUME ServiceAssumption ==
    /\ None \notin Items
    /\ MaxRevision \in Nat
    /\ MaxFailures \in Nat
    /\ MaxBatch \in Nat
    /\ MaxPosition \in Nat

VARIABLES
    rows,      \* the table: uid -> position
    revision,  \* QueueService._plan_queue_uid
    call,      \* the call of the HTTP thread in progress, or None
    dbUp,      \* the database answers
    failures,  \* outages and deaths so far
    shown,     \* auxiliary: the list when the revision last changed
    owed       \* auxiliary: uids stored and not since removed, replaced or popped

vars == <<rows, revision, call, dbUp, failures, shown, owed>>

\* Where a client wants an item; Python's pos, before_uid and after_uid.
Wheres ==
    [at : {"front", "back"}] \cup [at : {"index"}, pos : -MaxPosition..MaxPosition]
        \cup [at : {"before", "after"}, uid : Items]

Back == [at |-> "back"]
After(i) == [at |-> "after", uid |-> i]
Relative(w) == w.at \in {"before", "after"}

\* A call: the operation, its item, where it goes, the next step of the code,
\* the index _resolve_index gave, the items of a batch still to be done, the
\* whole batch, and (auxiliary) the list when the call began.
Calls ==
    [op : {"add", "update", "remove", "move", "clear", "get"},
     item : Items \cup {None}, where : Wheres,
     step : {"insert", "take", "resolve", "putback", "replace", "bump", "gap", "clear",
             "snapshot", "answer"},
     index : Int, todo : Seq(Items), batch : Seq(Items), before : Seq(Items)]

ASSUME CallAssumption == None \notin Calls

\* A type for every variable.
TypeOK ==
    /\ Uids(rows) \subseteq Items /\ rows \in [Uids(rows) -> Nat]
    /\ revision \in 0..(2 * MaxRevision + MaxBatch)
    /\ call \in Calls \cup {None}
    /\ dbUp \in BOOLEAN
    /\ failures \in 0..MaxFailures
    /\ shown \in Seq(Items) /\ owed \subseteq Items

Init ==
    /\ rows = [i \in {} |-> 0]
    /\ revision = 0 /\ call = None /\ dbUp = TRUE /\ failures = 0
    /\ shown = <<>> /\ owed = {}

-----------------------------------------------------------------------------
\* The steps of a request outside the service.
Unlocked == {"gap", "snapshot", "answer"}

\* QueueService._lock is free.
LockFree == call # None => call.step \in Unlocked

\* Mutant: the item is counted although it is taken out first.
IndexOfOffByOne(t, w) ==
    CASE w.at = "front"  -> 0
      [] w.at = "back"   -> Count(t)
      [] w.at = "before" -> t[w.uid]
      [] w.at = "after"  -> t[w.uid]
      [] OTHER           -> Clamp(IF w.pos < 0 THEN Count(t) + w.pos ELSE w.pos, Count(t))

\* _resolve_index with inserting=True; it refuses a uid that is not there.
Resolvable(t, w) == Relative(w) => w.uid \in Uids(t)
IndexOf(t, w) ==
    CASE w.at = "front"  -> 0
      [] w.at = "back"   -> Count(t)
      [] w.at = "before" -> t[w.uid]
      [] w.at = "after"  -> t[w.uid] + 1
      [] OTHER           ->
            Clamp(IF w.pos < 0 THEN Count(t) + w.pos + 1 ELSE w.pos, Count(t))

\* with_new_uid: a uid that nobody has or mentions.
FreshUids ==
    Items \ (Uids(rows) \cup owed \cup
        IF call = None THEN {}
        ELSE ToSet(call.batch) \cup {call.item} \cup
             (IF Relative(call.where) THEN {call.where.uid} ELSE {}))

\* The uid an added item is stored under.
StoredUids(i) == IF i \in Uids(rows) THEN FreshUids ELSE {i}

Call(op, i, w, step, batch) ==
    [op |-> op, item |-> i, where |-> w, step |-> step, index |-> 0,
     todo |-> Tail(batch), batch |-> batch, before |-> ListOf(rows)]

Advance(step) == call' = [call EXCEPT !.step = step]

Commit(t) == rows' = t /\ UNCHANGED <<revision, dbUp, failures, shown>>
NoCommit == UNCHANGED <<rows, revision, dbUp, failures, shown, owed>>

\* _bump; what clients see from now on.
BumpRevision == revision' = revision + 1 /\ shown' = ListOf(rows')

-----------------------------------------------------------------------------
(* The requests.  Validation against the Registry comes before the lock and *)
(* is left out, as is a refusal that changes nothing.                       *)

Serving == call = None /\ dbUp /\ revision < MaxRevision

\* add, add_batch
BeginAdd(batch, w) ==
    /\ Serving /\ Resolvable(rows, w)
    /\ \E i \in StoredUids(batch[1]) :
          call' = [Call("add", i, w, "insert", batch) EXCEPT !.index = IndexOf(rows, w)]
    /\ NoCommit

\* push_front (queue/item/execute)
BeginPushFront(i) ==
    /\ Serving /\ i \notin Uids(rows)
    /\ call' = Call("add", i, [at |-> "front"], "insert", <<i>>)
    /\ NoCommit

\* update: in place the uid and position stay; with replace_uid the row is
\* removed and a new one inserted.
BeginUpdate(i, replaceUid) ==
    /\ Serving /\ i \in Uids(rows)
    /\ call' = [Call("update", i, Back, IF replaceUid THEN "take" ELSE "replace", <<i>>)
                    EXCEPT !.index = rows[i]]
    /\ NoCommit

\* remove, remove_batch (with ignore_missing, a uid that is not there is skipped)
BeginRemove(batch) ==
    /\ Serving /\ ToSet(batch) \subseteq Uids(rows) /\ IsInjective(batch)
    /\ call' = Call("remove", batch[1], Back, "take", batch)
    /\ NoCommit

BeginClear ==
    /\ Serving /\ Uids(rows) # {}
    /\ call' = Call("clear", FrontUid(rows), Back, "clear", <<FrontUid(rows)>>)
    /\ NoCommit

\* move; move/batch goes on with the rest of the uids.
BeginMove(batch, w) ==
    /\ Serving /\ batch[1] \in Uids(rows)
    /\ Relative(w) => w.uid # batch[1]
    /\ call' = Call("move", batch[1], w, "take", batch)
    /\ NoCommit

\* GET /queue/get: the items first.
QueueGet ==
    /\ Serving
    /\ call' = [Call("get", None, Back, "snapshot", <<None>>) EXCEPT !.batch = <<>>]
    /\ NoCommit

-----------------------------------------------------------------------------
(* The transactions of a call. *)

\* The database raises: the call ends, its earlier transactions stay.
Fail ==
    /\ call # None /\ call.step \notin Unlocked \cup {"bump"} /\ ~dbUp
    /\ call' = None
    /\ UNCHANGED <<rows, revision, dbUp, failures, shown, owed>>

\* _repo.remove
Take ==
    /\ call # None /\ call.step = "take" /\ dbUp
    /\ Commit(Removed(rows, call.item))
    /\ Advance(CASE call.op = "remove" -> "bump"
                 [] call.op = "update" -> "insert"
                 [] OTHER -> "resolve")
    /\ owed' = IF call.op = "remove" THEN owed \ {call.item} ELSE owed

\* Mutant: the refusal is raised without putting the item back.
DroppedOnRefusal(t, i) == t

\* The table after a refused move, with the item back in.
AfterRefusal(t, i) == Inserted(t, i, Count(t))

\* move: the target is resolved without the item; if that is refused the item
\* goes back, to the end of the queue (_index_of_or_back).
Resolve ==
    /\ call # None /\ call.step = "resolve" /\ dbUp
    /\ IF Resolvable(rows, call.where)
       THEN call' = [call EXCEPT !.step = "insert", !.index = IndexOf(rows, call.where)]
       ELSE Advance("putback")
    /\ NoCommit

PutBack ==
    /\ call # None /\ call.step = "putback" /\ dbUp
    /\ Commit(AfterRefusal(rows, call.item))
    /\ call' = None
    /\ UNCHANGED owed

\* _repo.insert; update inserts under a fresh uid.
Insert ==
    /\ call # None /\ call.step = "insert" /\ dbUp
    /\ \E i \in IF call.op = "update" THEN FreshUids ELSE {call.item} :
          /\ Commit(Inserted(rows, i, call.index))
          /\ call' = [call EXCEPT !.step = "bump", !.item = i]
          /\ owed' = (owed \ {call.item}) \cup {i}

\* _repo.replace: the content of a row, which keeps its uid and its position.
Replace ==
    /\ call # None /\ call.step = "replace" /\ dbUp
    /\ Advance("bump")
    /\ NoCommit

\* _repo.clear
ClearTable ==
    /\ call # None /\ call.step = "clear" /\ dbUp
    /\ Commit([i \in {} |-> 0])
    /\ Advance("bump")
    /\ owed' = {}

\* _bump and the end of the call.  The rest of an added or removed batch goes on
\* under the lock, the target of an add being resolved again (it is still there,
\* since nothing else gets in).  Each move of a batch ends here: the lock is free
\* until the next one.
Bump ==
    /\ call # None /\ call.step = "bump"
    /\ UNCHANGED <<rows, dbUp, failures, owed>>
    /\ BumpRevision
    /\ \/ /\ call.todo # <<>> /\ call.op = "add" /\ dbUp
          /\ \E i \in StoredUids(Head(call.todo)) :
                call' = [call EXCEPT !.step = "insert", !.item = i,
                                     !.index = IndexOf(rows, call.where),
                                     !.todo = Tail(call.todo)]
       \/ /\ call.todo # <<>> /\ call.op = "remove" /\ dbUp
          /\ call' = [call EXCEPT !.step = "take", !.item = Head(call.todo),
                                  !.todo = Tail(call.todo)]
       \/ /\ call.todo # <<>> /\ call.op = "move" /\ dbUp
          /\ Advance("gap")
       \/ (call.todo = <<>> \/ ~dbUp) /\ call' = None

\* Mutant: every item of the batch is moved to the place asked for the first.
SameTarget(c) == c.where

\* move/batch: where the next item goes.
NextTarget(c) == After(c.item)

\* The loop of move/batch: the next uid goes after the one moved before it, if
\* both are still there; the move itself refuses when the latter is not.
NextOfBatch ==
    /\ call # None /\ call.step = "gap"
    /\ LET i == Head(call.todo) IN
       IF dbUp /\ i \in Uids(rows) /\ i # call.item
       THEN call' = [call EXCEPT !.step = "take", !.item = i, !.where = NextTarget(call),
                                 !.todo = Tail(call.todo), !.before = ListOf(rows)]
       ELSE call' = None
    /\ NoCommit

\* queue/get goes on: the revision, from the status document, which answers also
\* while the database is down; then the answer.
TakeRevision ==
    /\ call # None /\ call.step = "snapshot"
    /\ call' = [call EXCEPT !.step = "answer", !.index = revision]
    /\ NoCommit

Answer ==
    /\ call # None /\ call.step = "answer"
    /\ call' = None
    /\ NoCommit

-----------------------------------------------------------------------------
(* The sequencer thread: one transaction each, under the lock. *)

PopFront ==
    /\ LockFree /\ dbUp /\ Uids(rows) # {} /\ revision < MaxRevision
    /\ rows' = Popped(rows) /\ owed' = owed \ {FrontUid(rows)}
    /\ BumpRevision
    /\ UNCHANGED <<call, dbUp, failures>>

\* Loop mode: add(item.with_new_uid()).
LoopAdd(i) ==
    /\ LockFree /\ dbUp /\ i \in FreshUids /\ revision < MaxRevision
    /\ rows' = Inserted(rows, i, Count(rows)) /\ owed' = owed \cup {i}
    /\ BumpRevision
    /\ UNCHANGED <<call, dbUp, failures>>

-----------------------------------------------------------------------------
DbFail ==
    /\ dbUp /\ failures < MaxFailures
    /\ dbUp' = FALSE /\ failures' = failures + 1
    /\ UNCHANGED <<rows, revision, call, shown, owed>>

DbRecover ==
    /\ ~dbUp /\ dbUp' = TRUE
    /\ UNCHANGED <<rows, revision, call, failures, shown, owed>>

\* The process dies and starts again: the revision begins anew.
Restart ==
    /\ failures < MaxFailures
    /\ failures' = failures + 1 /\ dbUp' = TRUE
    /\ call' = None /\ revision' = 0 /\ shown' = ListOf(rows)
    /\ UNCHANGED <<rows, owed>>

-----------------------------------------------------------------------------
(* The routes (api/routers/queue.py).  A position in a payload is looked up in   *)
(* the items and is one more way to name a uid, which may have gone since.       *)

Batches == UNION {[1..n -> Items] : n \in 2..MaxBatch}

\* /queue/item/add and add/batch, where each item is validated before any is added.
ItemAdd == \E i \in Items, w \in Wheres : BeginAdd(<<i>>, w)
ItemAddBatch == \E b \in Batches, w \in Wheres : BeginAdd(b, w)

ItemUpdate == \E i \in Items, replaceUid \in BOOLEAN : BeginUpdate(i, replaceUid)

ItemMove == \E i \in Items, w \in Wheres : BeginMove(<<i>>, w)
ItemMoveBatch == \E b \in Batches, w \in Wheres : BeginMove(b, w)

ItemRemove == \E i \in Items : BeginRemove(<<i>>)
ItemRemoveBatch == \E b \in Batches : BeginRemove(b)

\* Sequencer.execute_now, of which the queue sees the push.
ItemExecute == \E i \in Items : BeginPushFront(i)

QueueClear == BeginClear

Request ==
    \/ ItemAdd \/ ItemAddBatch \/ ItemUpdate \/ ItemMove \/ ItemMoveBatch
    \/ ItemRemove \/ ItemRemoveBatch \/ ItemExecute \/ QueueClear \/ QueueGet

CallStep ==
    \/ Take \/ Resolve \/ PutBack \/ Insert \/ Replace \/ ClearTable \/ Bump \/ NextOfBatch
    \/ TakeRevision \/ Answer \/ Fail

LoopStep == PopFront \/ \E i \in Items : LoopAdd(i)

Next == Request \/ CallStep \/ LoopStep \/ DbFail \/ DbRecover \/ Restart

Spec == Init /\ [][Next]_vars

-----------------------------------------------------------------------------
(* Properties. *)

\* queue_repository.py:29: "Positions are dense integers, renumbered on change",
\* whatever mix of transactions the calls, failures and restarts produce.
PositionsDense == Dense(rows)

\* The table with its positions is the list of the repository protocol: each
\* transaction is one list operation, as in the in-memory repository.
AsList == INSTANCE QueueList WITH list <- ListOf(rows)
ImplementsList == AsList!Spec

\* Where an added or moved item must be, given what the client asked for.
PlacedAs(t, w, i) ==
    CASE w.at = "front"  -> t[i] = 0
      [] w.at = "back"   -> t[i] = Count(t) - 1
      [] w.at = "before" -> t[i] + 1 = t[w.uid]
      [] w.at = "after"  -> t[i] = t[w.uid] + 1
      [] OTHER -> t[i] = IF w.pos >= 0 THEN Clamp(w.pos, Count(t) - 1)
                            ELSE Clamp(Count(t) + w.pos, Count(t) - 1)

\* An item lands where the client asked, for every form of the position
\* (add, move, _resolve_index).
PlacedWhereAsked ==
    call # None /\ call.op \in {"add", "move"} /\ call.step = "bump"
        => PlacedAs(rows, call.where, call.item)

\* When a batch has been moved to its end, those of its items that the sequencer
\* has not taken meanwhile stand one after another, in the order given
\* (routers/queue.py, move/batch: "preserving order").  A batch that names an item
\* twice gives no order.
BatchStaysTogether ==
    call # None /\ call.op = "move" /\ call.step = "bump" /\ call.todo = <<>>
        /\ IsInjective(call.batch)
        => \A k \in 1..(Len(call.batch) - 1) :
              {call.batch[k], call.batch[k + 1]} \subseteq Uids(rows)
                 => rows[call.batch[k + 1]] = rows[call.batch[k]] + 1

\* The item that a move or an update has taken out and not yet put back.
InFlight ==
    IF call # None /\ call.op \in {"move", "update"}
                   /\ call.step \in {"resolve", "insert", "putback"}
    THEN {call.item} ELSE {}

\* A move, and an update that replaces the uid, are two transactions: a failure
\* between them loses the item.  Nothing else loses one: no refusal, and no
\* failure more than one.
EachFailureLosesAtMostOne ==
    Cardinality(owed \ (Uids(rows) \cup InFlight)) <= failures

\* service.py:30: "bumps on every change; reported to clients as
\* plan_queue_uid".  Between two calls, what a client with the current revision
\* last saw is what the queue is.
RevisionTracksTheQueue == LockFree => ListOf(rows) = shown

\* service.py:30, of plan_queue_uid: "bumps on every change; reported to clients".
\* A client that has been answered with the revision that is still the current one
\* has been shown the queue as it is.
AnswerIsCurrent ==
    call # None /\ call.step = "answer" /\ call.index = revision
        => call.before = ListOf(rows)
=============================================================================
