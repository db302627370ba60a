--------------------------- MODULE QueueServiceProofs ---------------------------
(***************************************************************************)
(* That the positions of the queue are dense, that the table refines the   *)
(* list, that items land where they are asked for and that a failure loses *)
(* one item at most, for any set of items, any number of changes, outages  *)
(* and restarts.  Each transaction keeps the positions dense if the item   *)
(* it removes is there, and the item it inserts is not; that is what a     *)
(* call knows of its item while it holds the lock.  What is lost is        *)
(* counted against the failures from the moment the database is down.      *)
(***************************************************************************)
EXTENDS QueueService, FiniteSetTheorems, SequenceLemmas, TLAPS

-----------------------------------------------------------------------------
(* What one transaction does to a table that is dense. *)

\* A table that is dense and finite.
Table(t) == IsFiniteSet(Uids(t)) /\ Dense(t)

LEMMA ClampIs ==
  ASSUME NEW k \in Int, NEW n \in Nat
  PROVE  Clamp(k, n) \in 0..n
  BY DEF Clamp

\* _repo.insert
LEMMA InsertedIsDense ==
  ASSUME NEW t, Table(t), NEW i, i \notin Uids(t), NEW k \in Int
  PROVE  /\ Table(Inserted(t, i, k))
         /\ Uids(Inserted(t, i, k)) = Uids(t) \cup {i}
         /\ Inserted(t, i, k)[i] \in Nat
  <1> DEFINE p == Clamp(k, Count(t))
             u == Inserted(t, i, k)
  <1>1. Count(t) \in Nat /\ \A j \in Uids(t) : t[j] \in 0..(Count(t) - 1)
    BY FS_CardinalityType DEF Table, Dense, Count, Uids
  <1>2. p \in 0..Count(t)
    BY <1>1, ClampIs
  <1>3. Uids(u) = Uids(t) \cup {i}
    BY DEF Inserted, Uids
  <1>4. IsFiniteSet(Uids(u)) /\ Count(u) = Count(t) + 1
    BY <1>3, FS_AddElement DEF Table, Count, Uids
  <1>5. /\ u[i] = p
        /\ \A j \in Uids(t) : u[j] = IF t[j] >= p THEN t[j] + 1 ELSE t[j]
    BY DEF Inserted
  <1> HIDE DEF p, u
  <1>6. ASSUME NEW a \in Uids(u), NEW b \in Uids(u), u[a] = u[b] PROVE a = b
    <2>1. CASE a = i \/ b = i
      BY <1>1, <1>2, <1>3, <1>5, <1>6, <2>1
    <2>2. CASE a \in Uids(t) /\ b \in Uids(t)
      <3>1. t[a] = t[b]
        BY <1>1, <1>2, <1>5, <1>6, <2>2
      <3> QED
        BY <2>2, <3>1 DEF Table, Dense
    <2> QED
      BY <1>3, <2>1, <2>2
  <1>7. ASSUME NEW a \in Uids(u) PROVE u[a] \in 0..(Count(u) - 1)
    BY <1>1, <1>2, <1>3, <1>4, <1>5
  <1>8. ASSUME NEW q \in 0..(Count(u) - 1) PROVE \E a \in Uids(u) : u[a] = q
    <2>1. CASE q = p
      BY <1>3, <1>5, <2>1
    <2>2. CASE q < p
      <3>1. PICK a \in Uids(t) : t[a] = q
        BY <1>1, <1>2, <1>4, <2>2 DEF Table, Dense
      <3> QED
        BY <1>1, <1>2, <1>3, <1>5, <2>2, <3>1
    <2>3. CASE q > p
      <3>1. PICK a \in Uids(t) : t[a] = q - 1
        BY <1>1, <1>2, <1>4, <2>3 DEF Table, Dense
      <3> QED
        BY <1>1, <1>2, <1>3, <1>5, <2>3, <3>1
    <2> QED
      BY <1>1, <1>2, <1>4, <2>1, <2>2, <2>3
  <1>9. u[i] \in Nat
    BY <1>1, <1>2, <1>5
  <1> QED
    BY <1>3, <1>4, <1>6, <1>7, <1>8, <1>9 DEF Table, Dense, u

\* _repo.remove
LEMMA RemovedIsDense ==
  ASSUME NEW t, Table(t), NEW i \in Uids(t)
  PROVE  Table(Removed(t, i)) /\ Uids(Removed(t, i)) = Uids(t) \ {i}
  <1> DEFINE u == Removed(t, i)
  <1>1. Count(t) \in Nat /\ \A j \in Uids(t) : t[j] \in 0..(Count(t) - 1)
    BY FS_CardinalityType DEF Table, Dense, Count, Uids
  <1>2. Uids(u) = Uids(t) \ {i}
    BY DEF Removed, Uids
  <1>3. IsFiniteSet(Uids(u)) /\ Count(u) = Count(t) - 1
    BY <1>2, FS_RemoveElement DEF Table, Count, Uids
  <1>4. \A j \in Uids(u) : u[j] = IF t[j] > t[i] THEN t[j] - 1 ELSE t[j]
    BY <1>2 DEF Removed
  <1>5. \A a, b \in Uids(t) : t[a] = t[b] => a = b
    BY DEF Table, Dense
  <1> HIDE DEF u
  <1>6. ASSUME NEW a \in Uids(u), NEW b \in Uids(u), u[a] = u[b] PROVE a = b
    <2>1. t[a] # t[i] /\ t[b] # t[i]
      BY <1>2, <1>5
    <2>2. t[a] = t[b]
      BY <1>1, <1>2, <1>4, <1>6, <2>1
    <2> QED
      BY <1>2, <1>5, <2>2
  <1>7. ASSUME NEW a \in Uids(u) PROVE u[a] \in 0..(Count(u) - 1)
    <2>1. t[a] # t[i]
      BY <1>2, <1>5
    <2> QED
      BY <1>1, <1>2, <1>3, <1>4, <2>1
  <1>8. ASSUME NEW q \in 0..(Count(u) - 1) PROVE \E a \in Uids(u) : u[a] = q
    <2>1. CASE q < t[i]
      <3>1. PICK a \in Uids(t) : t[a] = q
        BY <1>1, <1>3 DEF Table, Dense
      <3> QED
        BY <1>1, <1>2, <1>4, <2>1, <3>1
    <2>2. CASE q >= t[i]
      <3>1. PICK a \in Uids(t) : t[a] = q + 1
        BY <1>1, <1>3 DEF Table, Dense
      <3> QED
        BY <1>1, <1>2, <1>4, <2>2, <3>1
    <2> QED
      BY <1>1, <1>3, <2>1, <2>2
  <1> QED
    BY <1>2, <1>3, <1>6, <1>7, <1>8 DEF Table, Dense, u

\* The front row is the one at position 0.
LEMMA FrontIsThere ==
  ASSUME NEW t, Table(t), Uids(t) # {}
  PROVE  FrontUid(t) \in Uids(t) /\ t[FrontUid(t)] = 0
  <1>1. Count(t) \in Nat /\ \A j \in Uids(t) : t[j] \in 0..(Count(t) - 1)
    BY FS_CardinalityType DEF Table, Dense, Count, Uids
  <1>2. PICK z \in Uids(t) : t[z] = 0
    BY <1>1 DEF Table, Dense
  <1>3. FrontUid(t) \in Uids(t) /\ \A j \in Uids(t) : t[FrontUid(t)] <= t[j]
    <2>1. \A j \in Uids(t) : t[z] <= t[j]
      BY <1>1, <1>2
    <2> QED
      BY <2>1 DEF FrontUid
  <1>4. t[FrontUid(t)] = 0
    BY <1>1, <1>2, <1>3
  <1> QED
    BY <1>3, <1>4

\* pop_front
LEMMA PoppedIsDense ==
  ASSUME NEW t, Table(t), Uids(t) # {}
  PROVE  Table(Popped(t))
  <1>1. FrontUid(t) \in Uids(t) /\ t[FrontUid(t)] = 0
    BY FrontIsThere
  <1>2. \A j \in Uids(t) \ {FrontUid(t)} : t[j] > 0
    BY <1>1, FS_CardinalityType DEF Table, Dense, Count, Uids
  <1>3. Popped(t) = Removed(t, FrontUid(t))
    BY <1>1, <1>2 DEF Popped, Removed
  <1> QED
    BY <1>1, <1>3, RemovedIsDense

\* What _resolve_index needs to know of a place.
Form(w) ==
    /\ w.at \in {"front", "back", "index", "before", "after"}
    /\ w.at = "index" => w.pos \in Int

LEMMA WheresHaveForm == \A w \in Wheres : Form(w)
  BY DEF Wheres, Form

\* _resolve_index
LEMMA IndexIsInt ==
  ASSUME NEW t, Table(t), NEW w, Form(w), Resolvable(t, w)
  PROVE  IndexOf(t, w) \in Int
  <1>1. Count(t) \in Nat /\ \A j \in Uids(t) : t[j] \in Int
    BY FS_CardinalityType DEF Table, Dense, Count, Uids
  <1>2. CASE w.at \in {"front", "back"}
    BY <1>1, <1>2 DEF IndexOf
  <1>3. CASE w.at \in {"before", "after"}
    BY <1>1, <1>3 DEF IndexOf, Resolvable, Relative
  <1>4. CASE w.at = "index"
    <2>1. w.pos \in Int
      BY <1>4 DEF Form
    <2>2. (IF w.pos < 0 THEN Count(t) + w.pos + 1 ELSE w.pos) \in Int
      BY <1>1, <2>1
    <2> QED
      BY <1>1, <1>4, <2>2, ClampIs DEF IndexOf
  <1> QED
    BY <1>2, <1>3, <1>4 DEF Form

-----------------------------------------------------------------------------
(* What a call knows. *)

Fields == {"op", "item", "where", "step", "index", "todo", "batch", "before"}

\* The steps that a call goes through, by its operation.
StepsOf ==
    [add    |-> {"insert", "bump"},
     update |-> {"take", "insert", "replace", "bump"},
     remove |-> {"take", "bump"},
     move   |-> {"take", "resolve", "putback", "insert", "bump", "gap"},
     clear  |-> {"clear", "bump"},
     get    |-> {"snapshot", "answer"}]

\* A call of which c is the record, when the table is t.
Knows(c, t) ==
    /\ DOMAIN c = Fields
    /\ c.op \in {"add", "update", "remove", "move", "clear", "get"}
    /\ c.step \in StepsOf[c.op]
    /\ c.op # "get" => c.index \in Int
    /\ Form(c.where)
    /\ c.todo \in Seq(Items)
    /\ c.step = "gap" => c.todo # <<>>
    /\ c.step = "take" => c.item \in Uids(t)
    /\ c.step \in {"resolve", "putback"} => c.item \notin Uids(t)
    /\ c.step = "insert" /\ c.op # "update" => c.item \notin Uids(t)
    /\ c.op = "add" => Resolvable(t, c.where)
    /\ c.op = "remove" =>
         /\ ToSet(c.todo) \subseteq Uids(t) /\ IsInjective(c.todo)
         /\ c.step = "take" => c.item \notin ToSet(c.todo)

QueueInv ==
    /\ Table(rows)
    /\ call # None => Knows(call, rows)

\* An item is stored under a uid that the table does not have.
LEMMA StoredIsNew ==
  ASSUME NEW i, NEW j \in StoredUids(i)
  PROVE  j \notin Uids(rows)
  BY DEF StoredUids, FreshUids

LEMMA QueueBegins == Init => QueueInv
  <1> SUFFICES ASSUME Init PROVE QueueInv
    OBVIOUS
  <1>1. Uids(rows) = {} /\ Count(rows) = 0
    BY FS_EmptySet DEF Init, Uids, Count
  <1> QED
    BY <1>1, FS_EmptySet DEF Init, QueueInv, Table, Dense

\* A request is about a sequence of items, of which the first is the next.
LEMMA BatchType ==
  /\ \A i : Tail(<<i>>) = <<>> /\ <<i>>[1] = i
  /\ <<>> \in Seq(Items)
  /\ \A i \in Items : <<i>> \in Seq(Items) /\ <<i>> # <<>>
  /\ \A b \in Batches : b \in Seq(Items) /\ b # <<>> /\ b[1] \in Items
  /\ \A b \in Seq(Items) : b # <<>> => Tail(b) \in Seq(Items) /\ Head(b) = b[1] /\ b[1] \in Items
  <1>1. ASSUME NEW b \in Batches PROVE b \in Seq(Items) /\ b # <<>>
    <2>1. PICK n \in 2..MaxBatch : b \in [1..n -> Items]
      BY DEF Batches
    <2>2. n \in Nat /\ 1 \in 1..n
      BY <2>1
    <2>3. b \in Seq(Items) /\ DOMAIN b # {}
      BY <2>1, <2>2, SeqDef
    <2> QED
      BY <2>3
  <1>2. ASSUME NEW b \in Seq(Items), b # <<>>
        PROVE  Tail(b) \in Seq(Items) /\ Head(b) = b[1] /\ b[1] \in Items
    BY <1>2, HeadTailProperties
  <1>3. \A i : Tail(<<i>>) = <<>> /\ <<i>>[1] = i
    OBVIOUS
  <1>4. \A i \in Items : <<i>> \in Seq(Items) /\ <<i>> # <<>>
    OBVIOUS
  <1> QED
    BY <1>1, <1>2, <1>3, <1>4

\* A request that begins knows its item to be where it says.
LEMMA RequestKeeps ==
  ASSUME QueueInv, Request
  PROVE  QueueInv'
  <1> USE DEF QueueInv, NoCommit
  <1>0. Form(Back) /\ Form([at |-> "front"]) /\ ~Relative(Back) /\ ~Relative([at |-> "front"])
    BY DEF Form, Back, Relative
  <1>1. ASSUME NEW b, NEW w \in Wheres, BeginAdd(b, w), b \in Seq(Items), b # <<>>
        PROVE  QueueInv'
    <2>1. PICK i \in StoredUids(b[1]) :
            call' = [Call("add", i, w, "insert", b) EXCEPT !.index = IndexOf(rows, w)]
      BY <1>1 DEF BeginAdd
    <2>2. Resolvable(rows, w) /\ rows' = rows /\ IndexOf(rows, w) \in Int
      BY <1>1, IndexIsInt, WheresHaveForm DEF BeginAdd
    <2>3. i \notin Uids(rows)
      BY StoredIsNew
    <2> QED
      BY <1>1, <2>1, <2>2, <2>3, BatchType, WheresHaveForm DEF Call, Knows, Fields, StepsOf
  <1>2. CASE ItemExecute
    <2>1. PICK i \in Items : BeginPushFront(i)
      BY <1>2 DEF ItemExecute
    <2> QED
      BY <1>0, <2>1, BatchType DEF BeginPushFront, Call, Knows, Fields, StepsOf, Resolvable
  <1>3. CASE ItemUpdate
    <2>1. PICK i \in Items, replaceUid \in BOOLEAN : BeginUpdate(i, replaceUid)
      BY <1>3 DEF ItemUpdate
    <2>2. rows[i] \in Int
      BY <2>1, FS_CardinalityType DEF BeginUpdate, Table, Dense, Count, Uids
    <2> QED
      BY <1>0, <2>1, <2>2, BatchType DEF BeginUpdate, Call, Knows, Fields, StepsOf
  <1>4. ASSUME NEW b \in Seq(Items), b # <<>>, BeginRemove(b)
        PROVE  QueueInv'
    <2>1. ToSet(b) \subseteq Uids(rows) /\ IsInjective(b) /\ Tail(b) \in Seq(Items)
      BY <1>4, BatchType DEF BeginRemove
    <2>2. /\ IsInjective(Tail(b)) /\ Head(b) \notin ToSet(Tail(b))
          /\ ToSet(b) = ToSet(Tail(b)) \cup {Head(b)}
      BY <1>4, <2>1, TailDistinct
    <2>3. Head(b) = b[1]
      BY <1>4, BatchType
    <2> QED
      BY <1>0, <1>4, <2>1, <2>2, <2>3 DEF BeginRemove, Call, Knows, Fields, StepsOf
  <1>5. CASE BeginClear
    BY <1>0, <1>5, BatchType DEF BeginClear, Call, Knows, Fields, StepsOf
  <1>6. ASSUME NEW b, NEW w \in Wheres, BeginMove(b, w), b \in Seq(Items), b # <<>>
        PROVE  QueueInv'
    BY <1>6, BatchType, WheresHaveForm DEF BeginMove, Call, Knows, Fields, StepsOf
  <1>7. CASE QueueGet
    BY <1>0, <1>7, BatchType DEF QueueGet, Call, Knows, Fields, StepsOf
  <1>8. CASE ItemAdd \/ ItemAddBatch
    BY <1>1, <1>8, BatchType DEF ItemAdd, ItemAddBatch
  <1>9. CASE ItemMove \/ ItemMoveBatch
    BY <1>6, <1>9, BatchType DEF ItemMove, ItemMoveBatch
  <1>10. CASE ItemRemove
    <2>1. PICK i \in Items : BeginRemove(<<i>>)
      BY <1>10 DEF ItemRemove
    <2> QED
      BY <1>4, <2>1, BatchType
  <1>11. CASE ItemRemoveBatch
    BY <1>4, <1>11, BatchType DEF ItemRemoveBatch
  <1> QED
    BY <1>2, <1>3, <1>5, <1>7, <1>8, <1>9, <1>10, <1>11 DEF Request, QueueClear

\* A step of a call keeps what the call knows; a transaction keeps the table dense.
LEMMA CallKeeps ==
  ASSUME QueueInv, CallStep
  PROVE  QueueInv'
  <1> USE DEF QueueInv, NoCommit, Commit, Advance
  <1>1. CASE Take
    <2>1. call # None /\ call.step = "take" /\ rows' = Removed(rows, call.item) /\ Knows(call, rows)
      BY <1>1 DEF Take
    <2>2. Table(rows') /\ Uids(rows') = Uids(rows) \ {call.item}
      BY <2>1, RemovedIsDense DEF Knows
    <2>3. call.op \in {"remove", "update", "move"}
      BY <2>1 DEF Knows, StepsOf
    <2>4. call' = [call EXCEPT !.step = CASE call.op = "remove" -> "bump"
                                          [] call.op = "update" -> "insert"
                                          [] OTHER -> "resolve"]
      BY <1>1 DEF Take
    <2> QED
      BY <2>1, <2>2, <2>3, <2>4 DEF Knows, Fields, StepsOf
  <1>2. CASE Resolve
    <2>1. CASE Resolvable(rows, call.where)
      <3>1. IndexOf(rows, call.where) \in Int
        BY <1>2, <2>1, IndexIsInt DEF Resolve, Knows
      <3>2. /\ call # None /\ Knows(call, rows) /\ call.step = "resolve"
            /\ call' = [call EXCEPT !.step = "insert", !.index = IndexOf(rows, call.where)]
            /\ rows' = rows
        BY <1>2, <2>1 DEF Resolve
      <3>3. call.op = "move"
        BY <3>2 DEF Knows, StepsOf
      <3>4. Knows(call', rows)
        BY <3>1, <3>2, <3>3 DEF Knows, Fields, StepsOf
      <3> QED
        BY <3>2, <3>4
    <2>2. CASE ~Resolvable(rows, call.where)
      BY <1>2, <2>2 DEF Resolve, Knows, Fields, StepsOf
    <2> QED
      BY <2>1, <2>2
  <1>3. CASE PutBack
    <2>1. Count(rows) \in Int
      BY FS_CardinalityType DEF Table, Count, Uids
    <2> QED
      BY <1>3, <2>1, InsertedIsDense DEF PutBack, AfterRefusal, Knows
  <1>4. CASE Insert
    <2>1. call # None /\ call.step = "insert" /\ Knows(call, rows)
      BY <1>4 DEF Insert
    <2>2. PICK i \in IF call.op = "update" THEN FreshUids ELSE {call.item} :
            /\ rows' = Inserted(rows, i, call.index)
            /\ call' = [call EXCEPT !.step = "bump", !.item = i]
      BY <1>4 DEF Insert
    <2>3. i \notin Uids(rows)
      BY <2>1, <2>2 DEF Knows, FreshUids
    <2>4. call.op \in {"add", "update", "move"} /\ call.index \in Int
      BY <2>1 DEF Knows, StepsOf
    <2>5. Table(rows') /\ Uids(rows') = Uids(rows) \cup {i}
      BY <2>2, <2>3, <2>4, InsertedIsDense
    <2>6. Knows(call', rows')
      BY <2>1, <2>2, <2>4, <2>5 DEF Knows, Fields, StepsOf, Resolvable
    <2> QED
      BY <2>5, <2>6
  <1>5. CASE ClearTable
    <2>1. Table(rows')
      <3>1. Uids(rows') = {} /\ Count(rows') = 0
        BY <1>5, FS_EmptySet DEF ClearTable, Uids, Count
      <3> QED
        BY <3>1, FS_EmptySet DEF Table, Dense
    <2>2. call.op = "clear"
      BY <1>5 DEF ClearTable, Knows, StepsOf
    <2> QED
      BY <1>5, <2>1, <2>2 DEF ClearTable, Knows, Fields, StepsOf
  <1>6. CASE Bump
    <2>1. call # None /\ call.step = "bump" /\ Knows(call, rows) /\ rows' = rows
      BY <1>6 DEF Bump
    <2>2. ASSUME call.todo # <<>>, call.op = "add",
                 NEW i \in StoredUids(Head(call.todo)),
                 call' = [call EXCEPT !.step = "insert", !.item = i,
                                      !.index = IndexOf(rows, call.where),
                                      !.todo = Tail(call.todo)]
          PROVE  QueueInv'
      <3>1. IndexOf(rows, call.where) \in Int /\ i \notin Uids(rows)
        BY <2>1, <2>2, IndexIsInt, StoredIsNew DEF Knows
      <3>2. Tail(call.todo) \in Seq(Items)
        BY <2>1, <2>2, BatchType DEF Knows
      <3> QED
        BY <2>1, <2>2, <3>1, <3>2 DEF Knows, Fields, StepsOf
    <2>3. ASSUME call.todo # <<>>, call.op = "remove",
                 call' = [call EXCEPT !.step = "take", !.item = Head(call.todo),
                                      !.todo = Tail(call.todo)]
          PROVE  QueueInv'
      <3>1. /\ call.todo \in Seq(Items) /\ Tail(call.todo) \in Seq(Items)
            /\ ToSet(call.todo) \subseteq Uids(rows) /\ IsInjective(call.todo)
        BY <2>1, <2>3, BatchType DEF Knows
      <3>2. /\ IsInjective(Tail(call.todo)) /\ Head(call.todo) \notin ToSet(Tail(call.todo))
            /\ ToSet(call.todo) = ToSet(Tail(call.todo)) \cup {Head(call.todo)}
        BY <2>3, <3>1, TailDistinct
      <3> QED
        BY <2>1, <2>3, <3>1, <3>2 DEF Knows, Fields, StepsOf
    <2>4. ASSUME call.todo # <<>>, call.op = "move", call' = [call EXCEPT !.step = "gap"] PROVE QueueInv'
      BY <2>1, <2>4 DEF Knows, Fields, StepsOf
    <2>5. ASSUME call' = None PROVE QueueInv'
      BY <2>1, <2>5
    <2> QED
      BY <1>6, <2>2, <2>3, <2>4, <2>5 DEF Bump
  <1>7. CASE NextOfBatch
    <2>1. call # None /\ call.step = "gap" /\ Knows(call, rows) /\ rows' = rows
      BY <1>7 DEF NextOfBatch
    <2>2. call.op = "move"
      BY <2>1 DEF Knows, StepsOf
    <2>3. CASE call' = None
      BY <2>1, <2>3
    <2>4. CASE /\ Head(call.todo) \in Uids(rows)
               /\ call' = [call EXCEPT !.step = "take", !.item = Head(call.todo),
                                       !.where = NextTarget(call),
                                       !.todo = Tail(call.todo), !.before = ListOf(rows)]
      <3>1. Tail(call.todo) \in Seq(Items)
        BY <2>1, BatchType DEF Knows
      <3>2. Form(NextTarget(call))
        BY DEF NextTarget, After, Form
      <3>3. Knows(call', rows)
        BY <2>1, <2>2, <2>4, <3>1, <3>2 DEF Knows, Fields, StepsOf
      <3> QED
        BY <2>1, <3>3
    <2> QED
      BY <1>7, <2>3, <2>4 DEF NextOfBatch
  <1>8. CASE TakeRevision
    BY <1>8 DEF TakeRevision, Knows, Fields, StepsOf
  <1>10. CASE Replace
    BY <1>10 DEF Replace, Knows, Fields, StepsOf
  <1>9. CASE Answer \/ Fail
    BY <1>9 DEF Answer, Fail
  <1> QED
    BY <1>1, <1>2, <1>3, <1>4, <1>5, <1>6, <1>7, <1>8, <1>9, <1>10 DEF CallStep

\* The sequencer comes where no call has the lock, and so none relies on the table.
LEMMA LoopKeeps ==
  ASSUME QueueInv, LoopStep
  PROVE  QueueInv'
  <1> USE DEF QueueInv
  <1>1. ASSUME Table(rows'), UNCHANGED call, LockFree PROVE QueueInv'
    <2>1. ASSUME call # None, Knows(call, rows) PROVE Knows(call, rows')
      <3>1. call.step \in {"gap", "snapshot", "answer"}
        BY <1>1, <2>1 DEF LockFree, Unlocked
      <3>2. call.op \in {"move", "get"}
        BY <2>1, <3>1 DEF Knows, StepsOf
      <3> QED
        BY <2>1, <3>1, <3>2 DEF Knows
    <2> QED
      BY <1>1, <2>1
  <1>2. CASE PopFront
    BY <1>1, <1>2, PoppedIsDense DEF PopFront
  <1>3. ASSUME NEW i \in Items, LoopAdd(i) PROVE QueueInv'
    <2>1. Count(rows) \in Int
      BY FS_CardinalityType DEF Table, Count, Uids
    <2>2. i \notin Uids(rows)
      BY <1>3 DEF LoopAdd, FreshUids
    <2> QED
      BY <1>1, <1>3, <2>1, <2>2, InsertedIsDense DEF LoopAdd
  <1> QED
    BY <1>2, <1>3 DEF LoopStep

\* "Positions are dense integers, renumbered on change" (queue_repository.py:29), whatever
\* mix of calls, pops, failures and restarts there is.
THEOREM PositionsStayDense == Spec => []PositionsDense
  <1>1. QueueInv /\ [Next]_vars => QueueInv'
    <2> SUFFICES ASSUME QueueInv, [Next]_vars PROVE QueueInv'
      OBVIOUS
    <2>1. CASE DbFail \/ DbRecover \/ Restart \/ UNCHANGED vars
      BY <2>1 DEF QueueInv, DbFail, DbRecover, Restart, vars
    <2> QED
      BY <2>1, RequestKeeps, CallKeeps, LoopKeeps DEF Next
  <1>2. QueueInv => PositionsDense
    BY DEF QueueInv, Table, PositionsDense
  <1> QED
    BY QueueBegins, <1>1, <1>2, PTL DEF Spec

-----------------------------------------------------------------------------
(* The list that the table is, and the types of calls. *)

\* As many rows are below a position as there are positions below it.
LEMMA RowsBelow ==
  ASSUME NEW t, Table(t), NEW q \in 0..Count(t)
  PROVE  Cardinality({j \in Uids(t) : t[j] < q}) = q
  <1> DEFINE B == {j \in Uids(t) : t[j] < q}
             f == [x \in B |-> t[x]]
  <1>1. Count(t) \in Nat /\ \A j \in Uids(t) : t[j] \in 0..(Count(t) - 1)
    BY FS_CardinalityType DEF Table, Dense, Count, Uids
  <1>2. f \in [B -> 0..(q - 1)]
    BY <1>1
  <1>3. \A a, b \in B : f[a] = f[b] => a = b
    BY DEF Table, Dense
  <1>4. ASSUME NEW r \in 0..(q - 1) PROVE \E x \in B : f[x] = r
    <2>1. PICK x \in Uids(t) : t[x] = r
      BY <1>1 DEF Table, Dense
    <2> QED
      BY <1>1, <2>1
  <1>5. ExistsBijection(B, 0..(q - 1))
    <2> HIDE DEF B, f
    <2>1. DOMAIN f = B
      BY <1>2
    <2>2. f \in Injection(B, 0..(q - 1))
      BY <1>2, <1>3, <2>1 DEF Injection, IsInjective
    <2>3. f \in Surjection(B, 0..(q - 1))
      BY <1>2, <1>4 DEF Surjection
    <2> QED
      BY <2>2, <2>3 DEF ExistsBijection, Bijection
  <1>6. IsFiniteSet(B)
    BY FS_Subset DEF Table
  <1>7. Cardinality(0..(q - 1)) = q
    BY <1>1, FS_Interval
  <1> QED
    BY <1>5, <1>6, <1>7, FS_Bijection

\* list_items gives items.
LEMMA ListOfType ==
  ASSUME NEW t, Table(t), Uids(t) \subseteq Items
  PROVE  ListOf(t) \in Seq(Items)
  <1>1. Count(t) \in Nat /\ \A j \in Uids(t) : t[j] \in 0..(Count(t) - 1)
    BY FS_CardinalityType DEF Table, Dense, Count, Uids
  <1>2. ASSUME NEW p \in 1..Count(t)
        PROVE  \E i \in Uids(t) :
                  /\ Cardinality({j \in Uids(t) : t[j] < t[i]}) < p
                  /\ Cardinality({j \in Uids(t) : t[j] <= t[i]}) >= p
    <2>1. PICK i \in Uids(t) : t[i] = p - 1
      BY <1>1 DEF Table, Dense
    <2>2. Cardinality({j \in Uids(t) : t[j] < p - 1}) = p - 1
      BY <1>1, RowsBelow
    <2>3. Cardinality({j \in Uids(t) : t[j] < p}) = p
      BY <1>1, RowsBelow
    <2>4. {j \in Uids(t) : t[j] <= p - 1} = {j \in Uids(t) : t[j] < p}
      BY <1>1
    <2>5. /\ Cardinality({j \in Uids(t) : t[j] < t[i]}) = p - 1
          /\ Cardinality({j \in Uids(t) : t[j] <= t[i]}) = p
      BY <2>1, <2>2, <2>3, <2>4
    <2>6. Cardinality({j \in Uids(t) : t[j] < t[i]}) < p
      BY <2>5
    <2>7. Cardinality({j \in Uids(t) : t[j] <= t[i]}) >= p
      BY <2>5
    <2> QED
      BY <2>6, <2>7
  <1> DEFINE RowAt(p) == CHOOSE i \in Uids(t) :
                          /\ Cardinality({j \in Uids(t) : t[j] < t[i]}) < p
                          /\ Cardinality({j \in Uids(t) : t[j] <= t[i]}) >= p
  <1>3. \A p \in 1..Count(t) : RowAt(p) \in Items
    BY <1>2
  <1>4. ListOf(t) \in [1..Count(t) -> Items]
    <2>1. ListOf(t) = [p \in 1..Count(t) |-> RowAt(p)]
      BY DEF ListOf
    <2> HIDE DEF RowAt
    <2> QED
      BY <1>3, <2>1
  <1> QED
    BY <1>1, <1>4, SeqDef

\* What is in the table, and in a call, has a type.
QueueTyped ==
    /\ Uids(rows) \subseteq Items /\ revision \in Nat
    /\ call # None => call \in Calls /\ (call.op # "get" => call.item \in Items)

\* The record that a request makes.
LEMMA CallType ==
  ASSUME QueueInv, QueueTyped,
         NEW op \in {"add", "update", "remove", "move", "clear"}, NEW i \in Items,
         NEW w \in Wheres,
         NEW step \in {"insert", "take", "replace", "clear"}, NEW b \in Seq(Items), b # <<>>
  PROVE  /\ Call(op, i, w, step, b) \in Calls
         /\ Call(op, i, w, step, b).op = op /\ Call(op, i, w, step, b).item = i
  <1>1. ListOf(rows) \in Seq(Items)
    BY ListOfType DEF QueueInv, QueueTyped
  <1>2. Tail(b) \in Seq(Items)
    BY HeadTailProperties
  <1> QED
    BY <1>1, <1>2 DEF Call, Calls

LEMMA RequestTyped ==
  ASSUME QueueInv, QueueTyped, Request
  PROVE  QueueTyped'
  <1> DEFINE Typed(c) == c \in Calls /\ c.item \in Items
  <1>0. Back \in Wheres /\ [at |-> "front"] \in Wheres /\ ListOf(rows) \in Seq(Items)
    BY ListOfType DEF Wheres, Back, QueueInv, QueueTyped
  <1>9. \A c : \A k \in Int : Typed(c) => Typed([c EXCEPT !.index = k])
    BY DEF Calls
  <1>10. ASSUME NEW i \in Items, NEW b \in Seq(Items), b # <<>>
         PROVE  /\ Typed(Call("add", i, [at |-> "front"], "insert", b))
                /\ Typed(Call("update", i, Back, "take", b))
                /\ Typed(Call("update", i, Back, "replace", b))
                /\ Typed(Call("clear", i, Back, "clear", b))
    BY <1>0, <1>10, CallType DEF Typed
  <1>1. ASSUME Typed(call'), NoCommit PROVE QueueTyped'
    BY <1>1 DEF QueueTyped, NoCommit
  <1> HIDE DEF Typed
  <1>2. ASSUME NEW b \in Seq(Items), b # <<>>, b[1] \in Items, NEW w \in Wheres, BeginAdd(b, w)
        PROVE  QueueTyped'
    <2>1. PICK i \in StoredUids(b[1]) :
            call' = [Call("add", i, w, "insert", b) EXCEPT !.index = IndexOf(rows, w)]
      BY <1>2 DEF BeginAdd
    <2>2. i \in Items
      BY <1>2 DEF StoredUids, FreshUids
    <2>3. IndexOf(rows, w) \in Int
      BY <1>2, IndexIsInt, WheresHaveForm DEF BeginAdd, QueueInv
    <2>4. Typed(Call("add", i, w, "insert", b))
      BY <1>2, <2>2, CallType DEF Typed
    <2> QED
      BY <1>1, <1>2, <1>9, <2>1, <2>3, <2>4 DEF BeginAdd
  <1>3. CASE ItemExecute
    <2>1. PICK i \in Items : BeginPushFront(i)
      BY <1>3 DEF ItemExecute
    <2>2. <<i>> \in Seq(Items) /\ <<i>> # <<>>
      BY BatchType
    <2>3. Typed(Call("add", i, [at |-> "front"], "insert", <<i>>))
      BY <1>10, <2>2
    <2> QED
      BY <1>1, <2>1, <2>3 DEF BeginPushFront
  <1>4. CASE ItemUpdate
    <2>1. PICK i \in Items, replaceUid \in BOOLEAN : BeginUpdate(i, replaceUid)
      BY <1>4 DEF ItemUpdate
    <2>2. rows[i] \in Int
      BY <2>1, FS_CardinalityType DEF BeginUpdate, QueueInv, Table, Dense, Count, Uids
    <2>0. <<i>> \in Seq(Items) /\ <<i>> # <<>>
      BY BatchType
    <2>3. Typed(Call("update", i, Back, "take", <<i>>))
      BY <1>10, <2>0
    <2>4. Typed(Call("update", i, Back, "replace", <<i>>))
      BY <1>10, <2>0
    <2> QED
      BY <1>1, <1>9, <2>1, <2>2, <2>3, <2>4 DEF BeginUpdate
  <1>5. ASSUME NEW b \in Seq(Items), b # <<>>, b[1] \in Items, BeginRemove(b)
        PROVE  QueueTyped'
    <2>1. Typed(Call("remove", b[1], Back, "take", b))
      BY <1>0, <1>5, CallType DEF Typed
    <2> QED
      BY <1>1, <1>5, <2>1 DEF BeginRemove
  <1>6. CASE BeginClear
    <2>1. FrontUid(rows) \in Items
      BY <1>6, FrontIsThere DEF BeginClear, QueueInv, QueueTyped
    <2>2. <<FrontUid(rows)>> \in Seq(Items) /\ <<FrontUid(rows)>> # <<>>
      BY <2>1, BatchType
    <2>3. Typed(Call("clear", FrontUid(rows), Back, "clear", <<FrontUid(rows)>>))
      BY <1>10, <2>1, <2>2
    <2> QED
      BY <1>1, <1>6, <2>3 DEF BeginClear
  <1>7. ASSUME NEW b \in Seq(Items), b # <<>>, b[1] \in Items, NEW w \in Wheres, BeginMove(b, w)
        PROVE  QueueTyped'
    <2>1. Typed(Call("move", b[1], w, "take", b))
      BY <1>7, CallType DEF Typed
    <2> QED
      BY <1>1, <1>7, <2>1 DEF BeginMove
  <1>8. CASE QueueGet
    <2>1. Tail(<<None>>) = <<>>
      OBVIOUS
    <2>2. <<>> \in Seq(Items)
      OBVIOUS
    <2>3. call' = [op |-> "get", item |-> None, where |-> Back, step |-> "snapshot",
                   index |-> 0, todo |-> <<>>, batch |-> <<>>, before |-> ListOf(rows)]
      BY <1>8, <2>1 DEF QueueGet, Call
    <2>4. call' \in Calls /\ call'.op = "get"
      BY <1>0, <2>2, <2>3 DEF Calls
    <2> QED
      BY <1>8, <2>4 DEF QueueGet, NoCommit, QueueTyped
  <1> QED
    BY <1>2, <1>3, <1>4, <1>5, <1>6, <1>7, <1>8, BatchType
       DEF Request, ItemAdd, ItemAddBatch, ItemMove, ItemMoveBatch, ItemRemove, ItemRemoveBatch,
           QueueClear

LEMMA CallTyped ==
  ASSUME QueueInv, QueueTyped, CallStep
  PROVE  QueueTyped'
  <1> USE DEF QueueTyped, NoCommit, Commit, Advance
  <1>0. call # None => Knows(call, rows)
    BY DEF QueueInv
  <1>1. CASE Take
    BY <1>1 DEF Take, Removed, Uids, Calls
  <1>2. CASE Resolve
    <2>1. Resolvable(rows, call.where) => IndexOf(rows, call.where) \in Int
      BY <1>0, <1>2, IndexIsInt DEF Resolve, Knows, QueueInv
    <2> QED
      BY <1>2, <2>1 DEF Resolve, Calls
  <1>3. CASE PutBack
    <2>1. call.item \in Items
      BY <1>0, <1>3 DEF PutBack, Knows, StepsOf
    <2> QED
      BY <1>3, <2>1 DEF PutBack, AfterRefusal, Inserted, Uids
  <1>4. CASE Insert
    <2>1. call # None /\ call \in Calls /\ call.item \in Items
      BY <1>0, <1>4 DEF Insert, Knows, StepsOf
    <2>2. PICK i \in IF call.op = "update" THEN FreshUids ELSE {call.item} :
            /\ rows' = Inserted(rows, i, call.index)
            /\ call' = [call EXCEPT !.step = "bump", !.item = i]
      BY <1>4 DEF Insert
    <2>3. i \in Items
      BY <2>1, <2>2 DEF FreshUids
    <2>4. call' \in Calls /\ call'.item = i
      BY <2>1, <2>2, <2>3 DEF Calls
    <2>5. Uids(rows') \subseteq Items
      BY <2>2, <2>3 DEF Inserted, Uids
    <2> QED
      BY <1>4, <2>3, <2>4, <2>5 DEF Insert
  <1>10. CASE Replace
    BY <1>10 DEF Replace, Calls, NoCommit, Advance
  <1>5. CASE ClearTable
    BY <1>5 DEF ClearTable, Calls, Uids
  <1>6. CASE Bump
    <2>1. /\ call # None /\ call \in Calls /\ rows' = rows /\ revision' \in Nat
          /\ call.todo \in Seq(Items) /\ call.op # "get" /\ call.item \in Items
      <3>1. /\ call # None /\ call.step = "bump"
            /\ rows' = rows /\ revision' = revision + 1
        BY <1>6 DEF Bump, BumpRevision
      <3>2. call.op # "get"
        BY <1>0, <3>1 DEF Knows, StepsOf
      <3>3. call \in Calls /\ call.item \in Items /\ revision' \in Nat
        BY <3>1, <3>2
      <3>4. call.todo \in Seq(Items)
        BY <3>3 DEF Calls
      <3> QED
        BY <3>1, <3>2, <3>3, <3>4
    <2>2. call.todo # <<>> => Head(call.todo) \in Items /\ Tail(call.todo) \in Seq(Items)
      BY <2>1, HeadTailProperties
    <2>3. ASSUME call.todo # <<>>, call.op = "add",
                 NEW i \in StoredUids(Head(call.todo)),
                 call' = [call EXCEPT !.step = "insert", !.item = i,
                                      !.index = IndexOf(rows, call.where),
                                      !.todo = Tail(call.todo)]
          PROVE  QueueTyped'
      <3>1. IndexOf(rows, call.where) \in Int
        BY <1>0, <2>1, <2>3, IndexIsInt DEF Knows, QueueInv
      <3>2. i \in Items
        BY <2>2, <2>3 DEF StoredUids, FreshUids
      <3>3. call' \in Calls /\ call'.item = i
        BY <2>1, <2>2, <2>3, <3>1, <3>2 DEF Calls
      <3> QED
        BY <2>1, <3>2, <3>3
    <2>4. ASSUME call.todo # <<>>,
                 call' = [call EXCEPT !.step = "take", !.item = Head(call.todo),
                                      !.todo = Tail(call.todo)]
          PROVE  QueueTyped'
      BY <2>1, <2>2, <2>4 DEF Calls
    <2>5. ASSUME call' = [call EXCEPT !.step = "gap"] PROVE QueueTyped'
      BY <2>1, <2>5 DEF Calls
    <2>6. ASSUME call' = None PROVE QueueTyped'
      BY <2>1, <2>6
    <2> QED
      BY <1>6, <2>3, <2>4, <2>5, <2>6 DEF Bump
  <1>7. CASE NextOfBatch
    <2>1. /\ call # None /\ call \in Calls /\ rows' = rows /\ revision' = revision
          /\ call.todo \in Seq(Items) /\ call.todo # <<>> /\ call.item \in Items
      BY <1>0, <1>7 DEF NextOfBatch, Calls, Knows, StepsOf
    <2>2. Head(call.todo) \in Items /\ Tail(call.todo) \in Seq(Items)
      BY <2>1, HeadTailProperties
    <2>3. ListOf(rows) \in Seq(Items) /\ NextTarget(call) \in Wheres
      BY <2>1, ListOfType DEF QueueInv, NextTarget, After, Wheres
    <2> QED
      BY <1>7, <2>1, <2>2, <2>3 DEF NextOfBatch, Calls
  <1>8. CASE TakeRevision
    <2>1. /\ call # None /\ call \in Calls /\ rows' = rows /\ revision' = revision
          /\ call.step = "snapshot"
      BY <1>8 DEF TakeRevision
    <2>2. call.op = "get"
      BY <1>0, <2>1 DEF Knows, StepsOf
    <2>3. call' = [call EXCEPT !.step = "answer", !.index = revision] /\ revision \in Int
      BY <1>8 DEF TakeRevision
    <2>4. call' \in Calls
      BY <2>1, <2>3 DEF Calls
    <2>5. call'.op = "get"
      BY <2>1, <2>2, <2>3 DEF Calls
    <2> QED
      BY <2>1, <2>4, <2>5
  <1>9. CASE Answer \/ Fail
    BY <1>9 DEF Answer, Fail
  <1> QED
    BY <1>1, <1>2, <1>3, <1>4, <1>5, <1>6, <1>7, <1>8, <1>9, <1>10 DEF CallStep

LEMMA LoopTyped ==
  ASSUME QueueTyped, LoopStep
  PROVE  QueueTyped'
  <1>1. CASE PopFront
    BY <1>1 DEF PopFront, QueueTyped, BumpRevision, Popped, Uids
  <1>2. ASSUME NEW i \in Items, LoopAdd(i) PROVE QueueTyped'
    BY <1>2 DEF LoopAdd, QueueTyped, BumpRevision, Inserted, Uids
  <1> QED
    BY <1>1, <1>2 DEF LoopStep

-----------------------------------------------------------------------------
(* What failures can lose. *)

\* The items that are lost; an item that is out of the table while the database is down
\* is counted already, since its call can do nothing but fail.
Lost == owed \ (Uids(rows) \cup IF dbUp THEN InFlight ELSE {})

LossInv ==
    /\ failures \in Nat
    /\ IsFiniteSet(Lost) /\ Cardinality(Lost) <= failures

\* A step that loses nothing.
LEMMA NothingLost ==
  ASSUME LossInv, Lost' \subseteq Lost, failures' = failures
  PROVE  LossInv'
  <1>1. IsFiniteSet(Lost') /\ Cardinality(Lost') <= Cardinality(Lost)
    BY FS_Subset DEF LossInv
  <1>2. Cardinality(Lost') \in Nat /\ Cardinality(Lost) \in Nat
    BY <1>1, FS_CardinalityType DEF LossInv
  <1> QED
    BY <1>1, <1>2 DEF LossInv

\* A step that may lose one item, and is a failure.
LEMMA OneLost ==
  ASSUME LossInv, NEW x, Lost' \subseteq Lost \cup {x}, failures' = failures + 1
  PROVE  LossInv'
  <1>1. /\ IsFiniteSet(Lost \cup {x}) /\ Cardinality(Lost) \in Nat
        /\ Cardinality(Lost \cup {x}) <= Cardinality(Lost) + 1
    <2>1. IsFiniteSet(Lost) /\ Cardinality(Lost) \in Nat
      BY FS_CardinalityType DEF LossInv
    <2>2. CASE x \in Lost
      <3>1. Lost \cup {x} = Lost
        BY <2>2
      <3>2. /\ IsFiniteSet(Lost \cup {x})
            /\ Cardinality(Lost \cup {x}) = Cardinality(Lost)
        BY <2>1, <3>1, Zenon
      <3> QED
        BY <2>1, <3>2
    <2>3. CASE x \notin Lost
      <3>1. IsFiniteSet(Lost \cup {x}) /\ Cardinality(Lost \cup {x}) = Cardinality(Lost) + 1
        BY <2>1, <2>3, FS_AddElement
      <3> QED
        BY <2>1, <3>1
    <2> QED
      BY <2>2, <2>3
  <1>2. IsFiniteSet(Lost') /\ Cardinality(Lost') <= Cardinality(Lost \cup {x})
    BY <1>1, FS_Subset
  <1>3. Cardinality(Lost') \in Nat /\ Cardinality(Lost \cup {x}) \in Nat
    BY <1>1, <1>2, FS_CardinalityType
  <1> QED
    BY <1>1, <1>2, <1>3 DEF LossInv

\* At most one item is out of the table.
LEMMA InFlightIsOne == \E x : InFlight \subseteq {x}
  BY DEF InFlight

\* A request that begins has taken nothing out.
LEMMA RequestLosesNothing ==
  ASSUME QueueInv, LossInv, Request
  PROVE  LossInv'
  <1>1. call = None /\ UNCHANGED <<rows, owed, dbUp, failures>>
    BY DEF Request, ItemAdd, ItemAddBatch, ItemUpdate, ItemMove, ItemMoveBatch, ItemRemove,
           ItemRemoveBatch, ItemExecute, QueueClear, BeginAdd, BeginUpdate, BeginMove,
           BeginRemove, BeginPushFront, BeginClear, QueueGet, Serving, NoCommit
  <1>2. Lost' \subseteq Lost
    BY <1>1 DEF Lost, InFlight
  <1> QED
    BY <1>1, <1>2, NothingLost

\* A call that goes on keeps its item in flight, or puts it back.
LEMMA CallLosesNothing ==
  ASSUME QueueInv, QueueTyped, LossInv, CallStep
  PROVE  LossInv'
  <1>0. failures' = failures /\ dbUp' = dbUp
    BY DEF CallStep, Take, Resolve, PutBack, Insert, Replace, ClearTable, Bump, NextOfBatch,
           TakeRevision, Answer, Fail, Commit, NoCommit
  <1>1. ASSUME Lost' \subseteq Lost PROVE LossInv'
    BY <1>0, <1>1, NothingLost
  <1>2. CASE Take
    <2>1. /\ call # None /\ call.step = "take" /\ Knows(call, rows) /\ call \in Calls /\ dbUp
          /\ Uids(rows') = Uids(rows) \ {call.item}
      BY <1>2 DEF Take, Commit, Removed, Uids, QueueInv, QueueTyped
    <2>2. CASE call.op = "remove"
      <3>1. owed' = owed \ {call.item} /\ InFlight = {}
        BY <1>2, <2>2 DEF Take, InFlight
      <3> QED
        BY <1>0, <1>1, <2>1, <3>1 DEF Lost
    <2>3. CASE call.op # "remove"
      <3>1. call.op \in {"update", "move"}
        BY <2>1, <2>3 DEF Knows, StepsOf
      <3>2. owed' = owed /\ InFlight = {}
        BY <1>2, <2>3 DEF Take, InFlight
      <3>3. PICK s \in {"insert", "resolve"} : call' = [call EXCEPT !.step = s]
        BY <1>2, <3>1 DEF Take, Advance
      <3>4. call' \in Calls
        BY <2>1, <3>3 DEF Calls
      <3>5. call'.op = call.op /\ call'.item = call.item /\ call'.step = s
        BY <2>1, <3>3 DEF Calls
      <3>6. call' # None
        BY <3>4, CallAssumption
      <3>7. InFlight' = {call.item}
        BY <3>1, <3>3, <3>5, <3>6 DEF InFlight
      <3> QED
        BY <1>0, <1>1, <2>1, <3>2, <3>7 DEF Lost
    <2> QED
      BY <2>2, <2>3
  <1>3. CASE Resolve
    <2>1. /\ call # None /\ call.step = "resolve" /\ Knows(call, rows) /\ call \in Calls
          /\ rows' = rows /\ owed' = owed
      BY <1>3 DEF Resolve, NoCommit, QueueInv, QueueTyped
    <2>2. call.op = "move"
      BY <2>1 DEF Knows, StepsOf
    <2>3. call' \in Calls /\ call'.op = call.op /\ call'.item = call.item
          /\ call'.step \in {"insert", "putback"}
      <3>1. CASE Resolvable(rows, call.where)
        <4>1. IndexOf(rows, call.where) \in Int
          BY <2>1, <3>1, IndexIsInt DEF Knows, QueueInv
        <4>2. call' = [call EXCEPT !.step = "insert", !.index = IndexOf(rows, call.where)]
          BY <1>3, <3>1 DEF Resolve
        <4> QED
          BY <2>1, <4>1, <4>2 DEF Calls
      <3>2. CASE ~Resolvable(rows, call.where)
        <4>1. call' = [call EXCEPT !.step = "putback"]
          BY <1>3, <3>2 DEF Resolve, Advance
        <4> QED
          BY <2>1, <4>1 DEF Calls
      <3> QED
        BY <3>1, <3>2
    <2>4. call' # None
      BY <2>3, CallAssumption
    <2>5. InFlight = {call.item} /\ InFlight' = {call.item}
      BY <2>1, <2>2, <2>3, <2>4 DEF InFlight
    <2> QED
      BY <1>0, <1>1, <2>1, <2>5 DEF Lost
  <1>4. CASE PutBack
    <2>1. Uids(rows') = Uids(rows) \cup {call.item} /\ owed' = owed
      BY <1>4 DEF PutBack, Commit, AfterRefusal, Inserted, Uids
    <2>2. InFlight \subseteq {call.item} /\ InFlight' = {}
      BY <1>4 DEF PutBack, InFlight
    <2> QED
      BY <1>0, <1>1, <2>1, <2>2 DEF Lost
  <1>5. CASE Insert
    <2>1. PICK i : Uids(rows') = Uids(rows) \cup {i} /\ owed' = (owed \ {call.item}) \cup {i}
      BY <1>5 DEF Insert, Commit, Inserted, Uids
    <2>2. InFlight \subseteq {call.item}
      BY DEF InFlight
    <2> QED
      BY <1>0, <1>1, <2>1, <2>2 DEF Lost
  <1>6. CASE ClearTable
    BY <1>1, <1>6 DEF ClearTable, Lost
  <1>7. CASE Replace \/ Bump \/ NextOfBatch \/ TakeRevision \/ Answer
    <2>1. rows' = rows /\ owed' = owed
      BY <1>7 DEF Replace, Bump, NextOfBatch, TakeRevision, Answer, NoCommit
    <2>2. InFlight = {}
      BY <1>7 DEF Replace, Bump, NextOfBatch, TakeRevision, Answer, InFlight
    <2> QED
      BY <1>0, <1>1, <2>1, <2>2 DEF Lost
  <1>8. CASE Fail
    BY <1>0, <1>1, <1>8 DEF Fail, Lost
  <1> QED
    BY <1>2, <1>3, <1>4, <1>5, <1>6, <1>7, <1>8 DEF CallStep

\* The sequencer comes when no item is out of the table; what it pops is no longer owed.
LEMMA LoopLosesNothing ==
  ASSUME LossInv, LoopStep
  PROVE  LossInv'
  <1>1. LockFree /\ UNCHANGED <<call, dbUp, failures>>
    BY DEF LoopStep, PopFront, LoopAdd
  <1>2. InFlight = {}
    BY <1>1 DEF LockFree, Unlocked, InFlight
  <1>3. \E i : \/ Uids(rows') = Uids(rows) \ {i} /\ owed' = owed \ {i}
               \/ Uids(rows') = Uids(rows) \cup {i} /\ owed' = owed \cup {i}
    BY DEF LoopStep, PopFront, LoopAdd, Popped, Inserted, Uids
  <1>4. Lost' \subseteq Lost
    BY <1>1, <1>2, <1>3 DEF Lost
  <1> QED
    BY <1>1, <1>4, NothingLost

\* An outage or a death loses the item that is out of the table, if there is one.
LEMMA FailureLosesOne ==
  ASSUME LossInv, DbFail \/ Restart
  PROVE  LossInv'
  <1>1. rows' = rows /\ owed' = owed /\ failures' = failures + 1
    BY DEF DbFail, Restart
  <1>2. PICK x : InFlight \subseteq {x}
    BY InFlightIsOne
  <1>3. Lost' \subseteq Lost \cup {x}
    BY <1>1, <1>2 DEF Lost
  <1> QED
    BY <1>1, <1>3, OneLost

\* Each failure loses at most one item, and nothing else loses any: a move and an update
\* that replaces the uid are two transactions (QueueService.move, update), and only an item
\* between the two can be lost.
THEOREM FewAreLost == Spec => []EachFailureLosesAtMostOne
  <1>1. Init => QueueTyped /\ LossInv
    <2> SUFFICES ASSUME Init PROVE QueueTyped /\ LossInv
      OBVIOUS
    <2>1. QueueTyped
      BY DEF Init, QueueTyped, Uids
    <2>2. Lost = {} /\ failures = 0
      BY DEF Init, Lost
    <2> QED
      BY <2>1, <2>2, FS_EmptySet DEF LossInv
  <1>2. QueueInv /\ QueueTyped /\ LossInv /\ [Next]_vars => QueueInv' /\ QueueTyped' /\ LossInv'
    <2> SUFFICES ASSUME QueueInv, QueueTyped, LossInv, [Next]_vars
                 PROVE  QueueInv' /\ QueueTyped' /\ LossInv'
      OBVIOUS
    <2>1. CASE Request
      BY <2>1, RequestKeeps, RequestTyped, RequestLosesNothing
    <2>2. CASE CallStep
      BY <2>2, CallKeeps, CallTyped, CallLosesNothing
    <2>3. CASE LoopStep
      BY <2>3, LoopKeeps, LoopTyped, LoopLosesNothing
    <2>4. CASE DbFail \/ Restart
      <3>1. LossInv'
        BY <2>4, FailureLosesOne
      <3> QED
        BY <2>4, <3>1 DEF DbFail, Restart, QueueInv, QueueTyped
    <2>5. CASE DbRecover
      <3>1. UNCHANGED <<rows, revision, call, failures, owed>> /\ ~dbUp
        BY <2>5 DEF DbRecover
      <3>2. Lost' \subseteq Lost
        BY <3>1 DEF Lost
      <3> QED
        BY <3>1, <3>2, NothingLost DEF QueueInv, QueueTyped
    <2>6. CASE UNCHANGED vars
      <3>1. Lost' = Lost
        BY <2>6 DEF vars, Lost, InFlight
      <3> QED
        BY <2>6, <3>1, NothingLost DEF vars, QueueInv, QueueTyped
    <2> QED
      BY <2>1, <2>2, <2>3, <2>4, <2>5, <2>6 DEF Next
  <1>3. LossInv => EachFailureLosesAtMostOne
    <2> SUFFICES ASSUME LossInv PROVE EachFailureLosesAtMostOne
      OBVIOUS
    <2> DEFINE S == owed \ (Uids(rows) \cup InFlight)
    <2>1. S \subseteq Lost
      BY DEF Lost
    <2> HIDE DEF S
    <2>2. IsFiniteSet(S) /\ Cardinality(S) <= Cardinality(Lost)
      BY <2>1, FS_Subset DEF LossInv
    <2>3. Cardinality(S) \in Nat /\ Cardinality(Lost) \in Nat
      BY <2>2, FS_CardinalityType DEF LossInv
    <2>4. Cardinality(S) <= failures
      BY <2>2, <2>3 DEF LossInv
    <2> QED
      BY <2>4 DEF S, EachFailureLosesAtMostOne
  <1> QED
    BY QueueBegins, <1>1, <1>2, <1>3, PTL DEF Spec

-----------------------------------------------------------------------------
(* The table is the list of the protocol. *)

\* The row at place p of the list has position p - 1, and every row is there.
LEMMA ListOfRows ==
  ASSUME NEW t, Table(t)
  PROVE  /\ Count(t) \in Nat
         /\ DOMAIN ListOf(t) = 1..Count(t)
         /\ \A p \in 1..Count(t) : ListOf(t)[p] \in Uids(t) /\ t[ListOf(t)[p]] = p - 1
         /\ \A i \in Uids(t) : t[i] + 1 \in 1..Count(t) /\ ListOf(t)[t[i] + 1] = i
  <1>1. Count(t) \in Nat /\ \A j \in Uids(t) : t[j] \in 0..(Count(t) - 1)
    BY FS_CardinalityType DEF Table, Dense, Count, Uids
  <1> DEFINE Below(i) == Cardinality({j \in Uids(t) : t[j] < t[i]})
             UpTo(i)  == Cardinality({j \in Uids(t) : t[j] <= t[i]})
  <1>2. ASSUME NEW i \in Uids(t) PROVE Below(i) = t[i] /\ UpTo(i) = t[i] + 1
    <2>1. t[i] \in 0..Count(t) /\ t[i] + 1 \in 0..Count(t)
      BY <1>1
    <2>2. {j \in Uids(t) : t[j] <= t[i]} = {j \in Uids(t) : t[j] < t[i] + 1}
      BY <1>1
    <2>3. Below(i) = t[i]
      BY <2>1, RowsBelow
    <2>4. Cardinality({j \in Uids(t) : t[j] < t[i] + 1}) = t[i] + 1
      BY <2>1, RowsBelow
    <2> QED
      BY <2>2, <2>3, <2>4
  <1>3. \A p \in 1..Count(t) : ListOf(t)[p] = CHOOSE i \in Uids(t) : Below(i) < p /\ UpTo(i) >= p
    BY DEF ListOf
  <1>4. DOMAIN ListOf(t) = 1..Count(t)
    BY DEF ListOf
  <1> HIDE DEF Below, UpTo
  <1>5. ASSUME NEW p \in 1..Count(t)
        PROVE  ListOf(t)[p] \in Uids(t) /\ t[ListOf(t)[p]] = p - 1
    <2>1. PICK i \in Uids(t) : t[i] = p - 1
      BY <1>1 DEF Table, Dense
    <2>2. Below(i) < p /\ UpTo(i) >= p
      BY <1>1, <1>2, <2>1
    <2>3. /\ ListOf(t)[p] \in Uids(t)
          /\ Below(ListOf(t)[p]) < p /\ UpTo(ListOf(t)[p]) >= p
      BY <1>3, <2>2
    <2> QED
      BY <1>1, <1>2, <2>3
  <1>6. ASSUME NEW i \in Uids(t)
        PROVE  t[i] + 1 \in 1..Count(t) /\ ListOf(t)[t[i] + 1] = i
    <2>1. t[i] + 1 \in 1..Count(t) /\ (t[i] + 1) - 1 = t[i]
      BY <1>1
    <2>2. ListOf(t)[t[i] + 1] \in Uids(t) /\ t[ListOf(t)[t[i] + 1]] = t[i]
      BY <1>5, <2>1
    <2> QED
      BY <2>1, <2>2 DEF Table, Dense
  <1> QED
    BY <1>1, <1>4, <1>5, <1>6

\* A sequence that has the row of each position in its place is the list.
LEMMA ListIs ==
  ASSUME NEW t, Table(t), NEW S, NEW s \in Seq(S), Len(s) = Count(t),
         \A p \in 1..Count(t) : s[p] \in Uids(t) /\ t[s[p]] = p - 1
  PROVE  ListOf(t) = s
  <1>1. /\ Count(t) \in Nat /\ DOMAIN ListOf(t) = 1..Count(t)
        /\ \A p \in 1..Count(t) : ListOf(t)[p] \in Uids(t) /\ t[ListOf(t)[p]] = p - 1
    BY ListOfRows
  <1>2. \A p \in 1..Count(t) : ListOf(t)[p] = s[p]
    BY <1>1 DEF Table, Dense
  <1>3. ListOf(t) = [p \in 1..Count(t) |-> ListOf(t)[p]]
    <2> DEFINE RowAt(p) == CHOOSE i \in Uids(t) :
                              /\ Cardinality({j \in Uids(t) : t[j] < t[i]}) < p
                              /\ Cardinality({j \in Uids(t) : t[j] <= t[i]}) >= p
    <2>1. ListOf(t) = [p \in 1..Count(t) |-> RowAt(p)]
      BY DEF ListOf
    <2> HIDE DEF RowAt
    <2> QED
      BY <2>1
  <1>4. s = [p \in 1..Count(t) |-> s[p]]
    OBVIOUS
  <1> QED
    BY <1>2, <1>3, <1>4

\* _repo.insert is list.insert at the clamped index.
LEMMA InsertedList ==
  ASSUME NEW t, Table(t), Uids(t) \subseteq Items, NEW i \in Items, i \notin Uids(t), NEW k \in Int
  PROVE  /\ Clamp(k, Count(t)) \in 0..Len(ListOf(t)) /\ i \notin ToSet(ListOf(t))
         /\ ListOf(Inserted(t, i, k)) = InsertAt(ListOf(t), Clamp(k, Count(t)) + 1, i)
  <1> DEFINE p == Clamp(k, Count(t))
             u == Inserted(t, i, k)
             L == ListOf(t)
             s == InsertAt(L, p + 1, i)
  <1>1. /\ Count(t) \in Nat /\ DOMAIN L = 1..Count(t)
        /\ \A q \in 1..Count(t) : L[q] \in Uids(t) /\ t[L[q]] = q - 1
    BY ListOfRows
  <1>2. L \in Seq(Items) /\ Len(L) = Count(t)
    BY <1>1, ListOfType
  <1>3. p \in 0..Count(t)
    BY <1>1, ClampIs
  <1>4. /\ u[i] = p
        /\ \A j \in Uids(t) : u[j] = IF t[j] >= p THEN t[j] + 1 ELSE t[j]
    BY DEF Inserted
  <1>5. Table(u) /\ Uids(u) = Uids(t) \cup {i}
    BY InsertedIsDense
  <1>6. Count(u) = Count(t) + 1
    BY <1>5, FS_AddElement DEF Table, Count, Uids
  <1>0. i \notin ToSet(L)
    BY <1>1, <1>2 DEF ToSet
  <1> HIDE DEF p, u, L
  <1>7. /\ s \in Seq(Items) /\ Len(s) = Count(t) + 1
        /\ \A j \in 1..(Count(t) + 1) :
              s[j] = IF j < p + 1 THEN L[j] ELSE IF j = p + 1 THEN i ELSE L[j - 1]
    <2>1. p + 1 \in 1..(Len(L) + 1)
      BY <1>1, <1>2, <1>3
    <2>2. /\ s \in Seq(Items) /\ Len(s) = Len(L) + 1
          /\ \A j \in 1..(Len(L) + 1) :
                s[j] = IF j < p + 1 THEN L[j] ELSE IF j = p + 1 THEN i ELSE L[j - 1]
      <3>1. \A l \in Seq(Items) : \A n \in 1..(Len(l) + 1) :
               /\ InsertAt(l, n, i) \in Seq(Items)
               /\ Len(InsertAt(l, n, i)) = Len(l) + 1
               /\ \A j \in 1..(Len(l) + 1) :
                     InsertAt(l, n, i)[j] =
                        IF j < n THEN l[j] ELSE IF j = n THEN i ELSE l[j - 1]
        <4> SUFFICES ASSUME NEW l \in Seq(Items), NEW n \in 1..(Len(l) + 1)
                     PROVE  /\ InsertAt(l, n, i) \in Seq(Items)
                            /\ Len(InsertAt(l, n, i)) = Len(l) + 1
                            /\ \A j \in 1..(Len(l) + 1) :
                                  InsertAt(l, n, i)[j] =
                                     IF j < n THEN l[j] ELSE IF j = n THEN i ELSE l[j - 1]
          OBVIOUS
        <4>1. InsertAt(l, n, i) \in Seq(Items) /\ Len(InsertAt(l, n, i)) = Len(l) + 1
          BY InsertAtType
        <4>2. \A j \in 1..(Len(l) + 1) :
                 InsertAt(l, n, i)[j] = IF j < n THEN l[j] ELSE IF j = n THEN i ELSE l[j - 1]
          BY InsertAtType
        <4> QED
          BY <4>1, <4>2
      <3>2. L \in Seq(Items)
        BY <1>2
      <3> QED
        BY <2>1, <3>1, <3>2
    <2> QED
      BY <1>2, <2>2
  <1> HIDE DEF s
  <1>8. ASSUME NEW q \in 1..Count(u) PROVE s[q] \in Uids(u) /\ u[s[q]] = q - 1
    <2>1. CASE q < p + 1
      <3>1. s[q] = L[q] /\ q \in 1..Count(t)
        BY <1>1, <1>3, <1>6, <1>7, <2>1
      <3>2. L[q] \in Uids(t) /\ t[L[q]] = q - 1
        BY <1>1, <3>1
      <3>3. u[L[q]] = q - 1
        BY <1>3, <1>4, <2>1, <3>2
      <3> QED
        BY <1>5, <3>1, <3>2, <3>3
    <2>2. CASE q = p + 1
      <3>1. s[q] = i
        BY <1>3, <1>6, <1>7, <2>2
      <3> QED
        BY <1>3, <1>4, <1>5, <2>2, <3>1
    <2>3. CASE q > p + 1
      <3>1. s[q] = L[q - 1] /\ q - 1 \in 1..Count(t)
        BY <1>1, <1>3, <1>6, <1>7, <2>3
      <3>2. L[q - 1] \in Uids(t) /\ t[L[q - 1]] = (q - 1) - 1
        BY <1>1, <3>1
      <3>3. u[L[q - 1]] = q - 1
        BY <1>3, <1>4, <2>3, <3>2
      <3> QED
        BY <1>5, <3>1, <3>2, <3>3
    <2>4. q < p + 1 \/ q = p + 1 \/ q > p + 1
      BY <1>3
    <2> QED
      BY <2>1, <2>2, <2>3, <2>4
  <1>9. ListOf(u) = s
    BY <1>5, <1>6, <1>7, <1>8, ListIs
  <1> QED
    BY <1>0, <1>2, <1>3, <1>9 DEF p, u, L, s

\* _repo.remove takes one element out of the list.
LEMMA RemovedList ==
  ASSUME NEW t, Table(t), Uids(t) \subseteq Items, NEW i \in Uids(t)
  PROVE  /\ t[i] + 1 \in DOMAIN ListOf(t) /\ ListOf(t)[t[i] + 1] = i
         /\ ListOf(Removed(t, i)) = RemoveAt(ListOf(t), t[i] + 1)
  <1> DEFINE u == Removed(t, i)
             L == ListOf(t)
             n == t[i] + 1
             s == RemoveAt(L, n)
  <1>1. /\ Count(t) \in Nat /\ DOMAIN L = 1..Count(t)
        /\ \A q \in 1..Count(t) : L[q] \in Uids(t) /\ t[L[q]] = q - 1
        /\ n \in 1..Count(t) /\ L[n] = i
    BY ListOfRows
  <1>2. L \in Seq(Items) /\ Len(L) = Count(t)
    BY <1>1, ListOfType
  <1>3. /\ t[i] = n - 1
        /\ \A j \in Uids(u) : u[j] = IF t[j] > t[i] THEN t[j] - 1 ELSE t[j]
    <2>1. t[i] \in Int
      BY <1>1, FS_CardinalityType DEF Table, Dense, Count, Uids
    <2> QED
      BY <2>1 DEF Removed, Uids
  <1>4. Table(u) /\ Uids(u) = Uids(t) \ {i}
    BY RemovedIsDense
  <1>5. Count(u) = Count(t) - 1
    BY <1>4, FS_RemoveElement DEF Table, Count, Uids
  <1> HIDE DEF u, L, n
  <1>6. /\ s \in Seq(Items) /\ Len(s) = Count(t) - 1
        /\ \A j \in 1..(Count(t) - 1) : s[j] = IF j < n THEN L[j] ELSE L[j + 1]
    BY <1>1, <1>2, RemoveAtType
  <1> HIDE DEF s
  <1>7. ASSUME NEW q \in 1..Count(u) PROVE s[q] \in Uids(u) /\ u[s[q]] = q - 1
    <2>1. CASE q < n
      <3>1. s[q] = L[q] /\ q \in 1..Count(t)
        BY <1>1, <1>5, <1>6, <2>1
      <3>2. L[q] \in Uids(t) /\ t[L[q]] = q - 1
        BY <1>1, <3>1
      <3>3. L[q] # i
        BY <1>1, <1>3, <2>1, <3>2
      <3> QED
        BY <1>1, <1>3, <1>4, <2>1, <3>1, <3>2, <3>3
    <2>2. CASE q >= n
      <3>0. q \in 1..(Count(t) - 1) /\ ~(q < n) /\ q + 1 \in 1..Count(t)
        BY <1>1, <1>5, <2>2
      <3>1. s[q] = L[q + 1] /\ q + 1 \in 1..Count(t)
        BY <1>6, <3>0
      <3>2. L[q + 1] \in Uids(t) /\ t[L[q + 1]] = q
        BY <1>1, <3>1
      <3>3. L[q + 1] # i
        BY <1>1, <1>3, <2>2, <3>2
      <3> QED
        BY <1>1, <1>3, <1>4, <2>2, <3>1, <3>2, <3>3
    <2> QED
      BY <1>1, <2>1, <2>2
  <1>8. ListOf(u) = s
    BY <1>4, <1>5, <1>6, <1>7, ListIs
  <1> QED
    BY <1>1, <1>2, <1>8 DEF u, L, n, s

\* pop_front takes the head.
LEMMA PoppedList ==
  ASSUME NEW t, Table(t), Uids(t) \subseteq Items, Uids(t) # {}
  PROVE  ListOf(t) # <<>> /\ ListOf(Popped(t)) = Tail(ListOf(t))
  <1> DEFINE u == Popped(t)
             L == ListOf(t)
  <1>1. FrontUid(t) \in Uids(t) /\ t[FrontUid(t)] = 0
    BY FrontIsThere
  <1>2. \A j \in Uids(t) \ {FrontUid(t)} : t[j] > 0
    BY <1>1, FS_CardinalityType DEF Table, Dense, Count, Uids
  <1>3. u = Removed(t, FrontUid(t))
    BY <1>1, <1>2 DEF Popped, Removed
  <1>4. 1 \in DOMAIN L /\ ListOf(u) = RemoveAt(L, 1)
    BY <1>1, <1>3, RemovedList
  <1>5. L \in Seq(Items)
    BY ListOfType
  <1> HIDE DEF u, L
  <1>6. L # <<>> /\ Len(L) \in Nat /\ 1 \in 1..Len(L)
    BY <1>4, <1>5
  <1>7. /\ RemoveAt(L, 1) \in Seq(Items) /\ Len(RemoveAt(L, 1)) = Len(L) - 1
        /\ \A j \in 1..(Len(L) - 1) : RemoveAt(L, 1)[j] = L[j + 1]
    <2>1. /\ RemoveAt(L, 1) \in Seq(Items) /\ Len(RemoveAt(L, 1)) = Len(L) - 1
          /\ \A j \in 1..(Len(L) - 1) : RemoveAt(L, 1)[j] = IF j < 1 THEN L[j] ELSE L[j + 1]
      BY <1>5, <1>6, RemoveAtType
    <2> QED
      BY <2>1
  <1>8. /\ Tail(L) \in Seq(Items) /\ Len(Tail(L)) = Len(L) - 1
        /\ \A j \in 1..(Len(L) - 1) : Tail(L)[j] = L[j + 1]
    BY <1>5, <1>6, HeadTailProperties
  <1>9. RemoveAt(L, 1) = Tail(L)
    BY <1>7, <1>8, SeqEqual
  <1> QED
    BY <1>4, <1>6, <1>9 DEF u, L

\* Each transaction is one operation of the list, and the list is what the table was
\* before a step that makes none.
LEMMA ListStep ==
  ASSUME QueueInv, QueueTyped, [Next]_vars
  PROVE  [AsList!Next]_(ListOf(rows))
  <1> DEFINE L == ListOf(rows)
  <1>a. Table(rows) /\ Uids(rows) \subseteq Items /\ (call # None => Knows(call, rows))
    BY DEF QueueInv, QueueTyped
  <1>b. Count(rows) \in Int
    BY <1>a, ListOfRows
  <1>1. ASSUME NEW i \in Items, i \notin Uids(rows), NEW k \in Int, rows' = Inserted(rows, i, k)
        PROVE  AsList!Next
    <2>1. /\ Clamp(k, Count(rows)) \in 0..Len(L) /\ i \notin ToSet(L)
          /\ L' = InsertAt(L, Clamp(k, Count(rows)) + 1, i)
      BY <1>1, <1>a, InsertedList
    <2>2. AsList!ListInsert(i)
      BY <2>1 DEF AsList!ListInsert, AsList!InsertAt, InsertAt, AsList!ToSet, ToSet
    <2> QED
      BY <1>1, <2>2 DEF AsList!Next
  <1>2. ASSUME NEW i \in Uids(rows), rows' = Removed(rows, i)
        PROVE  AsList!Next
    <2>1. /\ rows[i] + 1 \in DOMAIN L /\ L[rows[i] + 1] = i
          /\ L' = RemoveAt(L, rows[i] + 1)
      BY <1>2, <1>a, RemovedList
    <2>2. AsList!ListRemove(i)
      BY <2>1 DEF AsList!ListRemove, AsList!RemoveAt, RemoveAt
    <2> QED
      BY <1>2, <1>a, <2>2 DEF AsList!Next
  <1>3. CASE Take
    BY <1>2, <1>3, <1>a DEF Take, Commit, Knows
  <1>4. CASE PutBack
    <2>1. call.item \in Items /\ call.item \notin Uids(rows)
      BY <1>4, <1>a DEF PutBack, Knows, StepsOf, QueueTyped
    <2> QED
      BY <1>1, <1>4, <1>b, <2>1 DEF PutBack, Commit, AfterRefusal
  <1>5. CASE Insert
    <2>1. PICK i \in IF call.op = "update" THEN FreshUids ELSE {call.item} :
            rows' = Inserted(rows, i, call.index)
      BY <1>5 DEF Insert, Commit
    <2>2. call # None /\ call.step = "insert" /\ Knows(call, rows)
      BY <1>5, <1>a DEF Insert
    <2>3. call.op # "get" /\ call.index \in Int /\ call.item \in Items
      BY <2>2 DEF Knows, StepsOf, QueueTyped
    <2>4. i \in Items /\ i \notin Uids(rows)
      BY <2>1, <2>2, <2>3 DEF FreshUids, Knows
    <2> QED
      BY <1>1, <2>1, <2>3, <2>4
  <1>6. CASE ClearTable
    <2>1. Uids(rows') = {} /\ Count(rows') = 0
      BY <1>6, FS_EmptySet DEF ClearTable, Commit, Uids, Count
    <2>2. Table(rows')
      BY <2>1, FS_EmptySet DEF Table, Dense
    <2>3. <<>> \in Seq(Items) /\ Len(<<>>) = 0
      OBVIOUS
    <2>4. \A p \in 1..Count(rows') : FALSE
      BY <2>1
    <2>5. ListOf(rows') = <<>>
      BY <2>1, <2>2, <2>3, <2>4, ListIs
    <2> QED
      BY <2>5 DEF AsList!Next, AsList!ListClear
  <1>7. CASE PopFront
    <2>1. L # <<>> /\ L' = Tail(L)
      BY <1>7, <1>a, PoppedList DEF PopFront
    <2> QED
      BY <2>1 DEF AsList!Next, AsList!ListPopFront
  <1>8. CASE \E i \in Items : LoopAdd(i)
    BY <1>1, <1>8, <1>b DEF LoopAdd, FreshUids
  <1>9. CASE rows' = rows
    BY <1>9
  <1>10. Request => rows' = rows
    BY DEF Request, ItemAdd, ItemAddBatch, ItemUpdate, ItemMove, ItemMoveBatch, ItemRemove,
           ItemRemoveBatch, ItemExecute, QueueClear, BeginAdd, BeginUpdate, BeginMove,
           BeginRemove, BeginPushFront, BeginClear, QueueGet, NoCommit
  <1>11. Resolve \/ Replace \/ Bump \/ NextOfBatch \/ TakeRevision \/ Answer \/ Fail => rows' = rows
    BY DEF Resolve, Replace, Bump, NextOfBatch, TakeRevision, Answer, Fail, NoCommit
  <1>12. DbFail \/ DbRecover \/ Restart \/ UNCHANGED vars => rows' = rows
    BY DEF DbFail, DbRecover, Restart, vars
  <1> QED
    BY <1>3, <1>4, <1>5, <1>6, <1>7, <1>8, <1>9, <1>10, <1>11, <1>12
       DEF Next, CallStep, LoopStep

\* What a call knows, and its types, in every reachable state.
LEMMA QueueInvariant == Spec => [](QueueInv /\ QueueTyped)
  <1>1. Init => QueueTyped
    BY DEF Init, QueueTyped, Uids
  <1>2. QueueInv /\ QueueTyped /\ [Next]_vars => QueueInv' /\ QueueTyped'
    <2> SUFFICES ASSUME QueueInv, QueueTyped, [Next]_vars PROVE QueueInv' /\ QueueTyped'
      OBVIOUS
    <2>1. CASE DbFail \/ DbRecover \/ Restart \/ UNCHANGED vars
      BY <2>1 DEF QueueInv, QueueTyped, DbFail, DbRecover, Restart, vars
    <2> QED
      BY <2>1, RequestKeeps, CallKeeps, LoopKeeps, RequestTyped, CallTyped, LoopTyped DEF Next
  <1> QED
    BY QueueBegins, <1>1, <1>2, PTL DEF Spec

\* The table with its positions is the list of the repository protocol: each transaction of
\* SqlQueueRepository is one operation of InMemoryQueueRepository (queue/repository.py).
THEOREM TableIsTheList == Spec => ImplementsList
  <1>1. Init => AsList!Init
    <2> SUFFICES ASSUME Init PROVE AsList!Init
      OBVIOUS
    <2>1. Table(rows) /\ Uids(rows) = {} /\ Count(rows) = 0
      BY QueueBegins, FS_EmptySet DEF Init, QueueInv, Uids, Count
    <2>2. <<>> \in Seq(Items) /\ Len(<<>>) = 0
      OBVIOUS
    <2>3. \A p \in 1..Count(rows) : FALSE
      BY <2>1
    <2>4. ListOf(rows) = <<>>
      BY <2>1, <2>2, <2>3, ListIs
    <2> QED
      BY <2>4 DEF AsList!Init
  <1>2. QueueInv /\ QueueTyped /\ [Next]_vars => [AsList!Next]_(ListOf(rows))
    BY ListStep
  <1> QED
    BY <1>1, <1>2, QueueInvariant, PTL DEF Spec, ImplementsList, AsList!Spec

-----------------------------------------------------------------------------
(* Where items land. *)

\* An item inserted at the index that _resolve_index gives is where the client asked.
LEMMA LandsWhereAsked ==
  ASSUME NEW t, Table(t), NEW i, i \notin Uids(t), NEW w, Form(w), Resolvable(t, w)
  PROVE  PlacedAs(Inserted(t, i, IndexOf(t, w)), w, i)
  <1> DEFINE k == IndexOf(t, w)
             u == Inserted(t, i, k)
  <1>1. Count(t) \in Nat /\ \A j \in Uids(t) : t[j] \in 0..(Count(t) - 1)
    BY FS_CardinalityType DEF Table, Dense, Count, Uids
  <1>2. k \in Int
    BY IndexIsInt
  <1>3. /\ u[i] = Clamp(k, Count(t))
        /\ \A j \in Uids(t) : u[j] = IF t[j] >= Clamp(k, Count(t)) THEN t[j] + 1 ELSE t[j]
    BY DEF Inserted
  <1>4. Table(u) /\ Uids(u) = Uids(t) \cup {i}
    BY <1>2, InsertedIsDense
  <1>5. Count(u) = Count(t) + 1
    BY <1>4, FS_AddElement DEF Table, Count, Uids
  <1>6. \A n \in 0..Count(t) : Clamp(n, Count(t)) = n
    BY <1>1 DEF Clamp
  <1> SUFFICES PlacedAs(u, w, i)
    OBVIOUS
  <1> HIDE DEF u
  <1>7. CASE w.at = "front"
    BY <1>1, <1>3, <1>6, <1>7 DEF PlacedAs, IndexOf
  <1>8. CASE w.at = "back"
    BY <1>1, <1>3, <1>5, <1>6, <1>8 DEF PlacedAs, IndexOf
  <1>9. CASE w.at = "before"
    <2>1. w.uid \in Uids(t) /\ k = t[w.uid]
      BY <1>9 DEF Resolvable, Relative, IndexOf
    <2>2. Clamp(k, Count(t)) = t[w.uid]
      BY <1>1, <1>6, <2>1
    <2> QED
      BY <1>1, <1>3, <1>9, <2>1, <2>2 DEF PlacedAs
  <1>10. CASE w.at = "after"
    <2>1. w.uid \in Uids(t) /\ k = t[w.uid] + 1
      BY <1>10 DEF Resolvable, Relative, IndexOf
    <2>2. Clamp(k, Count(t)) = t[w.uid] + 1
      BY <1>1, <1>6, <2>1
    <2> QED
      BY <1>1, <1>3, <1>10, <2>1, <2>2 DEF PlacedAs
  <1>11. CASE w.at = "index"
    <2>1. w.pos \in Int
      BY <1>11 DEF Form
    <2>2. k = Clamp(IF w.pos < 0 THEN Count(t) + w.pos + 1 ELSE w.pos, Count(t))
      BY <1>11 DEF IndexOf
    <2>3. k \in 0..Count(t)
      <3>1. (IF w.pos < 0 THEN Count(t) + w.pos + 1 ELSE w.pos) \in Int
        BY <1>1, <2>1
      <3> QED
        BY <1>1, <2>2, <3>1, ClampIs
    <2>4. u[i] = k
      BY <1>3, <1>6, <2>3
    <2>5. Count(u) - 1 = Count(t) /\ Count(u) + w.pos = Count(t) + w.pos + 1
      BY <1>1, <1>5, <2>1
    <2>6. u[i] = IF w.pos >= 0 THEN Clamp(w.pos, Count(u) - 1)
                 ELSE Clamp(Count(u) + w.pos, Count(u) - 1)
      BY <2>1, <2>2, <2>4, <2>5
    <2> QED
      BY <1>11, <2>6 DEF PlacedAs
  <1> QED
    BY <1>7, <1>8, <1>9, <1>10, <1>11 DEF Form

\* What an add or a move knows of the place of its item: while it holds the lock, the index
\* stays the one asked for, and after the insert the item is there.
PlaceKnown(c, t) ==
    /\ c.op \in {"add", "move"} /\ c.step = "insert"
         => Resolvable(t, c.where) /\ c.index = IndexOf(t, c.where)
    /\ c.op \in {"add", "move"} /\ c.step = "bump" => PlacedAs(t, c.where, c.item)

PlaceInv == call # None => PlaceKnown(call, rows)

LEMMA RequestPlaces ==
  ASSUME QueueInv, Request
  PROVE  PlaceInv'
  <1>1. rows' = rows
    BY DEF Request, ItemAdd, ItemAddBatch, ItemUpdate, ItemMove, ItemMoveBatch, ItemRemove,
           ItemRemoveBatch, ItemExecute, QueueClear, BeginAdd, BeginUpdate, BeginMove,
           BeginRemove, BeginPushFront, BeginClear, QueueGet, NoCommit
  <1>2. ASSUME call'.op \notin {"add", "move"} PROVE PlaceInv'
    BY <1>2 DEF PlaceInv, PlaceKnown
  <1>3. ASSUME NEW b, NEW w, BeginAdd(b, w) PROVE PlaceInv'
    <2>1. PICK i \in StoredUids(b[1]) :
            call' = [Call("add", i, w, "insert", b) EXCEPT !.index = IndexOf(rows, w)]
      BY <1>3 DEF BeginAdd
    <2>2. /\ call'.op = "add" /\ call'.step = "insert" /\ call'.where = w
          /\ call'.index = IndexOf(rows, w)
      BY <2>1 DEF Call
    <2>3. Resolvable(rows, w)
      BY <1>3 DEF BeginAdd
    <2> QED
      BY <1>1, <2>2, <2>3 DEF PlaceInv, PlaceKnown
  <1>4. CASE ItemExecute
    <2>1. PICK i \in Items : call' = Call("add", i, [at |-> "front"], "insert", <<i>>)
      BY <1>4 DEF ItemExecute, BeginPushFront
    <2>2. /\ call'.op = "add" /\ call'.step = "insert" /\ call'.where = [at |-> "front"]
          /\ call'.index = 0
      BY <2>1 DEF Call
    <2>3. Resolvable(rows, [at |-> "front"]) /\ IndexOf(rows, [at |-> "front"]) = 0
      BY DEF Resolvable, Relative, IndexOf
    <2> QED
      BY <1>1, <2>2, <2>3 DEF PlaceInv, PlaceKnown
  <1>5. ASSUME NEW b, NEW w, BeginMove(b, w) PROVE PlaceInv'
    <2>1. call'.op = "move" /\ call'.step = "take"
      BY <1>5 DEF BeginMove, Call
    <2> QED
      BY <2>1 DEF PlaceInv, PlaceKnown
  <1>6. ItemUpdate \/ ItemRemove \/ ItemRemoveBatch \/ BeginClear \/ QueueGet
          => call'.op \notin {"add", "move"}
    <2>1. \A op, i, w, s, b : Call(op, i, w, s, b).op = op
      BY DEF Call
    <2>2. \A op, i, w, s, b, k : [Call(op, i, w, s, b) EXCEPT !.index = k].op = op
      BY DEF Call
    <2>3. ASSUME NEW i, NEW r, BeginUpdate(i, r) PROVE call'.op = "update"
      BY <2>2, <2>3 DEF BeginUpdate
    <2>4. ASSUME NEW b, BeginRemove(b) PROVE call'.op = "remove"
      BY <2>1, <2>4 DEF BeginRemove
    <2>5. BeginClear => call'.op = "clear"
      BY <2>1 DEF BeginClear
    <2>6. QueueGet => call'.op = "get"
      BY DEF QueueGet, Call
    <2> QED
      BY <2>3, <2>4, <2>5, <2>6 DEF ItemUpdate, ItemRemove, ItemRemoveBatch
  <1>7. CASE ItemAdd \/ ItemAddBatch
    BY <1>3, <1>7 DEF ItemAdd, ItemAddBatch
  <1>8. CASE ItemMove \/ ItemMoveBatch
    BY <1>5, <1>8 DEF ItemMove, ItemMoveBatch
  <1> QED
    BY <1>2, <1>4, <1>6, <1>7, <1>8 DEF Request, QueueClear

LEMMA CallPlaces ==
  ASSUME QueueInv, PlaceInv, CallStep
  PROVE  PlaceInv'
  <1> USE DEF NoCommit, Commit, Advance
  <1>0. call # None => /\ Knows(call, rows) /\ DOMAIN call = Fields
                       /\ PlaceKnown(call, rows)
    BY DEF QueueInv, PlaceInv, Knows
  <1>1. ASSUME call' # None, NEW s, call # None, call' = [call EXCEPT !.step = s],
               s \notin {"insert", "bump"}
        PROVE  PlaceInv'
    <2>1. call'.op = call.op /\ call'.step = s
      BY <1>0, <1>1 DEF Fields
    <2> QED
      BY <1>1, <2>1 DEF PlaceInv, PlaceKnown
  <1>2. CASE Take
    <2>1. CASE call.op \in {"remove", "update"}
      <3>1. call'.op = call.op
        BY <1>0, <1>2 DEF Take, Fields
      <3> QED
        BY <2>1, <3>1 DEF PlaceInv, PlaceKnown
    <2>2. CASE call.op \notin {"remove", "update"}
      BY <1>1, <1>2, <2>2 DEF Take, PlaceInv
    <2> QED
      BY <2>1, <2>2
  <1>3. CASE Resolve
    <2>1. call # None /\ rows' = rows /\ call.step = "resolve" /\ call.op = "move"
      BY <1>0, <1>3 DEF Resolve, Knows, StepsOf
    <2>2. CASE Resolvable(rows, call.where)
      <3>1. call' = [call EXCEPT !.step = "insert", !.index = IndexOf(rows, call.where)]
        BY <1>3, <2>2 DEF Resolve
      <3>2. /\ call'.op = call.op /\ call'.step = "insert"
            /\ call'.where = call.where /\ call'.index = IndexOf(rows, call.where)
        BY <1>0, <2>1, <3>1 DEF Fields
      <3> QED
        BY <2>1, <2>2, <3>2 DEF PlaceInv, PlaceKnown
    <2>3. CASE ~Resolvable(rows, call.where)
      <3>1. call' = [call EXCEPT !.step = "putback"]
        BY <1>3, <2>3 DEF Resolve
      <3> QED
        BY <1>1, <2>1, <3>1 DEF PlaceInv
    <2> QED
      BY <2>2, <2>3
  <1>4. CASE Insert
    <2>1. call # None /\ call.step = "insert" /\ Knows(call, rows)
      BY <1>0, <1>4 DEF Insert
    <2>2. PICK i \in IF call.op = "update" THEN FreshUids ELSE {call.item} :
            /\ rows' = Inserted(rows, i, call.index)
            /\ call' = [call EXCEPT !.step = "bump", !.item = i]
      BY <1>4 DEF Insert
    <2>3. /\ call'.op = call.op /\ call'.step = "bump" /\ call'.item = i /\ call'.where = call.where
      BY <1>0, <2>1, <2>2 DEF Fields
    <2>4. CASE call.op \in {"add", "move"}
      <3>1. /\ i = call.item /\ i \notin Uids(rows) /\ Form(call.where)
            /\ Resolvable(rows, call.where) /\ call.index = IndexOf(rows, call.where)
        BY <1>0, <2>1, <2>2, <2>4 DEF Knows, PlaceKnown
      <3>2. PlacedAs(rows', call.where, i)
        BY <2>2, <3>1, LandsWhereAsked DEF QueueInv
      <3> QED
        BY <2>3, <3>2 DEF PlaceInv, PlaceKnown
    <2>5. CASE call.op \notin {"add", "move"}
      BY <2>3, <2>5 DEF PlaceInv, PlaceKnown
    <2> QED
      BY <2>4, <2>5
  <1>5. CASE ClearTable
    <2>1. call.op = "clear" /\ call'.op = call.op
      BY <1>0, <1>5 DEF ClearTable, Knows, StepsOf, Fields
    <2> QED
      BY <2>1 DEF PlaceInv, PlaceKnown
  <1>6. CASE Bump
    <2>1. call # None /\ call.step = "bump" /\ Knows(call, rows) /\ rows' = rows
      BY <1>0, <1>6 DEF Bump
    <2>2. ASSUME call.op = "add",
                 NEW i,
                 call' = [call EXCEPT !.step = "insert", !.item = i,
                                      !.index = IndexOf(rows, call.where),
                                      !.todo = Tail(call.todo)]
          PROVE  PlaceInv'
      <3>1. /\ call'.op = "add" /\ call'.step = "insert" /\ call'.where = call.where
            /\ call'.index = IndexOf(rows, call.where)
        BY <1>0, <2>1, <2>2 DEF Fields
      <3>2. Resolvable(rows, call.where)
        BY <2>1, <2>2 DEF Knows
      <3> QED
        BY <2>1, <3>1, <3>2 DEF PlaceInv, PlaceKnown
    <2>3. ASSUME call.op = "remove",
                 call' = [call EXCEPT !.step = "take", !.item = Head(call.todo),
                                      !.todo = Tail(call.todo)]
          PROVE  PlaceInv'
      <3>1. call'.op = "remove"
        BY <1>0, <2>1, <2>3 DEF Fields
      <3> QED
        BY <3>1 DEF PlaceInv, PlaceKnown
    <2>4. ASSUME call' = [call EXCEPT !.step = "gap"] PROVE PlaceInv'
      BY <1>1, <2>1, <2>4 DEF PlaceInv
    <2>5. ASSUME call' = None PROVE PlaceInv'
      BY <2>5 DEF PlaceInv
    <2> QED
      BY <1>6, <2>2, <2>3, <2>4, <2>5 DEF Bump
  <1>7. CASE NextOfBatch
    <2>1. call # None /\ call' # None => call'.step = "take"
      BY <1>0, <1>7 DEF NextOfBatch, Fields
    <2> QED
      BY <1>7, <2>1 DEF NextOfBatch, PlaceInv, PlaceKnown
  <1>8. CASE TakeRevision
    <2>1. call.op = "get" /\ call'.op = "get"
      BY <1>0, <1>8 DEF TakeRevision, Knows, StepsOf, Fields
    <2> QED
      BY <2>1 DEF PlaceInv, PlaceKnown
  <1>10. CASE Replace
    <2>1. call.op = "update" /\ call'.op = call.op
      BY <1>0, <1>10 DEF Replace, Advance, Knows, StepsOf, Fields
    <2> QED
      BY <2>1 DEF PlaceInv, PlaceKnown
  <1>9. CASE PutBack \/ Answer \/ Fail
    BY <1>9 DEF PutBack, Answer, Fail, PlaceInv
  <1> QED
    BY <1>2, <1>3, <1>4, <1>5, <1>6, <1>7, <1>8, <1>9, <1>10 DEF CallStep

\* The sequencer changes the table only where no item has just been placed.
LEMMA LoopPlaces ==
  ASSUME PlaceInv, LoopStep
  PROVE  PlaceInv'
  <1>1. LockFree /\ call' = call
    BY DEF LoopStep, PopFront, LoopAdd
  <1> QED
    BY <1>1 DEF LockFree, Unlocked, PlaceInv, PlaceKnown

LEMMA PlaceInvariant == Spec => []PlaceInv
  <1>1. Init => PlaceInv
    BY DEF Init, PlaceInv
  <1>2. QueueInv /\ PlaceInv /\ [Next]_vars => PlaceInv'
    <2> SUFFICES ASSUME QueueInv, PlaceInv, [Next]_vars PROVE PlaceInv'
      OBVIOUS
    <2>1. CASE DbFail \/ DbRecover \/ Restart \/ UNCHANGED vars
      BY <2>1 DEF PlaceInv, DbFail, DbRecover, Restart, vars
    <2> QED
      BY <2>1, RequestPlaces, CallPlaces, LoopPlaces DEF Next
  <1> QED
    BY <1>1, <1>2, QueueInvariant, PTL DEF Spec

\* An item that was added or moved is where the client asked, whatever form the position had
\* and whatever the sequencer did meanwhile (add, move, _resolve_index).
THEOREM PlacedRight == Spec => []PlacedWhereAsked
  <1>1. PlaceInv => PlacedWhereAsked
    BY DEF PlaceInv, PlaceKnown, PlacedWhereAsked
  <1> QED
    BY <1>1, PlaceInvariant, PTL

-----------------------------------------------------------------------------
(* The order of a batch that is moved. *)

\* The first n items of a batch, as far as they are there, stand one after another.
InOrder(t, b, n) ==
    \A k \in 1..(n - 1) :
        {b[k], b[k + 1]} \subseteq Uids(t) => t[b[k + 1]] = t[b[k]] + 1

\* Taking a row out brings no other between two.
LEMMA OrderRemoved ==
  ASSUME NEW t, Table(t), NEW i \in Uids(t), NEW b, NEW n \in Int, InOrder(t, b, n)
  PROVE  InOrder(Removed(t, i), b, n)
  <1>1. \A j \in Uids(t) : t[j] \in Int
    BY FS_CardinalityType DEF Table, Dense, Count, Uids
  <1>2. /\ Uids(Removed(t, i)) = Uids(t) \ {i}
        /\ \A j \in Uids(t) \ {i} : Removed(t, i)[j] = IF t[j] > t[i] THEN t[j] - 1 ELSE t[j]
    BY DEF Removed, Uids
  <1> SUFFICES ASSUME NEW k \in 1..(n - 1), {b[k], b[k + 1]} \subseteq Uids(t) \ {i}
               PROVE  Removed(t, i)[b[k + 1]] = Removed(t, i)[b[k]] + 1
    BY <1>2 DEF InOrder
  <1>3. t[b[k + 1]] = t[b[k]] + 1
    BY DEF InOrder
  <1>4. t[b[k]] # t[i] /\ t[b[k + 1]] # t[i]
    BY DEF Table, Dense
  <1> QED
    BY <1>1, <1>2, <1>3, <1>4

\* Nor does a new row, unless its place is that of the second of the two.
LEMMA OrderInserted ==
  ASSUME NEW t, Table(t), NEW i, i \notin Uids(t), NEW p \in Int, NEW b, NEW n \in Int,
         InOrder(t, b, n), \A k \in 1..n : b[k] # i,
         \A k \in 1..(n - 1) : {b[k], b[k + 1]} \subseteq Uids(t)
                                  => t[b[k + 1]] # Clamp(p, Count(t))
  PROVE  InOrder(Inserted(t, i, p), b, n)
  <1> DEFINE u == Inserted(t, i, p)
             c == Clamp(p, Count(t))
  <1>1. c \in Int /\ \A j \in Uids(t) : t[j] \in Int
    BY ClampIs, FS_CardinalityType DEF Table, Dense, Count, Uids
  <1>2. /\ Uids(u) = Uids(t) \cup {i}
        /\ \A j \in Uids(t) : u[j] = IF t[j] >= c THEN t[j] + 1 ELSE t[j]
    BY DEF Inserted, Uids
  <1> HIDE DEF u, c
  <1> SUFFICES ASSUME NEW k \in 1..(n - 1), {b[k], b[k + 1]} \subseteq Uids(u)
               PROVE  u[b[k + 1]] = u[b[k]] + 1
    BY DEF InOrder, u
  <1>3. b[k] \in Uids(t) /\ b[k + 1] \in Uids(t)
    <2>1. k \in 1..n /\ k + 1 \in 1..n
      OBVIOUS
    <2> QED
      BY <1>2, <2>1
  <1>4. t[b[k + 1]] = t[b[k]] + 1 /\ t[b[k + 1]] # c
    BY <1>3 DEF InOrder, c
  <1> QED
    BY <1>1, <1>2, <1>3, <1>4

\* How many items of its batch a move has come to, with the one it is at.
Come(c) == Len(c.batch) - Len(c.todo)

\* What a move knows of its batch: which of its items it is at, that this one goes after the
\* one before it, and that those it is done with are in order.
BatchKnown(c, t) ==
    /\ c.batch \in Seq(Items) /\ Come(c) \in 1..Len(c.batch)
    /\ c.item = c.batch[Come(c)]
    /\ \A j \in 1..Len(c.todo) : c.todo[j] = c.batch[Come(c) + j]
    /\ Come(c) > 1 => c.where = After(c.batch[Come(c) - 1])
    /\ IsInjective(c.batch) =>
         InOrder(t, c.batch, IF c.step \in {"bump", "gap"} THEN Come(c) ELSE Come(c) - 1)

BatchInv == call # None /\ call.op = "move" => BatchKnown(call, rows)

LEMMA RequestBatches ==
  ASSUME QueueInv, Request
  PROVE  BatchInv'
  <1>1. \A op, i, w, s, b : Call(op, i, w, s, b).op = op
    BY DEF Call
  <1>2. \A op, i, w, s, b, k : [Call(op, i, w, s, b) EXCEPT !.index = k].op = op
    BY DEF Call
  <1>3. ASSUME call'.op # "move" PROVE BatchInv'
    BY <1>3 DEF BatchInv
  <1>4. ASSUME NEW b, NEW w, BeginAdd(b, w) PROVE BatchInv'
    BY <1>2, <1>3, <1>4 DEF BeginAdd
  <1>5. ASSUME NEW i, NEW replaceUid, BeginUpdate(i, replaceUid) PROVE BatchInv'
    BY <1>2, <1>3, <1>5 DEF BeginUpdate
  <1>6. ASSUME NEW b, BeginRemove(b) PROVE BatchInv'
    BY <1>1, <1>3, <1>6 DEF BeginRemove
  <1>7. ASSUME NEW i, BeginPushFront(i) PROVE BatchInv'
    BY <1>1, <1>3, <1>7 DEF BeginPushFront
  <1>8. CASE BeginClear
    BY <1>1, <1>3, <1>8 DEF BeginClear
  <1>9. CASE QueueGet
    BY <1>3, <1>9 DEF QueueGet, Call
  <1>10. ASSUME NEW b \in Seq(Items), b # <<>>, NEW w, BeginMove(b, w) PROVE BatchInv'
    <2>1. /\ call'.step = "take" /\ call'.batch = b /\ call'.todo = Tail(b)
          /\ call'.item = b[1]
      BY <1>10 DEF BeginMove, Call
    <2>2. /\ Len(b) \in Nat \ {0} /\ Len(Tail(b)) = Len(b) - 1
          /\ \A j \in 1..Len(Tail(b)) : Tail(b)[j] = b[j + 1]
      BY <1>10, HeadTailProperties
    <2>3. Come(call') = 1 /\ 1 \in 1..Len(b)
      BY <2>1, <2>2 DEF Come
    <2>4. \A j \in 1..Len(Tail(b)) : Tail(b)[j] = b[1 + j]
      BY <2>2
    <2>5. InOrder(rows', b, 1 - 1)
      BY DEF InOrder
    <2> QED
      BY <2>1, <2>3, <2>4, <2>5 DEF BatchInv, BatchKnown
  <1>11. CASE ItemMove \/ ItemMoveBatch
    BY <1>10, <1>11, BatchType DEF ItemMove, ItemMoveBatch
  <1> QED
    BY <1>4, <1>5, <1>6, <1>7, <1>8, <1>9, <1>11
       DEF Request, ItemAdd, ItemAddBatch, ItemUpdate, ItemRemove, ItemRemoveBatch, ItemExecute,
           QueueClear

LEMMA CallBatches ==
  ASSUME QueueInv, PlaceInv, BatchInv, CallStep
  PROVE  BatchInv'
  <1> USE DEF NoCommit, Commit, Advance
  <1>0. call # None => /\ Knows(call, rows) /\ DOMAIN call = Fields /\ PlaceKnown(call, rows)
                       /\ call.op = "move" => BatchKnown(call, rows)
    BY DEF QueueInv, PlaceInv, BatchInv, Knows
  <1>1. ASSUME NEW s, call # None, call.op = "move", call' = [call EXCEPT !.step = s],
               IsInjective(call.batch) =>
                  InOrder(rows', call.batch,
                          IF s \in {"bump", "gap"} THEN Come(call) ELSE Come(call) - 1)
        PROVE  BatchInv'
    <2>1. /\ call'.batch = call.batch /\ call'.todo = call.todo /\ call'.item = call.item
          /\ call'.where = call.where /\ call'.step = s
      BY <1>0, <1>1 DEF Fields
    <2>2. Come(call') = Come(call)
      BY <2>1 DEF Come
    <2> QED
      BY <1>0, <1>1, <2>1, <2>2 DEF BatchInv, BatchKnown
  <1>2. ASSUME call # None, call.op # "move", call' # None => call'.op = call.op PROVE BatchInv'
    BY <1>2 DEF BatchInv
  <1>3. CASE Take
    <2>1. call # None /\ call.step = "take" /\ rows' = Removed(rows, call.item)
      BY <1>3 DEF Take
    <2>2. CASE call.op = "move"
      <3>1. call' = [call EXCEPT !.step = "resolve"]
        BY <1>3, <2>2 DEF Take
      <3>2. call.item \in Uids(rows) /\ Table(rows)
        BY <1>0, <2>1 DEF Knows, QueueInv
      <3>3. Come(call) - 1 \in Int
        BY <1>0, <2>1, <2>2 DEF BatchKnown
      <3>4. IsInjective(call.batch) => InOrder(rows', call.batch, Come(call) - 1)
        BY <1>0, <2>1, <2>2, <3>2, <3>3, OrderRemoved DEF BatchKnown
      <3> QED
        BY <1>1, <2>1, <2>2, <3>1, <3>4
    <2>3. CASE call.op # "move"
      <3>1. call'.op = call.op
        BY <1>0, <1>3 DEF Take, Fields
      <3> QED
        BY <1>2, <2>1, <2>3, <3>1
    <2> QED
      BY <2>2, <2>3
  <1>4. CASE Resolve
    <2>1. call # None /\ rows' = rows /\ call.step = "resolve" /\ call.op = "move"
      BY <1>0, <1>4 DEF Resolve, Knows, StepsOf
    <2>2. CASE Resolvable(rows, call.where)
      <3>1. call' = [call EXCEPT !.step = "insert", !.index = IndexOf(rows, call.where)]
        BY <1>4, <2>2 DEF Resolve
      <3>2. /\ call'.batch = call.batch /\ call'.todo = call.todo /\ call'.item = call.item
            /\ call'.where = call.where /\ call'.step = "insert"
        BY <1>0, <2>1, <3>1 DEF Fields
      <3>3. Come(call') = Come(call)
        BY <3>2 DEF Come
      <3> QED
        BY <1>0, <2>1, <3>2, <3>3 DEF BatchInv, BatchKnown
    <2>3. CASE ~Resolvable(rows, call.where)
      <3>1. call' = [call EXCEPT !.step = "putback"]
        BY <1>4, <2>3 DEF Resolve
      <3> QED
        BY <1>0, <1>1, <2>1, <3>1 DEF BatchKnown
    <2> QED
      BY <2>2, <2>3
  <1>5. CASE Insert
    <2>1. call # None /\ call.step = "insert" /\ Knows(call, rows) /\ Table(rows)
      BY <1>0, <1>5 DEF Insert, QueueInv
    <2>2. PICK i \in IF call.op = "update" THEN FreshUids ELSE {call.item} :
            /\ rows' = Inserted(rows, i, call.index)
            /\ call' = [call EXCEPT !.step = "bump", !.item = i]
      BY <1>5 DEF Insert
    <2>3. /\ call'.op = call.op /\ call'.step = "bump" /\ call'.todo = call.todo
          /\ call'.batch = call.batch /\ call'.item = i /\ call'.where = call.where
      BY <1>0, <2>1, <2>2 DEF Fields
    <2>4. CASE call.op # "move"
      BY <1>2, <2>1, <2>3, <2>4
    <2>5. CASE call.op = "move"
      <3> DEFINE b == call.batch
                 m == Come(call)
      <3>1. /\ i = call.item /\ i \notin Uids(rows) /\ Form(call.where) /\ call.index \in Int
            /\ Resolvable(rows, call.where) /\ call.index = IndexOf(rows, call.where)
        BY <1>0, <2>1, <2>2, <2>5 DEF Knows, PlaceKnown
      <3>2. /\ b \in Seq(Items) /\ m \in 1..Len(b) /\ Len(b) \in Nat /\ i = b[m]
            /\ m > 1 => call.where = After(b[m - 1])
            /\ IsInjective(b) => InOrder(rows, b, m - 1)
        BY <1>0, <2>1, <2>5, <3>1 DEF BatchKnown
      <3>3. Come(call') = m
        BY <2>3 DEF Come
      <3> HIDE DEF m
      <3>4. ASSUME IsInjective(b) PROVE InOrder(rows', b, m)
        <4>1. \A j, k \in 1..Len(b) : b[j] = b[k] => j = k
          BY <3>2, <3>4 DEF IsInjective
        <4> HIDE DEF b
        <4>2. ASSUME m > 1
              PROVE  /\ b[m - 1] \in Uids(rows) /\ rows[b[m - 1]] \in 0..(Count(rows) - 1)
                     /\ Clamp(call.index, Count(rows)) = rows[b[m - 1]] + 1
          <5>1. b[m - 1] \in Uids(rows) /\ call.index = rows[b[m - 1]] + 1
            BY <3>1, <3>2, <4>2 DEF After, Resolvable, Relative, IndexOf
          <5>2. Count(rows) \in Nat /\ rows[b[m - 1]] \in 0..(Count(rows) - 1)
            BY <2>1, <5>1, FS_CardinalityType DEF Table, Dense, Count, Uids
          <5> QED
            BY <5>1, <5>2 DEF Clamp
        <4>3. \A k \in 1..(m - 1) : b[k] # i
          BY <3>2, <4>1
        <4>4. ASSUME NEW k \in 1..((m - 1) - 1), {b[k], b[k + 1]} \subseteq Uids(rows)
              PROVE  rows[b[k + 1]] # Clamp(call.index, Count(rows))
          <5>1. m > 1 /\ k \in 1..Len(b) /\ m - 1 \in 1..Len(b) /\ k # m - 1
            BY <3>2
          <5>2. b[k] # b[m - 1]
            BY <4>1, <5>1
          <5>3. rows[b[k]] # rows[b[m - 1]]
            BY <2>1, <4>2, <4>4, <5>1, <5>2 DEF Table, Dense
          <5>4. rows[b[k + 1]] = rows[b[k]] + 1 /\ rows[b[k]] \in Int
            BY <2>1, <3>2, <3>4, <4>4, FS_CardinalityType DEF InOrder, Table, Dense, Count, Uids, b
          <5> QED
            BY <4>2, <5>1, <5>3, <5>4
        <4>5. InOrder(rows', b, m - 1)
          <5>1. m - 1 \in Int /\ InOrder(rows, b, m - 1)
            BY <3>2, <3>4 DEF b
          <5> QED
            BY <2>1, <2>2, <3>1, <4>3, <4>4, <5>1, OrderInserted
        <4>6. ASSUME m > 1 PROVE rows'[b[m]] = rows'[b[m - 1]] + 1
          <5>1. PlacedAs(rows', call.where, i)
            BY <2>1, <2>2, <3>1, LandsWhereAsked
          <5> QED
            BY <3>2, <4>6, <5>1 DEF PlacedAs, After
        <4> SUFFICES ASSUME NEW k \in 1..(m - 1), {b[k], b[k + 1]} \subseteq Uids(rows')
                     PROVE  rows'[b[k + 1]] = rows'[b[k]] + 1
          BY DEF InOrder
        <4>7. CASE k = m - 1
          <5>1. k + 1 = m /\ m > 1
            BY <3>2, <4>7
          <5> QED
            BY <4>6, <4>7, <5>1
        <4>8. CASE k # m - 1
          <5>1. k \in 1..((m - 1) - 1)
            BY <3>2, <4>8
          <5> QED
            BY <4>5, <5>1 DEF InOrder
        <4> QED
          BY <4>7, <4>8
      <3> QED
        BY <1>0, <2>1, <2>3, <2>5, <3>1, <3>3, <3>4 DEF BatchInv, BatchKnown, m
    <2> QED
      BY <2>4, <2>5
  <1>6. CASE ClearTable
    <2>1. call # None /\ call.op = "clear" /\ call'.op = call.op
      BY <1>0, <1>6 DEF ClearTable, Knows, StepsOf, Fields
    <2> QED
      BY <1>2, <2>1
  <1>7. CASE Bump
    <2>1. call # None /\ call.step = "bump" /\ rows' = rows
      BY <1>7 DEF Bump
    <2>2. ASSUME call.op = "add", NEW i,
                 call' = [call EXCEPT !.step = "insert", !.item = i,
                                      !.index = IndexOf(rows, call.where),
                                      !.todo = Tail(call.todo)]
          PROVE  BatchInv'
      <3>1. call'.op = "add"
        BY <1>0, <2>1, <2>2 DEF Fields
      <3> QED
        BY <1>2, <2>1, <2>2, <3>1
    <2>3. ASSUME call.op = "remove",
                 call' = [call EXCEPT !.step = "take", !.item = Head(call.todo),
                                      !.todo = Tail(call.todo)]
          PROVE  BatchInv'
      <3>1. call'.op = "remove"
        BY <1>0, <2>1, <2>3 DEF Fields
      <3> QED
        BY <1>2, <2>1, <2>3, <3>1
    <2>4. ASSUME call.op = "move", call' = [call EXCEPT !.step = "gap"] PROVE BatchInv'
      BY <1>0, <1>1, <2>1, <2>4 DEF BatchKnown
    <2>5. ASSUME call' = None PROVE BatchInv'
      BY <2>5 DEF BatchInv
    <2> QED
      BY <1>7, <2>2, <2>3, <2>4, <2>5 DEF Bump
  <1>8. CASE NextOfBatch
    <2>1. /\ call # None /\ call.step = "gap" /\ call.op = "move" /\ rows' = rows
          /\ call.todo # <<>> /\ call.todo \in Seq(Items)
      BY <1>0, <1>8 DEF NextOfBatch, Knows, StepsOf
    <2>2. ASSUME call' = [call EXCEPT !.step = "take", !.item = Head(call.todo),
                                      !.where = NextTarget(call),
                                      !.todo = Tail(call.todo), !.before = ListOf(rows)]
          PROVE  BatchInv'
      <3> DEFINE b == call.batch
                 m == Come(call)
                 todo == call.todo
      <3>1. /\ call'.step = "take" /\ call'.item = Head(todo) /\ call'.where = After(call.item)
            /\ call'.todo = Tail(todo) /\ call'.batch = b
        BY <1>0, <2>1, <2>2 DEF Fields, NextTarget
      <3>2. /\ b \in Seq(Items) /\ m \in 1..Len(b) /\ Len(b) \in Nat /\ call.item = b[m]
            /\ \A j \in 1..Len(todo) : todo[j] = b[m + j]
            /\ IsInjective(b) => InOrder(rows, b, m)
            /\ m = Len(b) - Len(todo)
        <4>1. BatchKnown(call, rows) /\ m = Len(b) - Len(todo)
          BY <1>0, <2>1 DEF Come
        <4>2. /\ b \in Seq(Items) /\ m \in 1..Len(b) /\ call.item = b[m]
              /\ \A j \in 1..Len(todo) : todo[j] = b[m + j]
          BY <4>1 DEF BatchKnown
        <4>3. IsInjective(b) => InOrder(rows, b, m)
          BY <2>1, <4>1 DEF BatchKnown
        <4>4. Len(b) \in Nat
          BY <4>2
        <4> QED
          BY <4>1, <4>2, <4>3, <4>4
      <3>3. /\ Len(todo) \in Nat \ {0} /\ Len(Tail(todo)) = Len(todo) - 1 /\ Head(todo) = todo[1]
            /\ \A j \in 1..Len(Tail(todo)) : Tail(todo)[j] = todo[j + 1]
        BY <2>1, HeadTailProperties
      <3>4. Come(call') = Len(b) - Len(Tail(todo))
        BY <3>1 DEF Come
      <3> HIDE DEF b, m, todo
      <3>5. Come(call') = m + 1 /\ m + 1 \in 1..Len(b)
        BY <3>2, <3>3, <3>4
      <3>6. call'.item = b[m + 1]
        BY <3>1, <3>2, <3>3
      <3>7. \A j \in 1..Len(Tail(todo)) : Tail(todo)[j] = b[(m + 1) + j]
        <4> SUFFICES ASSUME NEW j \in 1..Len(Tail(todo)) PROVE Tail(todo)[j] = b[(m + 1) + j]
          OBVIOUS
        <4>1. j + 1 \in 1..Len(todo) /\ m + (j + 1) = (m + 1) + j
          BY <3>2, <3>3
        <4> QED
          BY <3>2, <3>3, <4>1
      <3>8. call'.where = After(b[(m + 1) - 1]) /\ (m + 1) - 1 = m
        BY <3>1, <3>2
      <3> QED
        BY <2>1, <3>1, <3>2, <3>5, <3>6, <3>7, <3>8 DEF BatchInv, BatchKnown
    <2>3. ASSUME call' = None PROVE BatchInv'
      BY <2>3 DEF BatchInv
    <2> QED
      BY <1>8, <2>2, <2>3 DEF NextOfBatch
  <1>9. CASE TakeRevision
    <2>1. call # None /\ call.op = "get" /\ call'.op = "get"
      BY <1>0, <1>9 DEF TakeRevision, Knows, StepsOf, Fields
    <2> QED
      BY <1>2, <2>1
  <1>11. CASE Replace
    <2>1. call # None /\ call.op = "update" /\ call'.op = call.op
      BY <1>0, <1>11 DEF Replace, Advance, Knows, StepsOf, Fields
    <2> QED
      BY <1>2, <2>1
  <1>10. CASE PutBack \/ Answer \/ Fail
    BY <1>10 DEF PutBack, Answer, Fail, BatchInv
  <1> QED
    BY <1>3, <1>4, <1>5, <1>6, <1>7, <1>8, <1>9, <1>10, <1>11 DEF CallStep

\* Between two moves the sequencer takes the first row or adds one at the end, under a uid
\* that is none of the batch.
LEMMA LoopBatches ==
  ASSUME QueueInv, BatchInv, LoopStep
  PROVE  BatchInv'
  <1>1. LockFree /\ call' = call
    BY DEF LoopStep, PopFront, LoopAdd
  <1> SUFFICES ASSUME call # None, call.op = "move" PROVE BatchKnown(call, rows')
    BY <1>1 DEF BatchInv
  <1>2. /\ BatchKnown(call, rows) /\ Table(rows) /\ Come(call) \in Int
        /\ call.step \notin {"snapshot", "answer"}
    BY DEF QueueInv, BatchInv, BatchKnown, Knows, StepsOf
  <1>3. call.step = "gap"
    BY <1>1, <1>2 DEF LockFree, Unlocked
  <1> SUFFICES ASSUME IsInjective(call.batch) PROVE InOrder(rows', call.batch, Come(call))
    BY <1>2, <1>3 DEF BatchKnown
  <1>4. InOrder(rows, call.batch, Come(call))
    BY <1>2, <1>3 DEF BatchKnown
  <1>5. CASE PopFront
    <2>1. FrontUid(rows) \in Uids(rows) /\ rows[FrontUid(rows)] = 0 /\ rows' = Popped(rows)
      BY <1>2, <1>5, FrontIsThere DEF PopFront
    <2>2. \A j \in Uids(rows) \ {FrontUid(rows)} : rows[j] > 0
      BY <1>2, <2>1, FS_CardinalityType DEF Table, Dense, Count, Uids
    <2>3. rows' = Removed(rows, FrontUid(rows))
      BY <2>1, <2>2 DEF Popped, Removed
    <2> QED
      BY <1>2, <1>4, <2>1, <2>3, OrderRemoved
  <1>6. ASSUME NEW i \in Items, LoopAdd(i) PROVE InOrder(rows', call.batch, Come(call))
    <2>1. /\ i \notin Uids(rows) /\ i \notin ToSet(call.batch)
          /\ rows' = Inserted(rows, i, Count(rows))
      BY <1>6 DEF LoopAdd, FreshUids
    <2>2. /\ Count(rows) \in Nat /\ Clamp(Count(rows), Count(rows)) = Count(rows)
          /\ \A j \in Uids(rows) : rows[j] # Count(rows)
      BY <1>2, FS_CardinalityType DEF Table, Dense, Count, Uids, Clamp
    <2>3. \A k \in 1..Come(call) : call.batch[k] # i
      <3>1. 1..Come(call) \subseteq DOMAIN call.batch
        BY <1>2 DEF BatchKnown
      <3> QED
        BY <2>1, <3>1 DEF ToSet
    <2> QED
      BY <1>2, <1>4, <2>1, <2>2, <2>3, OrderInserted
  <1> QED
    BY <1>5, <1>6 DEF LoopStep

\* The items of a moved batch that are still there at its end stand one after another, in the
\* order given (routers/queue.py, move/batch).
THEOREM BatchInOrder == Spec => []BatchStaysTogether
  <1>1. Init => BatchInv
    BY DEF Init, BatchInv
  <1>2. QueueInv /\ PlaceInv /\ BatchInv /\ [Next]_vars => BatchInv'
    <2> SUFFICES ASSUME QueueInv, PlaceInv, BatchInv, [Next]_vars PROVE BatchInv'
      OBVIOUS
    <2>1. CASE DbFail \/ DbRecover \/ Restart \/ UNCHANGED vars
      BY <2>1 DEF BatchInv, DbFail, DbRecover, Restart, vars
    <2> QED
      BY <2>1, RequestBatches, CallBatches, LoopBatches DEF Next
  <1>3. QueueInv /\ BatchInv => BatchStaysTogether
    <2> SUFFICES ASSUME QueueInv, BatchInv, call # None, call.op = "move", call.step = "bump",
                        call.todo = <<>>, IsInjective(call.batch)
                 PROVE  InOrder(rows, call.batch, Len(call.batch))
      BY DEF BatchStaysTogether, InOrder
    <2>1. Come(call) = Len(call.batch)
      <3>1. call.batch \in Seq(Items) /\ Len(<<>>) = 0
        BY DEF BatchInv, BatchKnown
      <3> QED
        BY <3>1 DEF Come
    <2> QED
      BY <2>1 DEF BatchInv, BatchKnown
  <1> QED
    BY <1>1, <1>2, <1>3, QueueInvariant, PlaceInvariant, PTL DEF Spec
=============================================================================
