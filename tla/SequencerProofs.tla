--------------------------- MODULE SequencerProofs ---------------------------
(* Theorems about Sequencer, for every set of items, every set of exit      *)
(* statuses and every number of outages and restarts.                      *)
EXTENDS Sequencer, SequenceLemmas, TLAPS

\* What the types need of the constants.
LEMMA ConstantsType == None \notin Items /\ {"success", "fail"} \subseteq Exits
BY SequencerAssumption

\* An outcome always has a history state.
LEMMA EntryType ==
    ASSUME NEW i \in Items, NEW e PROVE Entry(i, e) \in Entries
BY DEF Entry, ExitState, Entries, States

\* The items of a sequence of entries, and what becomes of them as it grows at
\* the back and is taken from the front.
LEMMA ItemsOfEntries ==
    ASSUME NEW s \in Seq(Entries)
    PROVE  /\ ItemsOf(s) \in Seq(Items)
           /\ s = <<>> => ItemsOf(s) = <<>>
           /\ \A e \in Entries : ItemsOf(Append(s, e)) = Append(ItemsOf(s), e.item)
           /\ s # <<>> => ItemsOf(s) = <<Head(s).item>> \o ItemsOf(Tail(s))
<1>1. /\ DOMAIN s = 1..Len(s) /\ Len(s) \in Nat
      /\ \A k \in 1..Len(s) : s[k] \in Entries
  OBVIOUS
<1>2. \A e \in Entries : e.item \in Items
  BY DEF Entries
<1>3. ASSUME NEW u \in Seq(Entries)
      PROVE  ItemsOf(u) \in Seq(Items) /\ Len(ItemsOf(u)) = Len(u)
  <2>1. \A k \in 1..Len(u) : u[k].item \in Items
    BY <1>2
  <2> QED BY <2>1 DEF ItemsOf
<1>4. ASSUME NEW e \in Entries PROVE ItemsOf(Append(s, e)) = Append(ItemsOf(s), e.item)
  <2>1. /\ Append(s, e) \in Seq(Entries) /\ Len(Append(s, e)) = Len(s) + 1
        /\ \A k \in 1..Len(s) : Append(s, e)[k] = s[k]
        /\ Append(s, e)[Len(s) + 1] = e
    BY AppendProperties
  <2>2. /\ Append(ItemsOf(s), e.item) \in Seq(Items)
        /\ Len(Append(ItemsOf(s), e.item)) = Len(s) + 1
        /\ \A k \in 1..Len(s) : Append(ItemsOf(s), e.item)[k] = ItemsOf(s)[k]
        /\ Append(ItemsOf(s), e.item)[Len(s) + 1] = e.item
    BY <1>2, <1>3, AppendProperties
  <2>3. /\ ItemsOf(Append(s, e)) \in Seq(Items)
        /\ Len(ItemsOf(Append(s, e))) = Len(s) + 1
    BY <1>3, <2>1
  <2>4. \A k \in 1..(Len(s) + 1) : ItemsOf(Append(s, e))[k] = Append(s, e)[k].item
    BY <2>1 DEF ItemsOf
  <2>5. \A k \in 1..Len(s) : ItemsOf(s)[k] = s[k].item
    BY <1>1 DEF ItemsOf
  <2>6. \A k \in 1..(Len(s) + 1) :
           ItemsOf(Append(s, e))[k] = Append(ItemsOf(s), e.item)[k]
    <3> TAKE k \in 1..(Len(s) + 1)
    <3>1. CASE k \in 1..Len(s)
      BY <2>1, <2>2, <2>4, <2>5, <3>1
    <3>2. CASE k = Len(s) + 1
      BY <2>1, <2>2, <2>4, <3>2
    <3>3. k \in 1..Len(s) \/ k = Len(s) + 1
      BY <1>1
    <3> QED BY <3>1, <3>2, <3>3
  <2> HIDE DEF ItemsOf
  <2> QED BY <2>2, <2>3, <2>6, SeqEqual
<1>5. ASSUME s # <<>> PROVE ItemsOf(s) = <<Head(s).item>> \o ItemsOf(Tail(s))
  <2>1. /\ Head(s) = s[1] /\ Head(s) \in Entries /\ Tail(s) \in Seq(Entries)
        /\ Len(Tail(s)) = Len(s) - 1
        /\ \A k \in 1..Len(Tail(s)) : Tail(s)[k] = s[k + 1]
    BY <1>5, HeadTailProperties
  <2>2. /\ ItemsOf(s) \in Seq(Items) /\ Len(ItemsOf(s)) = Len(s)
        /\ ItemsOf(Tail(s)) \in Seq(Items) /\ Len(ItemsOf(Tail(s))) = Len(s) - 1
    BY <1>3, <2>1
  <2>3. /\ \A k \in 1..Len(s) : ItemsOf(s)[k] = s[k].item
        /\ \A k \in 1..(Len(s) - 1) : ItemsOf(Tail(s))[k] = s[k + 1].item
    BY <1>1, <2>1 DEF ItemsOf
  <2> DEFINE h == <<Head(s).item>>
             c == h \o ItemsOf(Tail(s))
  <2>4. h \in Seq(Items) /\ Len(h) = 1 /\ h[1] = s[1].item
    BY <1>2, <2>1
  <2> HIDE DEF h
  <2>5. /\ c \in Seq(Items) /\ Len(c) = Len(s)
        /\ \A k \in 1..Len(s) : c[k] = IF k <= 1 THEN h[k] ELSE ItemsOf(Tail(s))[k - 1]
    <3> DEFINE t == ItemsOf(Tail(s))
    <3>1. t \in Seq(Items) /\ Len(t) = Len(s) - 1 /\ c = h \o t
      BY <2>2
    <3> HIDE DEF c, t
    <3>2. /\ h \o t \in Seq(Items) /\ Len(h \o t) = Len(h) + Len(t)
          /\ \A k \in 1..(Len(h) + Len(t)) :
                (h \o t)[k] = IF k <= Len(h) THEN h[k] ELSE t[k - Len(h)]
      BY <2>4, <3>1, ConcatProperties
    <3>3. Len(h) = 1 /\ Len(h) + Len(t) = Len(s)
      <4>1. Len(s) \in Nat
        BY <1>1
      <4> QED BY <2>4, <3>1, <4>1
    <3>4. /\ c \in Seq(Items) /\ Len(c) = Len(s)
          /\ \A k \in 1..Len(s) : c[k] = IF k <= 1 THEN h[k] ELSE t[k - 1]
      BY <3>1, <3>2, <3>3
    <3> QED BY <3>4 DEF t
  <2> HIDE DEF c
  <2>6. \A k \in 1..Len(s) : ItemsOf(s)[k] = c[k]
    <3> TAKE k \in 1..Len(s)
    <3>1. CASE k = 1
      BY <2>3, <2>4, <2>5, <3>1
    <3>2. CASE k # 1
      <4>1. k - 1 \in 1..(Len(s) - 1) /\ k - 1 + 1 = k
        BY <1>1, <3>2
      <4> QED BY <1>1, <2>3, <2>5, <3>2, <4>1
    <3> QED BY <3>1, <3>2
  <2>7. ItemsOf(s) = c
    BY <2>2, <2>5, <2>6, SeqEqual
  <2> QED BY <2>7 DEF c, h
<1>6. s = <<>> => ItemsOf(s) = <<>>
  <2> SUFFICES ASSUME s = <<>> PROVE ItemsOf(s) = <<>>
    OBVIOUS
  <2>1. ItemsOf(s) \in Seq(Items) /\ Len(ItemsOf(s)) = 0
    BY <1>3
  <2> QED BY <2>1, EmptySeq
<1> QED BY <1>3, <1>4, <1>5, <1>6

\* What ran is a sequence of items.
LEMMA RanType ==
    ASSUME TypeOK
    PROVE  /\ HistoryItems \in Seq(Items) /\ HeldItems \in Seq(Items)
           /\ Hand \in Seq(Items) /\ Unwritten \in Seq(Items) /\ Ran \in Seq(Items)
<1>1. history \in Seq(Entries) /\ pendingHistory \in Seq(Entries)
  BY DEF TypeOK, DataOK
<1>2. NotYetWritten \in Seq(Entries)
  BY <1>1, HeadTail DEF NotYetWritten
<1>3. HistoryItems \in Seq(Items) /\ HeldItems \in Seq(Items)
  BY <1>1, <1>2, ItemsOfEntries DEF HistoryItems, HeldItems
<1>4. Hand \in Seq(Items)
  <2>1. InHand # {} => item \in Items
    BY DEF TypeOK, ControlOK, InHand
  <2> QED BY <2>1 DEF Hand
<1>5. Unwritten \in Seq(Items)
  BY <1>3, <1>4, ConcatProperties DEF Unwritten
<1> QED BY <1>3, <1>4, <1>5, ConcatProperties DEF Ran

\* No step gives a Boolean field another kind of value.
LEMMA FlagsStep == FlagsOK /\ [Next]_vars => FlagsOK'
<1> SUFFICES ASSUME FlagsOK, [Next]_vars PROVE FlagsOK'
  OBVIOUS
<1> USE DEF FlagsOK, vars, dbVars, flagVars, modeVars, planVars, flushVars, heldVars, envVars, itemVars, auxVars, OnlyPc
<1>1. CASE SeqStopAsRequested
  BY <1>1, Zenon DEF SeqStopAsRequested, SelfStop, StopRequested
<1>2. CASE SeqAutostart
  BY <1>2, Zenon DEF SeqAutostart, AutostartDue, Goto
<1>3. CASE SeqGo
  BY <1>3, Zenon DEF SeqGo, StopRequested, Goto
<1>4. CASE SeqDieChecking
  BY <1>4, Zenon DEF SeqDieChecking, Goto
<1>5. CASE SeqClose
  BY <1>5, Zenon DEF SeqClose, Goto
<1>6. CASE SeqPop
  BY <1>6, Zenon DEF SeqPop, AfterPop, Goto
<1>7. CASE SeqEmpty
  BY <1>7, Zenon DEF SeqEmpty, SelfStop, Goto
<1>8. CASE SeqTake
  BY <1>8, Zenon DEF SeqTake, MustStop, Goto
<1>9. CASE SeqRecord
  BY <1>9, Zenon DEF SeqRecord, Goto
<1>10. CASE SeqHold
  BY <1>10, Zenon DEF SeqHold, Goto
<1>11. CASE SeqLoopItem
  BY <1>11, Zenon DEF SeqLoopItem, Goto
<1>12. CASE SeqSuccess
  BY <1>12, Zenon DEF SeqSuccess, Goto
<1>13. CASE SeqStopAndWait
  BY <1>13, Zenon DEF SeqStopAndWait, SelfStop, Goto
<1>14. CASE SeqFinish
  BY <1>14, Zenon DEF SeqFinish, Goto
<1>15. CASE StartCheck
  BY <1>15, Zenon DEF StartCheck, Goto
<1>16. CASE StartEnter
  BY <1>16, Zenon DEF StartEnter, Goto
<1>17. CASE StartCount
  BY <1>17, Zenon DEF StartCount, Goto
<1>18. CASE StartCall
  BY <1>18, Zenon DEF StartCall, Serving, Goto
<1>19. CASE StopCall
  BY <1>19, Zenon DEF StopCall, Serving, RequestStop
<1>20. CASE StopCancel
  BY <1>20, Zenon DEF StopCancel, Serving
<1>21. CASE Close
  BY <1>21, Zenon DEF Close, Serving
<1>22. CASE DbFail
  BY <1>22, Zenon DEF DbFail
<1>23. CASE DbRecover
  BY <1>23, Zenon DEF DbRecover
<1>24. CASE ExperimentChanges
  BY <1>24, Zenon DEF ExperimentChanges
<1>25. CASE Restart
  BY <1>25, Zenon DEF Restart, InHand, PendingItems
<1>26. CASE \E t \in Threads : FlushRead(t)
  BY <1>26, Zenon DEF FlushRead, Flushed, Goto
<1>27. CASE \E t \in Threads : FlushAppend(t)
  BY <1>27, Zenon DEF FlushAppend, FlushFailed, Goto
<1>28. CASE \E t \in Threads : FlushDrop(t)
  BY <1>28, Zenon DEF FlushDrop, FlushRaised, Goto
<1>29. CASE \E i \in Items : AddItem(i)
  BY <1>29, Zenon DEF AddItem, Serving
<1>30. CASE \E i \in Items : RemoveItem(i)
  BY <1>30, Zenon DEF RemoveItem, Serving, RemoveAt
<1>31. CASE \E i \in Items : ExecuteNow(i)
  BY <1>31, Zenon DEF ExecuteNow, Serving, Goto
<1>32. CASE \E b \in BOOLEAN : SetAutostart(b)
  BY <1>32, Zenon DEF SetAutostart, Serving
<1>33. CASE \E b \in BOOLEAN : SetLoopMode(b)
  BY <1>33, Zenon DEF SetLoopMode, Serving
<1>34. CASE \E e \in Exits : PlanEnds(e)
  BY <1>34, Zenon DEF PlanEnds, MustStop, Goto
<1>35. CASE UNCHANGED vars
  BY <1>35, Zenon
<1>36. CASE SeqExits
  BY <1>36, Zenon DEF SeqExits, Goto
<1> QED
  BY <1>1, <1>2, <1>3, <1>4, <1>5, <1>6, <1>7, <1>8, <1>9, <1>10, <1>11, <1>12, <1>13, <1>14, <1>15, <1>16, <1>17, <1>18, <1>19, <1>20, <1>21, <1>22, <1>23, <1>24, <1>25, <1>26, <1>27, <1>28, <1>29, <1>30, <1>31, <1>32, <1>33, <1>34, <1>35, <1>36
     DEF Next, SeqStep, HttpStep, HttpRequest, PlanStep, Environment, Threads

\* A thread is always at one of its own labels, and holds there what it needs:
\* _run_one an item, a flush the entry it read.
LEMMA ControlStep == TypeOK /\ [Next]_vars => ControlOK'
<1> SUFFICES ASSUME TypeOK, [Next]_vars PROVE ControlOK'
  OBVIOUS
<1> USE ConstantsType DEF TypeOK, ControlOK, SeqPCs, HttpPCs, Threads, Loop, Http, vars, dbVars, flagVars, modeVars, planVars, flushVars, heldVars, envVars, itemVars, auxVars, OnlyPc
<1>1. CASE SeqStopAsRequested
  BY <1>1 DEF SeqStopAsRequested, SelfStop, StopRequested
<1>2. CASE SeqAutostart
  BY <1>2 DEF SeqAutostart, AutostartDue, Goto
<1>3. CASE SeqGo
  BY <1>3 DEF SeqGo, StopRequested, Goto
<1>4. CASE SeqDieChecking
  BY <1>4 DEF SeqDieChecking, Goto
<1>5. CASE SeqClose
  BY <1>5 DEF SeqClose, Goto
<1>6. CASE SeqPop
  <2>1. CASE dbUp /\ queue # <<>>
    <3>1. Head(queue) \in Items
      BY <2>1, HeadTail DEF DataOK
    <3> QED BY <1>6, <2>1, <3>1 DEF SeqPop, Goto
  <2>2. CASE ~(dbUp /\ queue # <<>>)
    BY <1>6, <2>2 DEF SeqPop, Goto
  <2> QED BY <2>1, <2>2
<1>7. CASE SeqEmpty
  BY <1>7 DEF SeqEmpty, SelfStop, Goto
<1>8. CASE SeqTake
  BY <1>8 DEF SeqTake, MustStop, Goto
<1>9. CASE SeqRecord
  BY <1>9 DEF SeqRecord, Goto
<1>10. CASE SeqHold
  BY <1>10 DEF SeqHold, Goto
<1>11. CASE SeqLoopItem
  BY <1>11 DEF SeqLoopItem, Goto
<1>12. CASE SeqSuccess
  BY <1>12 DEF SeqSuccess, Goto
<1>13. CASE SeqStopAndWait
  BY <1>13 DEF SeqStopAndWait, SelfStop, Goto
<1>14. CASE SeqFinish
  BY <1>14 DEF SeqFinish, Goto
<1>15. CASE StartCheck
  BY <1>15 DEF StartCheck, Goto
<1>16. CASE StartEnter
  BY <1>16 DEF StartEnter, Goto
<1>17. CASE StartCount
  BY <1>17 DEF StartCount, Goto
<1>18. CASE StartCall
  BY <1>18 DEF StartCall, Serving, Goto
<1>19. CASE StopCall
  BY <1>19 DEF StopCall, Serving, RequestStop
<1>20. CASE StopCancel
  BY <1>20 DEF StopCancel, Serving
<1>21. CASE Close
  BY <1>21 DEF Close, Serving
<1>22. CASE DbFail
  BY <1>22 DEF DbFail
<1>23. CASE DbRecover
  BY <1>23 DEF DbRecover
<1>24. CASE ExperimentChanges
  BY <1>24 DEF ExperimentChanges
<1>25. CASE Restart
  BY <1>25 DEF Restart, InHand, PendingItems
<1>26. CASE \E t \in Threads : FlushRead(t)
  <2> PICK t \in Threads : FlushRead(t)
    BY <1>26
  <2>1. CASE pendingHistory = <<>>
    BY <2>1 DEF FlushRead, Flushed, Goto
  <2>2. CASE pendingHistory # <<>>
    <3>1. Head(pendingHistory) \in Entries
      BY <2>2, HeadTail DEF DataOK
    <3> QED BY <2>2, <3>1 DEF FlushRead, Goto
  <2> QED BY <2>1, <2>2
<1>27. CASE \E t \in Threads : FlushAppend(t)
  BY <1>27 DEF FlushAppend, FlushFailed, Goto
<1>28. CASE \E t \in Threads : FlushDrop(t)
  BY <1>28 DEF FlushDrop, FlushRaised, Goto
<1>29. CASE \E i \in Items : AddItem(i)
  BY <1>29 DEF AddItem, Serving
<1>30. CASE \E i \in Items : RemoveItem(i)
  BY <1>30 DEF RemoveItem, Serving, RemoveAt
<1>31. CASE \E i \in Items : ExecuteNow(i)
  BY <1>31 DEF ExecuteNow, Serving, Goto
<1>32. CASE \E b \in BOOLEAN : SetAutostart(b)
  BY <1>32 DEF SetAutostart, Serving
<1>33. CASE \E b \in BOOLEAN : SetLoopMode(b)
  BY <1>33 DEF SetLoopMode, Serving
<1>34. CASE \E e \in Exits : PlanEnds(e)
  BY <1>34 DEF PlanEnds, MustStop, Goto
<1>35. CASE UNCHANGED vars
  BY <1>35
<1>36. CASE SeqExits
  BY <1>36 DEF SeqExits, Goto
<1> QED
  BY <1>1, <1>2, <1>3, <1>4, <1>5, <1>6, <1>7, <1>8, <1>9, <1>10, <1>11, <1>12, <1>13, <1>14, <1>15, <1>16, <1>17, <1>18, <1>19, <1>20, <1>21, <1>22, <1>23, <1>24, <1>25, <1>26, <1>27, <1>28, <1>29, <1>30, <1>31, <1>32, <1>33, <1>34, <1>35, <1>36
     DEF Next, SeqStep, HttpStep, HttpRequest, PlanStep, Environment, Threads

\* The tables and the held entries keep their shape: an IndexError of the flush
\* leaves pendingHistory as it is, and no step takes the head of an empty queue.
LEMMA DataStep == TypeOK /\ [Next]_vars => DataOK'
<1> SUFFICES ASSUME TypeOK, [Next]_vars PROVE DataOK'
  OBVIOUS
<1> USE ConstantsType DEF TypeOK, ControlOK, DataOK, NoStop, Threads, Loop, Http, vars, dbVars, flagVars, modeVars, planVars, flushVars, heldVars, envVars, itemVars, auxVars, OnlyPc
<1>1. CASE SeqStopAsRequested
  BY <1>1 DEF SeqStopAsRequested, SelfStop, StopRequested
<1>2. CASE SeqAutostart
  BY <1>2 DEF SeqAutostart, AutostartDue, Goto
<1>3. CASE SeqGo
  BY <1>3 DEF SeqGo, StopRequested, Goto
<1>4. CASE SeqDieChecking
  BY <1>4 DEF SeqDieChecking, Goto
<1>5. CASE SeqClose
  BY <1>5 DEF SeqClose, Goto
<1>6. CASE SeqPop
  <2>1. queue # <<>> => Head(queue) \in Items /\ Tail(queue) \in Seq(Items)
    BY HeadTail
  <2>2. queue # <<>> => Append(handed, Head(queue)) \in Seq(Items)
    BY <2>1, AppendProperties
  <2>3. CASE dbUp /\ queue # <<>>
    <3>1. queue' = Tail(queue) /\ handed' = Append(handed, Head(queue))
      BY <1>6, <2>3 DEF SeqPop, AfterPop
    <3>2. sinceStop' \in Nat \cup {NoStop}
      BY <1>6, <2>3 DEF SeqPop
    <3>3. queue' \in Seq(Items) /\ handed' \in Seq(Items)
      BY <2>1, <2>2, <2>3, <3>1
    <3> QED BY <1>6, <3>2, <3>3 DEF SeqPop
  <2>4. CASE ~(dbUp /\ queue # <<>>)
    BY <1>6, <2>4 DEF SeqPop
  <2> QED BY <2>3, <2>4
<1>7. CASE SeqEmpty
  BY <1>7 DEF SeqEmpty, SelfStop, Goto
<1>8. CASE SeqTake
  BY <1>8 DEF SeqTake, MustStop, Goto
<1>9. CASE SeqRecord
  <2>1. item \in Items
    BY <1>9 DEF SeqRecord
  <2>2. Entry(item, exit) \in Entries
    BY <2>1, EntryType
  <2>3. /\ Append(history, Entry(item, exit)) \in Seq(Entries)
        /\ Append(pendingHistory, Entry(item, exit)) \in Seq(Entries)
    BY <2>2, AppendProperties
  <2> QED BY <1>9, <2>3 DEF SeqRecord
<1>10. CASE SeqHold
  BY <1>10 DEF SeqHold, Goto
<1>11. CASE SeqLoopItem
  <2>1. \A i \in Items : Append(queue, i) \in Seq(Items)
    BY AppendProperties
  <2> QED BY <1>11, <2>1 DEF SeqLoopItem
<1>12. CASE SeqSuccess
  BY <1>12 DEF SeqSuccess, Goto
<1>13. CASE SeqStopAndWait
  BY <1>13 DEF SeqStopAndWait, SelfStop, Goto
<1>14. CASE SeqFinish
  BY <1>14 DEF SeqFinish, Goto
<1>15. CASE StartCheck
  BY <1>15 DEF StartCheck, Goto
<1>16. CASE StartEnter
  BY <1>16 DEF StartEnter, Goto
<1>17. CASE StartCount
  BY <1>17 DEF StartCount, Goto
<1>18. CASE StartCall
  BY <1>18 DEF StartCall, Serving, Goto
<1>19. CASE StopCall
  BY <1>19 DEF StopCall, Serving, RequestStop
<1>20. CASE StopCancel
  BY <1>20 DEF StopCancel, Serving
<1>21. CASE Close
  BY <1>21 DEF Close, Serving
<1>22. CASE DbFail
  BY <1>22 DEF DbFail
<1>23. CASE DbRecover
  BY <1>23 DEF DbRecover
<1>24. CASE ExperimentChanges
  BY <1>24 DEF ExperimentChanges
<1>25. CASE Restart
  <2>1. ToSet(Unwritten) \subseteq Items
    BY RanType, ElementsType
  <2> QED BY <1>25, <2>1 DEF Restart
<1>26. CASE \E t \in Threads : FlushRead(t)
  BY <1>26 DEF FlushRead, Flushed, Goto
<1>27. CASE \E t \in Threads : FlushAppend(t)
  <2> PICK t \in Threads : FlushAppend(t)
    BY <1>27
  <2>1. read[t] \in Entries
    BY DEF FlushAppend
  <2>2. Append(history, read[t]) \in Seq(Entries)
    BY <2>1, AppendProperties
  <2> QED BY <2>2 DEF FlushAppend
<1>28. CASE \E t \in Threads : FlushDrop(t)
  <2>1. pendingHistory # <<>> => Tail(pendingHistory) \in Seq(Entries)
    BY HeadTail
  <2> QED BY <1>28, <2>1 DEF FlushDrop
<1>29. CASE \E i \in Items : AddItem(i)
  BY <1>29 DEF AddItem, Serving
<1>30. CASE \E i \in Items : RemoveItem(i)
  BY <1>30 DEF RemoveItem, Serving, RemoveAt
<1>31. CASE \E i \in Items : ExecuteNow(i)
  BY <1>31 DEF ExecuteNow, Serving, Goto
<1>32. CASE \E b \in BOOLEAN : SetAutostart(b)
  BY <1>32 DEF SetAutostart, Serving
<1>33. CASE \E b \in BOOLEAN : SetLoopMode(b)
  BY <1>33 DEF SetLoopMode, Serving
<1>34. CASE \E e \in Exits : PlanEnds(e)
  BY <1>34 DEF PlanEnds, MustStop, Goto
<1>35. CASE UNCHANGED vars
  BY <1>35
<1>36. CASE SeqExits
  BY <1>36 DEF SeqExits
<1> QED
  BY <1>1, <1>2, <1>3, <1>4, <1>5, <1>6, <1>7, <1>8, <1>9, <1>10, <1>11, <1>12, <1>13, <1>14, <1>15, <1>16, <1>17, <1>18, <1>19, <1>20, <1>21, <1>22, <1>23, <1>24, <1>25, <1>26, <1>27, <1>28, <1>29, <1>30, <1>31, <1>32, <1>33, <1>34, <1>35, <1>36
     DEF Next, SeqStep, HttpStep, HttpRequest, PlanStep, Environment, Threads

LEMMA InitTyped == Init => TypeOK
<1> SUFFICES ASSUME Init PROVE TypeOK
  OBVIOUS
<1> USE DEF Init
<1>1. FlagsOK
  BY Zenon DEF FlagsOK
<1>2. ControlOK
  BY ConstantsType DEF ControlOK, Threads, Loop, Http, SeqPCs, HttpPCs
<1>3. DataOK
  BY DEF DataOK
<1> QED BY <1>1, <1>2, <1>3 DEF TypeOK

LEMMA TypeStep == TypeOK /\ [Next]_vars => TypeOK'
BY FlagsStep, ControlStep, DataStep DEF TypeOK

\* Every variable of the queue loop keeps its type, in every interleaving of the
\* two threads, database outages and restarts.
THEOREM TypeCorrect == Spec => []TypeOK
BY InitTyped, TypeStep, PTL DEF Spec

\* The inductive step of the next theorems: one case per step of code.
LEMMA SafetyStep == TypeOK /\ SafetyInv /\ [Next]_vars => SafetyInv'
<1> SUFFICES ASSUME TypeOK /\ SafetyInv, [Next]_vars PROVE SafetyInv'
  OBVIOUS
<1> USE DEF TypeOK, FlagsOK, ControlOK, DataOK, SafetyInv, RunningWhileBusy, RevokedOnlyWhileSettling, CountedWhileStopPending, StopTakesEffect, LockFree, NoStop, Threads, Loop, Http, vars, dbVars, flagVars, modeVars, planVars, flushVars, heldVars, envVars, itemVars, auxVars, OnlyPc
<1>1. CASE SeqStopAsRequested
  BY <1>1 DEF SeqStopAsRequested, SelfStop, StopRequested
<1>2. CASE SeqAutostart
  BY <1>2 DEF SeqAutostart, AutostartDue, Goto
<1>3. CASE SeqGo
  BY <1>3 DEF SeqGo, StopRequested, Goto
<1>4. CASE SeqDieChecking
  BY <1>4 DEF SeqDieChecking, Goto
<1>5. CASE SeqClose
  BY <1>5 DEF SeqClose, Goto
<1>6. CASE SeqPop
  BY <1>6 DEF SeqPop, AfterPop, Goto
<1>7. CASE SeqEmpty
  BY <1>7 DEF SeqEmpty, SelfStop, Goto
<1>8. CASE SeqTake
  BY <1>8 DEF SeqTake, MustStop, Goto
<1>9. CASE SeqRecord
  BY <1>9 DEF SeqRecord, Goto
<1>10. CASE SeqHold
  BY <1>10 DEF SeqHold, Goto
<1>11. CASE SeqLoopItem
  BY <1>11 DEF SeqLoopItem, Goto
<1>12. CASE SeqSuccess
  BY <1>12 DEF SeqSuccess, Goto
<1>13. CASE SeqStopAndWait
  BY <1>13 DEF SeqStopAndWait, SelfStop, Goto
<1>14. CASE SeqFinish
  BY <1>14 DEF SeqFinish, Goto
<1>15. CASE StartCheck
  BY <1>15 DEF StartCheck, Goto
<1>16. CASE StartEnter
  BY <1>16 DEF StartEnter, Goto
<1>17. CASE StartCount
  BY <1>17 DEF StartCount, Goto
<1>18. CASE StartCall
  BY <1>18 DEF StartCall, Serving, Goto
<1>19. CASE StopCall
  BY <1>19 DEF StopCall, Serving, RequestStop
<1>20. CASE StopCancel
  BY <1>20 DEF StopCancel, Serving
<1>21. CASE Close
  BY <1>21 DEF Close, Serving
<1>22. CASE DbFail
  BY <1>22 DEF DbFail
<1>23. CASE DbRecover
  BY <1>23 DEF DbRecover
<1>24. CASE ExperimentChanges
  BY <1>24 DEF ExperimentChanges
<1>25. CASE Restart
  BY <1>25 DEF Restart, InHand, PendingItems
<1>26. CASE \E t \in Threads : FlushRead(t)
  BY <1>26 DEF FlushRead, Flushed, Goto
<1>27. CASE \E t \in Threads : FlushAppend(t)
  BY <1>27 DEF FlushAppend, FlushFailed, Goto
<1>28. CASE \E t \in Threads : FlushDrop(t)
  BY <1>28 DEF FlushDrop, FlushRaised, Goto
<1>29. CASE \E i \in Items : AddItem(i)
  BY <1>29 DEF AddItem, Serving
<1>30. CASE \E i \in Items : RemoveItem(i)
  BY <1>30 DEF RemoveItem, Serving, RemoveAt
<1>31. CASE \E i \in Items : ExecuteNow(i)
  BY <1>31 DEF ExecuteNow, Serving, Goto
<1>32. CASE \E b \in BOOLEAN : SetAutostart(b)
  BY <1>32 DEF SetAutostart, Serving
<1>33. CASE \E b \in BOOLEAN : SetLoopMode(b)
  BY <1>33 DEF SetLoopMode, Serving
<1>34. CASE \E e \in Exits : PlanEnds(e)
  BY <1>34 DEF PlanEnds, MustStop, Goto
<1>35. CASE UNCHANGED vars
  BY <1>35
<1>36. CASE SeqExits
  BY <1>36 DEF SeqExits, Goto
<1> QED
  BY <1>1, <1>2, <1>3, <1>4, <1>5, <1>6, <1>7, <1>8, <1>9, <1>10, <1>11, <1>12, <1>13, <1>14, <1>15, <1>16, <1>17, <1>18, <1>19, <1>20, <1>21, <1>22, <1>23, <1>24, <1>25, <1>26, <1>27, <1>28, <1>29, <1>30, <1>31, <1>32, <1>33, <1>34, <1>35, <1>36
     DEF Next, SeqStep, HttpStep, HttpRequest, PlanStep, Environment, Threads

LEMMA InitSafe == Init => SafetyInv
BY DEF Init, SafetyInv, RunningWhileBusy, RevokedOnlyWhileSettling, CountedWhileStopPending,
       StopTakesEffect, NoStop, Threads, Loop, Http

\* The inductive invariant of stop-and-wait and of queue_stop (_should_run,
\* _record, _run_one, queue_start, queue_stop) holds in every reachable state.
THEOREM SafetyInvariant == Spec => []SafetyInv
BY InitSafe, SafetyStep, TypeCorrect, PTL DEF Spec

\* Stop-and-wait (_run_one): after an item that did not succeed, or an outcome
\* that could not be written, no item is taken before a client or autostart has
\* started the queue again.
THEOREM Authorised == Spec => []RunsOnlyWhenAuthorised
<1>1. SafetyInv => RunsOnlyWhenAuthorised
  BY DEF SafetyInv, RunningWhileBusy, RevokedOnlyWhileSettling, RunsOnlyWhenAuthorised
<1> QED
  BY <1>1, SafetyInvariant, PTL

\* queue_stop: at most one more item starts after an accepted stop.
THEOREM StopWorks == Spec => []StopTakesEffect
<1>1. SafetyInv => StopTakesEffect
  BY DEF SafetyInv
<1> QED
  BY <1>1, SafetyInvariant, PTL

\* Only pop_front, add, push_front and remove touch the queue, and each keeps an
\* item in one place.
LEMMA HandedOutStep == TypeOK /\ HandedOutOnce /\ [Next]_vars => HandedOutOnce'
<1> SUFFICES ASSUME TypeOK /\ HandedOutOnce, [Next]_vars PROVE HandedOutOnce'
  OBVIOUS
<1> USE DEF TypeOK, DataOK, HandedOutOnce, vars, dbVars, flagVars, modeVars, planVars, flushVars, heldVars, envVars, itemVars, auxVars, OnlyPc
<1>1. CASE SeqStopAsRequested
  BY <1>1 DEF SeqStopAsRequested, SelfStop, StopRequested
<1>2. CASE SeqAutostart
  BY <1>2 DEF SeqAutostart, AutostartDue, Goto
<1>3. CASE SeqGo
  BY <1>3 DEF SeqGo, StopRequested, Goto
<1>4. CASE SeqDieChecking
  BY <1>4 DEF SeqDieChecking, Goto
<1>5. CASE SeqClose
  BY <1>5 DEF SeqClose, Goto
<1>6. CASE SeqPop
  <2>1. CASE dbUp /\ queue # <<>>
    <3> DEFINE i == Head(queue)
    <3>1. queue' = Tail(queue) /\ handed' = Append(handed, i)
      BY <1>6, <2>1 DEF SeqPop, AfterPop
    <3>2. /\ i \in Items /\ IsInjective(Tail(queue))
          /\ i \notin ToSet(Tail(queue))
          /\ ToSet(queue) = ToSet(Tail(queue)) \cup {i}
      BY <2>1, HeadTail, TailDistinct
    <3>3. i \notin ToSet(handed)
      BY <3>2
    <3>4. /\ IsInjective(Append(handed, i))
          /\ ToSet(Append(handed, i)) = ToSet(handed) \cup {i}
      BY <3>2, <3>3, AppendDistinct
    <3>5. withdrawn' = withdrawn /\ submitted' = submitted
      BY <1>6 DEF SeqPop
    <3> QED BY <3>1, <3>2, <3>4, <3>5
  <2>2. CASE ~(dbUp /\ queue # <<>>)
    BY <1>6, <2>2 DEF SeqPop
  <2> QED BY <2>1, <2>2
<1>7. CASE SeqEmpty
  BY <1>7 DEF SeqEmpty, SelfStop, Goto
<1>8. CASE SeqTake
  BY <1>8 DEF SeqTake, MustStop, Goto
<1>9. CASE SeqRecord
  BY <1>9 DEF SeqRecord, Goto
<1>10. CASE SeqHold
  BY <1>10 DEF SeqHold, Goto
<1>11. CASE SeqLoopItem
  <2>1. CASE UNCHANGED <<queue, submitted>>
    BY <1>11, <2>1 DEF SeqLoopItem
  <2>2. CASE \E fresh \in Items \ submitted :
                /\ queue' = Append(queue, fresh)
                /\ submitted' = submitted \cup {fresh}
    <3> PICK fresh \in Items \ submitted :
                /\ queue' = Append(queue, fresh)
                /\ submitted' = submitted \cup {fresh}
      BY <2>2
    <3>1. /\ IsInjective(Append(queue, fresh))
          /\ ToSet(Append(queue, fresh)) = ToSet(queue) \cup {fresh}
      BY AppendDistinct
    <3> QED BY <1>11, <3>1 DEF SeqLoopItem
  <2> QED BY <1>11, <2>1, <2>2 DEF SeqLoopItem
<1>12. CASE SeqSuccess
  BY <1>12 DEF SeqSuccess, Goto
<1>13. CASE SeqStopAndWait
  BY <1>13 DEF SeqStopAndWait, SelfStop, Goto
<1>14. CASE SeqFinish
  BY <1>14 DEF SeqFinish, Goto
<1>15. CASE StartCheck
  BY <1>15 DEF StartCheck, Goto
<1>16. CASE StartEnter
  BY <1>16 DEF StartEnter, Goto
<1>17. CASE StartCount
  BY <1>17 DEF StartCount, Goto
<1>18. CASE StartCall
  BY <1>18 DEF StartCall, Serving, Goto
<1>19. CASE StopCall
  BY <1>19 DEF StopCall, Serving, RequestStop
<1>20. CASE StopCancel
  BY <1>20 DEF StopCancel, Serving
<1>21. CASE Close
  BY <1>21 DEF Close, Serving
<1>22. CASE DbFail
  BY <1>22 DEF DbFail
<1>23. CASE DbRecover
  BY <1>23 DEF DbRecover
<1>24. CASE ExperimentChanges
  BY <1>24 DEF ExperimentChanges
<1>25. CASE Restart
  BY <1>25 DEF Restart, InHand, PendingItems
<1>26. CASE \E t \in Threads : FlushRead(t)
  BY <1>26 DEF FlushRead, Flushed, Goto
<1>27. CASE \E t \in Threads : FlushAppend(t)
  BY <1>27 DEF FlushAppend, FlushFailed, Goto
<1>28. CASE \E t \in Threads : FlushDrop(t)
  BY <1>28 DEF FlushDrop, FlushRaised, Goto
<1>29. CASE \E i \in Items : AddItem(i)
  <2> PICK i \in Items : AddItem(i)
    BY <1>29
  <2> USE DEF AddItem
  <2>1. /\ IsInjective(Append(queue, i))
        /\ ToSet(Append(queue, i)) = ToSet(queue) \cup {i}
    BY AppendDistinct
  <2> QED BY <2>1
<1>30. CASE \E i \in Items : RemoveItem(i)
  <2> PICK i \in Items, k \in DOMAIN queue :
          RemoveItem(i) /\ queue[k] = i /\ queue' = RemoveAt(queue, k)
    BY <1>30 DEF RemoveItem
  <2>1. k \in 1..Len(queue)
    OBVIOUS
  <2>2. /\ IsInjective(RemoveAt(queue, k))
        /\ ToSet(RemoveAt(queue, k)) = ToSet(queue) \ {i}
    BY <2>1, RemoveAtDistinct
  <2>3. i \in ToSet(queue)
    BY DEF ToSet
  <2> QED BY <2>2, <2>3 DEF RemoveItem
<1>31. CASE \E i \in Items : ExecuteNow(i)
  <2> PICK i \in Items : ExecuteNow(i)
    BY <1>31
  <2> USE DEF ExecuteNow
  <2>1. /\ IsInjective(<<i>> \o queue)
        /\ ToSet(<<i>> \o queue) = ToSet(queue) \cup {i}
    BY PrependDistinct
  <2> QED BY <2>1
<1>32. CASE \E b \in BOOLEAN : SetAutostart(b)
  BY <1>32 DEF SetAutostart, Serving
<1>33. CASE \E b \in BOOLEAN : SetLoopMode(b)
  BY <1>33 DEF SetLoopMode, Serving
<1>34. CASE \E e \in Exits : PlanEnds(e)
  BY <1>34 DEF PlanEnds, MustStop, Goto
<1>35. CASE UNCHANGED vars
  BY <1>35
<1>36. CASE SeqExits
  BY <1>36 DEF SeqExits
<1> QED
  BY <1>1, <1>2, <1>3, <1>4, <1>5, <1>6, <1>7, <1>8, <1>9, <1>10, <1>11, <1>12, <1>13, <1>14, <1>15, <1>16, <1>17, <1>18, <1>19, <1>20, <1>21, <1>22, <1>23, <1>24, <1>25, <1>26, <1>27, <1>28, <1>29, <1>30, <1>31, <1>32, <1>33, <1>34, <1>35, <1>36
     DEF Next, SeqStep, HttpStep, HttpRequest, PlanStep, Environment, Threads

\* pop_front hands each accepted item to the loop exactly once, whatever fails
\* and however often the process dies.
THEOREM ExactlyOnce == Spec => []HandedOutOnce
<1>1. Init => HandedOutOnce
  BY DEF Init, HandedOutOnce, IsInjective, ToSet
<1>2. TypeOK /\ HandedOutOnce /\ [Next]_vars => HandedOutOnce'
  BY HandedOutStep
<1> QED
  BY <1>1, <1>2, TypeCorrect, PTL DEF Spec

\* A step of the service itself: of the loop, of a plan or of a request.
ServiceStep == SeqStep \/ PlanStep \/ HttpStep \/ HttpRequest

\* While the database answers, no step of the service holds an outcome back.
LEMMA ServiceUndisturbed == TypeOK /\ Undisturbed /\ ServiceStep => Undisturbed'
<1> SUFFICES ASSUME TypeOK /\ Undisturbed, ServiceStep PROVE Undisturbed'
  OBVIOUS
<1> USE DEF TypeOK, FlagsOK, ControlOK, DataOK, Undisturbed, Threads, Loop, Http, vars, dbVars, flagVars, modeVars, planVars, flushVars, heldVars, envVars, itemVars, auxVars, OnlyPc
<1>1. CASE SeqStopAsRequested
  BY <1>1 DEF SeqStopAsRequested, SelfStop, StopRequested
<1>2. CASE SeqAutostart
  BY <1>2 DEF SeqAutostart, AutostartDue, Goto
<1>3. CASE SeqGo
  BY <1>3 DEF SeqGo, StopRequested, Goto
<1>4. CASE SeqDieChecking
  BY <1>4 DEF SeqDieChecking, Goto
<1>5. CASE SeqClose
  BY <1>5 DEF SeqClose, Goto
<1>6. CASE SeqPop
  BY <1>6 DEF SeqPop, AfterPop, Goto
<1>7. CASE SeqEmpty
  BY <1>7 DEF SeqEmpty, SelfStop, Goto
<1>8. CASE SeqTake
  BY <1>8 DEF SeqTake, MustStop, Goto
<1>9. CASE SeqRecord
  BY <1>9 DEF SeqRecord, Goto
<1>10. CASE SeqHold
  BY <1>10 DEF SeqHold, Goto
<1>11. CASE SeqLoopItem
  BY <1>11 DEF SeqLoopItem, Goto
<1>12. CASE SeqSuccess
  BY <1>12 DEF SeqSuccess, Goto
<1>13. CASE SeqStopAndWait
  BY <1>13 DEF SeqStopAndWait, SelfStop, Goto
<1>14. CASE SeqFinish
  BY <1>14 DEF SeqFinish, Goto
<1>15. CASE StartCheck
  BY <1>15 DEF StartCheck, Goto
<1>16. CASE StartEnter
  BY <1>16 DEF StartEnter, Goto
<1>17. CASE StartCount
  BY <1>17 DEF StartCount, Goto
<1>18. CASE StartCall
  BY <1>18 DEF StartCall, Serving, Goto
<1>19. CASE StopCall
  BY <1>19 DEF StopCall, Serving, RequestStop
<1>20. CASE StopCancel
  BY <1>20 DEF StopCancel, Serving
<1>21. CASE \E t \in Threads : FlushRead(t)
  BY <1>21 DEF FlushRead, Flushed, Goto
<1>22. CASE \E t \in Threads : FlushAppend(t)
  BY <1>22 DEF FlushAppend, FlushFailed, Goto
<1>23. CASE \E t \in Threads : FlushDrop(t)
  BY <1>23 DEF FlushDrop, FlushRaised, Goto
<1>24. CASE \E i \in Items : AddItem(i)
  BY <1>24 DEF AddItem, Serving
<1>25. CASE \E i \in Items : RemoveItem(i)
  BY <1>25 DEF RemoveItem, Serving, RemoveAt
<1>26. CASE \E i \in Items : ExecuteNow(i)
  BY <1>26 DEF ExecuteNow, Serving, Goto
<1>27. CASE \E b \in BOOLEAN : SetAutostart(b)
  BY <1>27 DEF SetAutostart, Serving
<1>28. CASE \E b \in BOOLEAN : SetLoopMode(b)
  BY <1>28 DEF SetLoopMode, Serving
<1>29. CASE \E e \in Exits : PlanEnds(e)
  BY <1>29 DEF PlanEnds, MustStop, Goto
<1>30. CASE SeqExits
  BY <1>30 DEF SeqExits, Goto
<1> QED
  BY <1>1, <1>2, <1>3, <1>4, <1>5, <1>6, <1>7, <1>8, <1>9, <1>10, <1>11, <1>12, <1>13, <1>14, <1>15, <1>16, <1>17, <1>18, <1>19, <1>20, <1>21, <1>22, <1>23, <1>24, <1>25, <1>26, <1>27, <1>28, <1>29, <1>30
     DEF ServiceStep, SeqStep, HttpStep, HttpRequest, PlanStep, Threads

LEMMA UndisturbedStep ==
    MaxOutages = 0 /\ TypeOK /\ Undisturbed /\ [Next]_vars => Undisturbed'
<1> SUFFICES ASSUME MaxOutages = 0, TypeOK /\ Undisturbed, [Next]_vars PROVE Undisturbed'
  OBVIOUS
<1> USE DEF TypeOK, FlagsOK, ControlOK, DataOK, Undisturbed, Threads, Loop, Http, vars, dbVars, flagVars, modeVars, planVars, flushVars, heldVars, envVars, itemVars, auxVars, OnlyPc
<1>1. CASE Close
  BY <1>1 DEF Close, Serving
<1>2. CASE DbFail
  BY <1>2 DEF DbFail
<1>3. CASE DbRecover
  BY <1>3 DEF DbRecover
<1>4. CASE ExperimentChanges
  BY <1>4 DEF ExperimentChanges
<1>5. CASE Restart
  BY <1>5 DEF Restart, InHand, PendingItems
<1>6. CASE UNCHANGED vars
  BY <1>6
<1> QED
  BY <1>1, <1>2, <1>3, <1>4, <1>5, <1>6, ServiceUndisturbed DEF Next, Environment, ServiceStep

\* The states of the history are not None, and nor is the item being run.
LEMMA CurrentType ==
    ASSUME TypeOK
    PROVE  /\ InHand = {} => Current = None
           /\ InHand # {} => Current # None
           /\ pc[Loop] \in {"take", "run"}
                 => InHand # {} /\ Current = [item |-> item, state |-> None]
           /\ pc[Loop] \in {"flush", "append", "drop", "record"}
                 => InHand # {} /\ Current = Entry(item, exit) /\ ExitState(exit) # None
<1>1. ExitState(exit) \in States
  BY DEF ExitState, States
<1>2. pc[Loop] \in {"take", "run", "flush", "append", "drop", "record"} => item \in Items
  BY DEF TypeOK, ControlOK
<1> QED BY <1>1, <1>2, SequencerAssumption DEF InHand, Current, Entry

\* Each step of the code is a step of the contract or changes nothing it speaks of.
LEMMA ContractStep ==
    TypeOK /\ TypeOK' /\ SafetyInv /\ Undisturbed /\ [Next]_vars => [Contract!Next]_(Contract!vars)
<1> SUFFICES ASSUME TypeOK, TypeOK', SafetyInv, Undisturbed, [Next]_vars
             PROVE  [Contract!Next]_(Contract!vars)
  OBVIOUS
<1> DEFINE permitted == authority # "none" /\ pc[Loop] # "dead"
<1>a. SUFFICES
          \/ \E i \in Items : \/ Contract!Submit(i)
                              \/ Contract!Withdraw(i)
          \/ Contract!Permit \/ Contract!Take \/ Contract!Write \/ Contract!Crash
          \/ \E s \in States : Contract!End(s)
          \/ UNCHANGED <<queue, Current, history, permitted>>
  BY DEF Contract!Next, Contract!vars
<1>b. Loop = "seq" /\ Http = "http" /\ Threads = {"seq", "http"}
  BY DEF Loop, Http, Threads
<1>c. pc[Loop] \in SeqPCs /\ pc[Http] \in HttpPCs /\ pc = [t \in Threads |-> pc[t]]
  BY DEF TypeOK, ControlOK
\* A step that leaves the threads' hands alone leaves Current alone.
<1>d. (InHand = {} /\ (InHand)' = {}) => Current' = Current
  BY DEF Current
<1>e. UNCHANGED <<item, exit, pc>> => Current' = Current
  BY DEF Current, InHand
<1>f. UNCHANGED <<item, exit>> /\ pc'[Loop] = pc[Loop] => Current' = Current
  BY DEF Current, InHand
<1> USE DEF vars, dbVars, flagVars, modeVars, planVars, flushVars, heldVars, envVars, itemVars, auxVars, OnlyPc
<1>1. CASE SeqStopAsRequested
  BY <1>1, <1>e DEF SeqStopAsRequested, SelfStop, StopRequested
<1>2. CASE SeqAutostart
  BY <1>2, <1>b, <1>c, <1>d DEF SeqAutostart, AutostartDue, Goto, InHand, Contract!Permit
<1>3. CASE SeqGo
  BY <1>3, <1>b, <1>c, <1>d DEF SeqGo, StopRequested, Goto, InHand
<1>4. CASE SeqDieChecking
  BY <1>4 DEF SeqDieChecking, Undisturbed
<1>5. CASE SeqClose
  BY <1>5, <1>b, <1>c, <1>d DEF SeqClose, Goto, InHand
<1>6. CASE SeqPop
  <2>1. CASE dbUp /\ queue # <<>>
    <3>1. permitted
      BY <1>6 DEF SeqPop, SafetyInv, RunningWhileBusy, RevokedOnlyWhileSettling
    <3>2. Current = None
      BY <1>6, CurrentType DEF SeqPop, InHand
    <3>3. pc'[Loop] = "take" /\ item' = Head(queue)
      BY <1>6, <2>1, <1>b, <1>c DEF SeqPop, Goto
    <3>4. Current' = [item |-> Head(queue), state |-> None]
      BY <3>3 DEF Current, InHand
    <3>5. queue' = Tail(queue) /\ UNCHANGED <<history, authority>>
      BY <1>6, <2>1 DEF SeqPop, AfterPop
    <3> QED BY <2>1, <3>1, <3>2, <3>3, <3>4, <3>5 DEF Contract!Take
  <2>2. CASE ~(dbUp /\ queue # <<>>)
    <3>1. UNCHANGED <<queue, history, authority>>
      BY <1>6, <2>2 DEF SeqPop
    <3>2. pc[Loop] = "pop" /\ pc'[Loop] = "empty"
      BY <1>6, <2>2, <1>b, <1>c DEF SeqPop, Undisturbed, Goto
    <3>3. Current' = Current
      BY <1>d, <3>2 DEF InHand
    <3> QED BY <3>1, <3>2, <3>3
  <2> QED BY <2>1, <2>2
<1>7. CASE SeqEmpty
  BY <1>7, <1>b, <1>c, <1>d DEF SeqEmpty, SelfStop, Goto, InHand
<1>8. CASE SeqTake
  <2>1. Current = [item |-> item, state |-> None] /\ Current # None
    BY <1>8, CurrentType DEF SeqTake
  <2>2. UNCHANGED <<queue, history, item>>
    BY <1>8 DEF SeqTake
  <2>3. CASE exit' = "fail" /\ authority' = MustStop("fail") /\ Goto(Loop, "flush")
    <3>1. pc'[Loop] = "flush"
      BY <2>3, <1>b, <1>c DEF Goto
    <3>2. Current' = [item |-> item, state |-> "failed"]
      BY <2>2, <2>3, <3>1 DEF Current, InHand, ExitState
    <3>3. ~permitted'
      BY <2>3 DEF MustStop
    <3>4. Contract!End("failed")
      BY <2>1, <2>2, <3>2, <3>3 DEF Contract!End
    <3> QED BY <3>4 DEF States
  <2>4. CASE Goto(Loop, "run") /\ UNCHANGED <<exit, authority>>
    <3>1. pc[Loop] = "take" /\ pc'[Loop] = "run"
      BY <1>8, <2>4, <1>b, <1>c DEF Goto, SeqTake
    <3>2. Current' = Current
      BY <2>2, <3>1 DEF Current, InHand
    <3> QED BY <2>2, <2>4, <3>1, <3>2
  <2> QED BY <1>8, <2>3, <2>4 DEF SeqTake
<1>9. CASE SeqRecord
  <2>1. /\ Current = Entry(item, exit) /\ Current # None
        /\ Current.state # None
    BY <1>9, CurrentType DEF SeqRecord, Entry
  <2>2. /\ history' = Append(history, Entry(item, exit))
        /\ UNCHANGED <<queue, authority>>
    BY <1>9 DEF SeqRecord, Undisturbed
  <2>3. pc'[Loop] = "settle"
    BY <1>9, <1>b, <1>c DEF SeqRecord, Undisturbed, Goto
  <2>4. Current' = None
    BY <2>3 DEF Current, InHand
  <2>5. permitted' = permitted
    BY <1>9, <2>2, <2>3 DEF SeqRecord
  <2> QED BY <2>1, <2>2, <2>4, <2>5 DEF Contract!Write
<1>10. CASE SeqHold
  BY <1>10, <1>b, <1>c, <1>d DEF SeqHold, Goto, InHand
<1>11. CASE SeqLoopItem
  <2>1. Current' = Current
    BY <1>11, <1>b, <1>c, <1>d DEF SeqLoopItem, InHand, Goto
  <2>2. UNCHANGED <<history, authority>> /\ permitted' = permitted
    BY <1>11, <1>b, <1>c DEF SeqLoopItem, Goto
  <2>3. CASE UNCHANGED queue
    BY <2>1, <2>2, <2>3
  <2>4. CASE \E fresh \in Items : queue' = Append(queue, fresh)
    BY <2>1, <2>2, <2>4 DEF Contract!Submit
  <2> QED BY <1>11, <2>3, <2>4 DEF SeqLoopItem
<1>12. CASE SeqSuccess
  BY <1>12, <1>b, <1>c, <1>d DEF SeqSuccess, Goto, InHand
<1>13. CASE SeqStopAndWait
  BY <1>13, <1>b, <1>c, <1>d DEF SeqStopAndWait, SelfStop, Goto, InHand
<1>14. CASE SeqFinish
  BY <1>14, <1>b, <1>c, <1>d DEF SeqFinish, Goto, InHand
<1>15. CASE StartCheck
  BY <1>15, <1>b, <1>c, <1>f DEF StartCheck, Goto
<1>16. CASE StartEnter
  BY <1>16, <1>b, <1>c, <1>f DEF StartEnter, Goto, Contract!Permit
<1>17. CASE StartCount
  BY <1>17, <1>b, <1>c, <1>f DEF StartCount, Goto
<1>18. CASE StartCall
  BY <1>18, <1>b, <1>c, <1>f DEF StartCall, Serving, Goto
<1>19. CASE StopCall
  BY <1>19, <1>e DEF StopCall, Serving, RequestStop
<1>20. CASE StopCancel
  BY <1>20, <1>e DEF StopCancel, Serving
<1>21. CASE Close
  BY <1>21, <1>e DEF Close, Serving
<1>22. CASE DbFail
  BY <1>22, <1>e DEF DbFail
<1>23. CASE DbRecover
  BY <1>23, <1>e DEF DbRecover
<1>24. CASE ExperimentChanges
  BY <1>24, <1>e DEF ExperimentChanges
<1>25. CASE Restart
  <2>1. pc'[Loop] = "check"
    BY <1>25, <1>b DEF Restart
  <2>2. Current' = None /\ ~permitted'
    BY <1>25, <2>1 DEF Restart, Current, InHand
  <2> QED BY <1>25, <2>2 DEF Restart, Contract!Crash
<1>26. CASE \E t \in Threads : FlushRead(t)
  <2> PICK t \in Threads : FlushRead(t)
    BY <1>26
  <2>1. UNCHANGED <<queue, history, authority, item, exit>>
    BY DEF FlushRead
  <2>2. pc[t] = "flush" /\ pc' = [pc EXCEPT ![t] = Flushed(t)]
    BY DEF FlushRead, Undisturbed, Goto
  <2>3. CASE t = Http
    BY <1>b, <1>c, <1>f, <2>1, <2>2, <2>3
  <2>4. CASE t = Loop
    <3>1. pc'[Loop] = "record"
      BY <1>b, <1>c, <2>2, <2>4 DEF Flushed
    <3>2. Current' = Current
      BY <2>1, <2>2, <2>4, <3>1 DEF Current, InHand
    <3> QED BY <2>1, <2>2, <2>4, <3>1, <3>2
  <2> QED BY <2>3, <2>4 DEF Threads
<1>27. CASE \E t \in Threads : FlushAppend(t)
  BY <1>27 DEF FlushAppend, Undisturbed
<1>28. CASE \E t \in Threads : FlushDrop(t)
  BY <1>28 DEF FlushDrop, Undisturbed
<1>29. CASE \E i \in Items : AddItem(i)
  BY <1>29, <1>e DEF AddItem, Contract!Submit
<1>30. CASE \E i \in Items : RemoveItem(i)
  BY <1>30, <1>e DEF RemoveItem, Contract!Withdraw, RemoveAt, Contract!RemoveAt
<1>31. CASE \E i \in Items : ExecuteNow(i)
  BY <1>31, <1>b, <1>c, <1>f DEF ExecuteNow, Goto, Contract!Submit
<1>32. CASE \E b \in BOOLEAN : SetAutostart(b)
  BY <1>32, <1>e DEF SetAutostart, Serving, Contract!Permit
<1>33. CASE \E b \in BOOLEAN : SetLoopMode(b)
  BY <1>33, <1>e DEF SetLoopMode, Serving
<1>34. CASE \E e \in Exits : PlanEnds(e)
  <2> PICK e \in Exits : PlanEnds(e)
    BY <1>34
  <2>1. Current = [item |-> item, state |-> None] /\ Current # None
    BY CurrentType DEF PlanEnds
  <2>2. UNCHANGED <<queue, history, item>> /\ exit' = e
    BY DEF PlanEnds
  <2>3. pc'[Loop] = "flush"
    BY <1>b, <1>c DEF PlanEnds, Goto
  <2>4. Current' = [item |-> item, state |-> ExitState(e)]
    BY <2>2, <2>3 DEF Current, InHand
  <2>5. ExitState(e) \in States /\ (ExitState(e) = "completed" <=> e = "success")
    BY DEF ExitState, States
  <2>6. permitted' <=> permitted /\ ExitState(e) = "completed"
    BY <2>3, <2>5 DEF PlanEnds, MustStop
  <2>7. Contract!End(ExitState(e))
    BY <2>1, <2>2, <2>4, <2>6 DEF Contract!End
  <2> QED BY <2>5, <2>7
<1>35. CASE UNCHANGED vars
  BY <1>35, <1>e
<1>36. CASE SeqExits
  <2>1. pc'[Loop] = "dead" /\ UNCHANGED <<queue, history>>
    BY <1>36, <1>b, <1>c DEF SeqExits, Goto
  <2>2. Current' = None
    BY <2>1 DEF Current, InHand
  <2> QED BY <2>1, <2>2 DEF Contract!Crash
<1> QED
  BY <1>1, <1>2, <1>3, <1>4, <1>5, <1>6, <1>7, <1>8, <1>9, <1>10, <1>11, <1>12, <1>13, <1>14, <1>15, <1>16, <1>17, <1>18, <1>19, <1>20, <1>21, <1>22, <1>23, <1>24, <1>25, <1>26, <1>27, <1>28, <1>29, <1>30, <1>31, <1>32, <1>33, <1>34, <1>35, <1>36
     DEF Next, SeqStep, HttpStep, HttpRequest, PlanStep, Environment, Threads

\* The loop keeps the contract of the queue as long as the database answers:
\* items are taken from the front while the queue is permitted to run, one at a
\* time, each is written before the next is taken, one that does not complete
\* takes the permission away, and a restart loses only the item being run.
THEOREM KeepsTheContract == MaxOutages = 0 => (Spec => ImplementsContract)
<1>1. Init => Contract!Init
  <2> SUFFICES ASSUME Init PROVE Contract!Init
    OBVIOUS
  <2>1. pc[Loop] = "check"
    BY DEF Init, Threads
  <2>2. Current = None
    BY <2>1 DEF Current, InHand
  <2> QED BY <2>2 DEF Init, Contract!Init
<1>2. MaxOutages = 0 /\ Init => Undisturbed
  BY DEF Init, Undisturbed, Threads, Loop, Http
<1>3. MaxOutages = 0 /\ TypeOK /\ Undisturbed /\ [Next]_vars => Undisturbed'
  BY UndisturbedStep
<1>4. TypeOK /\ TypeOK' /\ SafetyInv /\ Undisturbed /\ [Next]_vars
        => [Contract!Next]_(Contract!vars)
  BY ContractStep
<1>5. ASSUME MaxOutages = 0 PROVE Spec => ImplementsContract
  <2>1. Init => Undisturbed
    BY <1>2, <1>5
  <2>2. TypeOK /\ Undisturbed /\ [Next]_vars => Undisturbed'
    BY <1>3, <1>5
  <2> QED BY <1>1, <2>1, <2>2, <1>4, TypeCorrect, SafetyInvariant, PTL
          DEF Spec, ImplementsContract, Contract!Spec
<1> QED BY <1>5

\* An item that is popped comes last in both sequences.
LEMMA OrderAtBack ==
    ASSUME NEW S, NEW s \in Seq(S), NEW t \in Seq(S), NEW x \in S,
           InOrderOf(s, t), ToSet(s) \subseteq ToSet(t)
    PROVE  InOrderOf(Append(s, x), Append(t, x))
<1>1. /\ DOMAIN s = 1..Len(s) /\ Len(s) \in Nat
      /\ DOMAIN t = 1..Len(t) /\ Len(t) \in Nat
  OBVIOUS
<1>2. /\ DOMAIN Append(s, x) = 1..(Len(s) + 1)
      /\ \A k \in 1..Len(s) : Append(s, x)[k] = s[k]
      /\ Append(s, x)[Len(s) + 1] = x
  BY AppendProperties
<1>3. /\ DOMAIN Append(t, x) = 1..(Len(t) + 1)
      /\ \A k \in 1..Len(t) : Append(t, x)[k] = t[k]
      /\ Append(t, x)[Len(t) + 1] = x
  BY AppendProperties
<1> SUFFICES ASSUME NEW j \in DOMAIN Append(s, x), NEW k \in DOMAIN Append(s, x), j < k
             PROVE  \E a, b \in DOMAIN Append(t, x) :
                       a < b /\ Append(t, x)[a] = Append(s, x)[j]
                             /\ Append(t, x)[b] = Append(s, x)[k]
  BY Zenon DEF InOrderOf
<1>4. j \in 1..Len(s) /\ Append(s, x)[j] = s[j]
  BY <1>1, <1>2
<1>5. CASE k \in 1..Len(s)
  <2> PICK a \in 1..Len(t), b \in 1..Len(t) : a < b /\ t[a] = s[j] /\ t[b] = s[k]
    BY <1>1, <1>4, <1>5 DEF InOrderOf
  <2>1. /\ a \in 1..(Len(t) + 1) /\ Append(t, x)[a] = Append(s, x)[j]
        /\ b \in 1..(Len(t) + 1) /\ Append(t, x)[b] = Append(s, x)[k]
    BY <1>1, <1>2, <1>3, <1>4, <1>5
  <2> QED BY <1>3, <2>1
<1>6. CASE k = Len(s) + 1
  <2> PICK a \in 1..Len(t) : t[a] = s[j]
    BY <1>1, <1>4 DEF ToSet
  <2>1. /\ a \in 1..(Len(t) + 1) /\ Append(t, x)[a] = Append(s, x)[j]
        /\ a < Len(t) + 1 /\ Len(t) + 1 \in 1..(Len(t) + 1)
        /\ Append(t, x)[Len(t) + 1] = Append(s, x)[k]
    BY <1>1, <1>2, <1>3, <1>4, <1>6
  <2> QED BY <1>3, <2>1
<1> QED BY <1>1, <1>2, <1>5, <1>6

\* Unless the threads overlap, each drops the entry that it wrote.
LEMMA ApartStep == TypeOK /\ FlushesApart /\ [Next]_vars => FlushesApart'
<1> SUFFICES ASSUME TypeOK, FlushesApart, [Next]_vars PROVE FlushesApart'
  OBVIOUS
<1>a. pc[Loop] \in SeqPCs /\ pc = [t \in Threads |-> pc[t]] /\ read = [t \in Threads |-> read[t]]
  BY DEF TypeOK, ControlOK
<1>b. Loop = "seq" /\ Http = "http" /\ Threads = {"seq", "http"}
  BY DEF Loop, Http, Threads
\* A step that touches neither the entries nor what the threads hold.
<1>c. /\ UNCHANGED <<pendingHistory, read, overlapped>>
      /\ \A t \in Threads : Flushing(t)' => pc'[t] = pc[t]
      => FlushesApart'
  BY <1>b DEF FlushesApart, Flushing
<1> USE DEF vars, dbVars, flagVars, modeVars, planVars, flushVars, heldVars, envVars, itemVars, auxVars, OnlyPc
<1>1. CASE SeqStopAsRequested
  BY <1>1, <1>a, <1>b, <1>c DEF SeqStopAsRequested, SelfStop, StopRequested, Flushing
<1>2. CASE SeqAutostart
  BY <1>2, <1>a, <1>b, <1>c DEF SeqAutostart, AutostartDue, Goto, Flushing
<1>3. CASE SeqGo
  BY <1>3, <1>a, <1>b, <1>c DEF SeqGo, StopRequested, Goto, Flushing
<1>4. CASE SeqDieChecking
  BY <1>4, <1>a, <1>b, <1>c DEF SeqDieChecking, Goto, Flushing
<1>5. CASE SeqClose
  BY <1>5, <1>a, <1>b, <1>c DEF SeqClose, Goto, Flushing
<1>6. CASE SeqPop
  BY <1>6, <1>a, <1>b, <1>c DEF SeqPop, AfterPop, Goto, Flushing
<1>7. CASE SeqEmpty
  BY <1>7, <1>a, <1>b, <1>c DEF SeqEmpty, SelfStop, Goto, Flushing
<1>8. CASE SeqTake
  BY <1>8, <1>a, <1>b, <1>c DEF SeqTake, MustStop, Goto, Flushing
<1>9. CASE SeqRecord
  <2>1. CASE dbUp
    BY <1>9, <2>1, <1>a, <1>b, <1>c DEF SeqRecord, Goto, Flushing
  <2>2. CASE ~dbUp
    <3>1. /\ pendingHistory' = Append(pendingHistory, Entry(item, exit))
          /\ UNCHANGED <<read, overlapped>>
      BY <1>9, <2>2 DEF SeqRecord
    <3>2. pc'[Loop] = "hold" /\ pc'[Http] = pc[Http] /\ pc[Loop] = "record"
      BY <1>9, <2>2, <1>a, <1>b DEF SeqRecord, Goto
    <3>3. item \in Items /\ pendingHistory \in Seq(Entries)
      BY <1>9 DEF SeqRecord, TypeOK, ControlOK, DataOK
    <3>4. /\ pendingHistory' # <<>>
          /\ pendingHistory # <<>> => Head(pendingHistory') = Head(pendingHistory)
      BY <3>1, <3>3, EntryType, AppendProperties, HeadTailAppend
    <3> QED BY <1>b, <3>1, <3>2, <3>4 DEF FlushesApart, Flushing
  <2> QED BY <2>1, <2>2
<1>10. CASE SeqHold
  BY <1>10, <1>a, <1>b, <1>c DEF SeqHold, Goto, Flushing
<1>11. CASE SeqLoopItem
  BY <1>11, <1>a, <1>b, <1>c DEF SeqLoopItem, Goto, Flushing
<1>12. CASE SeqSuccess
  BY <1>12, <1>a, <1>b, <1>c DEF SeqSuccess, Goto, Flushing
<1>13. CASE SeqStopAndWait
  BY <1>13, <1>a, <1>b, <1>c DEF SeqStopAndWait, SelfStop, Goto, Flushing
<1>14. CASE SeqFinish
  BY <1>14, <1>a, <1>b, <1>c DEF SeqFinish, Goto, Flushing
<1>15. CASE StartCheck
  BY <1>15, <1>a, <1>b, <1>c DEF StartCheck, Goto, Flushing
<1>16. CASE StartEnter
  BY <1>16, <1>a, <1>b, <1>c DEF StartEnter, Goto, Flushing
<1>17. CASE StartCount
  BY <1>17, <1>a, <1>b, <1>c DEF StartCount, Goto, Flushing
<1>18. CASE StartCall
  BY <1>18, <1>a, <1>b, <1>c DEF StartCall, Serving, Goto, Flushing
<1>19. CASE StopCall
  BY <1>19, <1>a, <1>b, <1>c DEF StopCall, Serving, RequestStop, Flushing
<1>20. CASE StopCancel
  BY <1>20, <1>a, <1>b, <1>c DEF StopCancel, Serving, Flushing
<1>21. CASE Close
  BY <1>21, <1>a, <1>b, <1>c DEF Close, Serving, Flushing
<1>22. CASE DbFail
  BY <1>22, <1>a, <1>b, <1>c DEF DbFail, Flushing
<1>23. CASE DbRecover
  BY <1>23, <1>a, <1>b, <1>c DEF DbRecover, Flushing
<1>24. CASE ExperimentChanges
  BY <1>24, <1>a, <1>b, <1>c DEF ExperimentChanges, Flushing
<1>25. CASE Restart
  BY <1>25, <1>b DEF Restart, FlushesApart, Flushing
<1>26. CASE \E t \in Threads : FlushRead(t)
  <2> PICK t \in Threads : FlushRead(t)
    BY <1>26
  <2>1. CASE pendingHistory = <<>>
    BY <2>1, <1>a, <1>b, <1>c DEF FlushRead, Flushed, Goto, Flushing
  <2>2. CASE pendingHistory # <<>>
    <3>1. /\ pc' = [pc EXCEPT ![t] = "append"] /\ UNCHANGED pendingHistory
          /\ read' = [read EXCEPT ![t] = Head(pendingHistory)]
          /\ overlapped' = (overlapped \/ \E other \in Threads \ {t} : Flushing(other))
      BY <2>2 DEF FlushRead, Goto
    <3>2. ~overlapped' => ~overlapped /\ \A other \in Threads \ {t} : ~Flushing(other)
      BY <3>1
    <3> QED BY <2>2, <3>1, <3>2, <1>a, <1>b DEF FlushesApart, Flushing
  <2> QED BY <2>1, <2>2
<1>27. CASE \E t \in Threads : FlushAppend(t)
  <2> PICK t \in Threads : FlushAppend(t)
    BY <1>27
  <2>1. /\ pc[t] = "append" /\ UNCHANGED <<pendingHistory, overlapped>>
        /\ read' = [read EXCEPT ![t] = None]
        /\ pc' = [pc EXCEPT ![t] = "drop"] \/ pc' = [pc EXCEPT ![t] = FlushFailed(t)]
    BY DEF FlushAppend, Goto
  <2>2. FlushFailed(t) \in {"record", "idle"}
    BY DEF FlushFailed
  <2> QED BY <2>1, <2>2, <1>a, <1>b DEF FlushesApart, Flushing
<1>28. CASE \E t \in Threads : FlushDrop(t)
  <2> PICK t \in Threads : FlushDrop(t)
    BY <1>28
  <2>1. pc[t] = "drop" /\ UNCHANGED <<read, overlapped>>
    BY DEF FlushDrop
  <2>2. pc' = [pc EXCEPT ![t] = "flush"] \/ pc' = [pc EXCEPT ![t] = FlushRaised(t)]
    BY DEF FlushDrop, Goto
  <2>3. FlushRaised(t) \in {"dead", "idle"}
    BY DEF FlushRaised
  <2> QED BY <2>1, <2>2, <2>3, <1>a, <1>b DEF FlushesApart, Flushing
<1>29. CASE \E i \in Items : AddItem(i)
  BY <1>29, <1>a, <1>b, <1>c DEF AddItem, Serving, Flushing
<1>30. CASE \E i \in Items : RemoveItem(i)
  BY <1>30, <1>a, <1>b, <1>c DEF RemoveItem, Serving, Flushing
<1>31. CASE \E i \in Items : ExecuteNow(i)
  BY <1>31, <1>a, <1>b, <1>c DEF ExecuteNow, Serving, Goto, Flushing
<1>32. CASE \E b \in BOOLEAN : SetAutostart(b)
  BY <1>32, <1>a, <1>b, <1>c DEF SetAutostart, Serving, Flushing
<1>33. CASE \E b \in BOOLEAN : SetLoopMode(b)
  BY <1>33, <1>a, <1>b, <1>c DEF SetLoopMode, Serving, Flushing
<1>34. CASE \E e \in Exits : PlanEnds(e)
  BY <1>34, <1>a, <1>b, <1>c DEF PlanEnds, MustStop, Goto, Flushing
<1>36. CASE SeqExits
  BY <1>36, <1>a, <1>b, <1>c DEF SeqExits, Goto, Flushing
<1>35. CASE UNCHANGED vars
  BY <1>35, <1>c DEF Flushing
<1> QED
  BY <1>1, <1>2, <1>3, <1>4, <1>5, <1>6, <1>7, <1>8, <1>9, <1>10, <1>11, <1>12, <1>13, <1>14, <1>15, <1>16, <1>17, <1>18, <1>19, <1>20, <1>21, <1>22, <1>23, <1>24, <1>25, <1>26, <1>27, <1>28, <1>29, <1>30, <1>31, <1>32, <1>33, <1>34, <1>35, <1>36
     DEF Next, SeqStep, HttpStep, HttpRequest, PlanStep, Environment, Threads

\* In the first outage nothing new is popped while an entry is held, and later
\* the database does not fail again.
LEMMA HeldStep ==
    TypeOK /\ HeldSinceTheOutage /\ [Next]_vars => HeldSinceTheOutage'
<1> SUFFICES ASSUME TypeOK, HeldSinceTheOutage, [Next]_vars PROVE HeldSinceTheOutage'
  OBVIOUS
<1>a. /\ pc[Loop] \in SeqPCs /\ pc = [t \in Threads |-> pc[t]]
      /\ outages \in Nat /\ pendingHistory \in Seq(Entries)
  BY DEF TypeOK, ControlOK, DataOK
<1>b. Loop = "seq" /\ Http = "http" /\ Threads = {"seq", "http"}
  BY DEF Loop, Http, Threads
\* A step that leaves the database and the entries alone and takes no item.
<1>c. /\ UNCHANGED <<pendingHistory, dbUp, outages>>
      /\ (InHand)' # {} => InHand # {}
      /\ pc'[Loop] = "record" => pc[Loop] = "record"
      => HeldSinceTheOutage'
  BY DEF HeldSinceTheOutage
<1> USE DEF vars, dbVars, flagVars, modeVars, planVars, flushVars, heldVars, envVars, itemVars, auxVars, OnlyPc
<1>1. CASE SeqStopAsRequested
  BY <1>1, <1>a, <1>b, <1>c DEF SeqStopAsRequested, SelfStop, StopRequested, InHand
<1>2. CASE SeqAutostart
  BY <1>2, <1>a, <1>b, <1>c DEF SeqAutostart, AutostartDue, Goto, InHand
<1>3. CASE SeqGo
  BY <1>3, <1>a, <1>b, <1>c DEF SeqGo, StopRequested, Goto, InHand
<1>4. CASE SeqDieChecking
  BY <1>4, <1>a, <1>b, <1>c DEF SeqDieChecking, Goto, InHand
<1>5. CASE SeqClose
  BY <1>5, <1>a, <1>b, <1>c DEF SeqClose, Goto, InHand
<1>6. CASE SeqPop
  BY <1>6, <1>a, <1>b DEF SeqPop, Goto, InHand, HeldSinceTheOutage
<1>7. CASE SeqEmpty
  BY <1>7, <1>a, <1>b, <1>c DEF SeqEmpty, SelfStop, Goto, InHand
<1>8. CASE SeqTake
  BY <1>8, <1>a, <1>b, <1>c DEF SeqTake, MustStop, Goto, InHand
<1>9. CASE SeqRecord
  BY <1>9, <1>a, <1>b DEF SeqRecord, Goto, InHand, HeldSinceTheOutage
<1>10. CASE SeqHold
  BY <1>10, <1>a, <1>b, <1>c DEF SeqHold, Goto, InHand
<1>11. CASE SeqLoopItem
  BY <1>11, <1>a, <1>b, <1>c DEF SeqLoopItem, Goto, InHand
<1>12. CASE SeqSuccess
  BY <1>12, <1>a, <1>b, <1>c DEF SeqSuccess, Goto, InHand
<1>13. CASE SeqStopAndWait
  BY <1>13, <1>a, <1>b, <1>c DEF SeqStopAndWait, SelfStop, Goto, InHand
<1>14. CASE SeqFinish
  BY <1>14, <1>a, <1>b, <1>c DEF SeqFinish, Goto, InHand
<1>15. CASE StartCheck
  BY <1>15, <1>a, <1>b, <1>c DEF StartCheck, Goto, InHand
<1>16. CASE StartEnter
  BY <1>16, <1>a, <1>b, <1>c DEF StartEnter, Goto, InHand
<1>17. CASE StartCount
  BY <1>17, <1>a, <1>b, <1>c DEF StartCount, Goto, InHand
<1>18. CASE StartCall
  BY <1>18, <1>a, <1>b, <1>c DEF StartCall, Serving, Goto, InHand
<1>19. CASE StopCall
  BY <1>19, <1>a, <1>b, <1>c DEF StopCall, Serving, RequestStop, InHand
<1>20. CASE StopCancel
  BY <1>20, <1>a, <1>b, <1>c DEF StopCancel, Serving, InHand
<1>21. CASE Close
  BY <1>21, <1>a, <1>b, <1>c DEF Close, Serving, InHand
<1>22. CASE DbFail
  BY <1>22, <1>a DEF DbFail, InHand, HeldSinceTheOutage
<1>23. CASE DbRecover
  BY <1>23, <1>a DEF DbRecover, InHand, HeldSinceTheOutage
<1>24. CASE ExperimentChanges
  BY <1>24, <1>a, <1>b, <1>c DEF ExperimentChanges, InHand
<1>25. CASE Restart
  BY <1>25 DEF Restart, HeldSinceTheOutage
<1>26. CASE \E t \in Threads : FlushRead(t)
  <2> PICK t \in Threads : FlushRead(t)
    BY <1>26
  <2>1. pc[t] = "flush" /\ UNCHANGED <<pendingHistory, dbUp, outages, item>>
    BY DEF FlushRead
  <2>2. CASE pendingHistory = <<>>
    BY <2>1, <2>2 DEF HeldSinceTheOutage
  <2>3. CASE pendingHistory # <<>>
    <3>1. pc' = [pc EXCEPT ![t] = "append"]
      BY <2>3 DEF FlushRead, Goto
    <3> QED BY <2>1, <3>1, <1>a, <1>b, <1>c DEF InHand
  <2> QED BY <2>2, <2>3
<1>27. CASE \E t \in Threads : FlushAppend(t)
  <2> PICK t \in Threads : FlushAppend(t)
    BY <1>27
  <2>1. pc[t] = "append" /\ UNCHANGED <<pendingHistory, dbUp, outages, item>>
    BY DEF FlushAppend
  <2>2. CASE dbUp
    <3>1. pc' = [pc EXCEPT ![t] = "drop"]
      BY <2>2 DEF FlushAppend, Goto
    <3> QED BY <2>1, <3>1, <1>a, <1>b, <1>c DEF InHand
  <2>3. CASE ~dbUp
    <3>1. pc' = [pc EXCEPT ![t] = FlushFailed(t)]
      BY <2>3 DEF FlushAppend, Goto
    <3>2. CASE t = Http
      BY <2>1, <3>1, <3>2, <1>a, <1>b, <1>c DEF InHand
    <3>3. CASE t = Loop
      <4>1. InHand # {}
        BY <2>1, <3>3 DEF InHand
      <4> QED BY <2>1, <2>3, <4>1, <1>a DEF HeldSinceTheOutage
    <3> QED BY <3>2, <3>3 DEF Threads
  <2> QED BY <2>2, <2>3
<1>28. CASE \E t \in Threads : FlushDrop(t)
  <2> PICK t \in Threads : FlushDrop(t)
    BY <1>28
  <2>1. pc[t] = "drop" /\ UNCHANGED <<dbUp, outages, item>>
    BY DEF FlushDrop
  <2>2. pendingHistory' # <<>> => pendingHistory # <<>>
    BY DEF FlushDrop
  <2>3. pc' = [pc EXCEPT ![t] = "flush"] \/ pc' = [pc EXCEPT ![t] = FlushRaised(t)]
    BY DEF FlushDrop, Goto
  <2>4. FlushRaised(t) \in {"dead", "idle"} /\ (t = Loop => FlushRaised(t) = "dead")
    BY <1>b DEF FlushRaised
  <2> QED BY <2>1, <2>2, <2>3, <2>4, <1>a, <1>b DEF HeldSinceTheOutage, InHand
<1>29. CASE \E i \in Items : AddItem(i)
  BY <1>29, <1>a, <1>b, <1>c DEF AddItem, Serving, InHand
<1>30. CASE \E i \in Items : RemoveItem(i)
  BY <1>30, <1>a, <1>b, <1>c DEF RemoveItem, Serving, InHand
<1>31. CASE \E i \in Items : ExecuteNow(i)
  BY <1>31, <1>a, <1>b, <1>c DEF ExecuteNow, Serving, Goto, InHand
<1>32. CASE \E b \in BOOLEAN : SetAutostart(b)
  BY <1>32, <1>a, <1>b, <1>c DEF SetAutostart, Serving, InHand
<1>33. CASE \E b \in BOOLEAN : SetLoopMode(b)
  BY <1>33, <1>a, <1>b, <1>c DEF SetLoopMode, Serving, InHand
<1>34. CASE \E e \in Exits : PlanEnds(e)
  BY <1>34, <1>a, <1>b, <1>c DEF PlanEnds, MustStop, Goto, InHand
<1>36. CASE SeqExits
  BY <1>36, <1>a, <1>b, <1>c DEF SeqExits, Goto, InHand
<1>35. CASE UNCHANGED vars
  BY <1>35, <1>c DEF InHand
<1> QED
  BY <1>1, <1>2, <1>3, <1>4, <1>5, <1>6, <1>7, <1>8, <1>9, <1>10, <1>11, <1>12, <1>13, <1>14, <1>15, <1>16, <1>17, <1>18, <1>19, <1>20, <1>21, <1>22, <1>23, <1>24, <1>25, <1>26, <1>27, <1>28, <1>29, <1>30, <1>31, <1>32, <1>33, <1>34, <1>35, <1>36
     DEF Next, SeqStep, HttpStep, HttpRequest, PlanStep, Environment, Threads

\* Without what is at its end a sequence is still in order.
LEMMA WithoutEnd ==
    ASSUME NEW S, NEW s \in Seq(S), NEW r \in Seq(S), NEW t, InOrderOf(s \o r, t)
    PROVE  InOrderOf(s, t)
<1>1. DOMAIN s = 1..Len(s) /\ Len(s) \in Nat /\ Len(r) \in Nat
  OBVIOUS
<1>2. /\ s \o r \in Seq(S) /\ Len(s \o r) = Len(s) + Len(r)
      /\ \A k \in 1..(Len(s) + Len(r)) :
            (s \o r)[k] = IF k <= Len(s) THEN s[k] ELSE r[k - Len(s)]
  BY ConcatProperties
<1>3. DOMAIN (s \o r) = 1..(Len(s) + Len(r)) /\ \A k \in 1..Len(s) : (s \o r)[k] = s[k]
  BY <1>1, <1>2
<1> SUFFICES ASSUME NEW j \in 1..Len(s), NEW k \in 1..Len(s), j < k
             PROVE  \E a, b \in DOMAIN t : a < b /\ t[a] = s[j] /\ t[b] = s[k]
  BY <1>1 DEF InOrderOf
<1>4. /\ j \in DOMAIN (s \o r) /\ (s \o r)[j] = s[j]
      /\ k \in DOMAIN (s \o r) /\ (s \o r)[k] = s[k]
  BY <1>1, <1>3
<1> QED BY <1>4 DEF InOrderOf

\* What two sequences hold together, and when each thing is there once.
LEMMA ConcatDistinct ==
    ASSUME NEW S, NEW s \in Seq(S), NEW r \in Seq(S)
    PROVE  /\ ToSet(s \o r) = ToSet(s) \cup ToSet(r)
           /\ IsInjective(s \o r)
                 <=> IsInjective(s) /\ IsInjective(r) /\ ToSet(s) \cap ToSet(r) = {}
<1> DEFINE c == s \o r
<1>1. /\ DOMAIN s = 1..Len(s) /\ Len(s) \in Nat
      /\ DOMAIN r = 1..Len(r) /\ Len(r) \in Nat
  OBVIOUS
<1>2. /\ c \in Seq(S) /\ Len(c) = Len(s) + Len(r)
      /\ \A k \in 1..(Len(s) + Len(r)) :
            c[k] = IF k <= Len(s) THEN s[k] ELSE r[k - Len(s)]
  BY ConcatProperties
<1> HIDE DEF c
<1>3. /\ DOMAIN c = 1..(Len(s) + Len(r))
      /\ \A k \in 1..Len(s) : k \in 1..(Len(s) + Len(r)) /\ c[k] = s[k]
  BY <1>1, <1>2
<1>4. \A k \in 1..Len(r) :
         Len(s) + k \in 1..(Len(s) + Len(r)) /\ c[Len(s) + k] = r[k]
  <2> TAKE k \in 1..Len(r)
  <2>1. /\ Len(s) + k \in 1..(Len(s) + Len(r)) /\ ~(Len(s) + k <= Len(s))
        /\ Len(s) + k - Len(s) = k
    BY <1>1
  <2> QED BY <1>2, <2>1
<1>5. \A k \in 1..(Len(s) + Len(r)) :
         \/ k \in 1..Len(s) /\ c[k] = s[k]
         \/ \E j \in 1..Len(r) : k = Len(s) + j /\ c[k] = r[j]
  <2> TAKE k \in 1..(Len(s) + Len(r))
  <2>1. CASE k <= Len(s)
    BY <1>1, <1>3, <2>1
  <2>2. CASE ~(k <= Len(s))
    <3>1. k - Len(s) \in 1..Len(r) /\ k = Len(s) + (k - Len(s))
      BY <1>1, <2>2
    <3> QED BY <1>2, <2>2, <3>1
  <2> QED BY <2>1, <2>2
<1>6. ToSet(c) = ToSet(s) \cup ToSet(r)
  <2>1. ToSet(c) \subseteq ToSet(s) \cup ToSet(r)
    BY <1>1, <1>3, <1>5 DEF ToSet
  <2>2. ToSet(s) \subseteq ToSet(c)
    BY <1>1, <1>3 DEF ToSet
  <2>3. ToSet(r) \subseteq ToSet(c)
    BY <1>1, <1>3, <1>4 DEF ToSet
  <2> QED BY <2>1, <2>2, <2>3
<1>7. ASSUME IsInjective(c)
      PROVE  IsInjective(s) /\ IsInjective(r) /\ ToSet(s) \cap ToSet(r) = {}
  <2>1. IsInjective(s)
    BY <1>1, <1>3, <1>7 DEF IsInjective
  <2>2. IsInjective(r)
    <3> SUFFICES ASSUME NEW j \in 1..Len(r), NEW k \in 1..Len(r), r[j] = r[k]
                 PROVE  j = k
      BY <1>1 DEF IsInjective
    <3>1. Len(s) + j = Len(s) + k
      BY <1>3, <1>4, <1>7 DEF IsInjective
    <3> QED BY <1>1, <3>1
  <2>3. ASSUME NEW j \in 1..Len(s), NEW k \in 1..Len(r), s[j] = r[k] PROVE FALSE
    <3>1. c[j] = c[Len(s) + k] /\ j \in DOMAIN c /\ Len(s) + k \in DOMAIN c
      BY <1>3, <1>4, <2>3
    <3>2. j = Len(s) + k
      BY <1>7, <3>1 DEF IsInjective
    <3> QED BY <1>1, <3>2
  <2> QED BY <1>1, <2>1, <2>2, <2>3 DEF ToSet
<1>8. ASSUME IsInjective(s), IsInjective(r), ToSet(s) \cap ToSet(r) = {}
      PROVE  IsInjective(c)
  <2>1. \A j \in 1..Len(s), k \in 1..Len(r) : s[j] # r[k]
    BY <1>1, <1>8 DEF ToSet
  <2> SUFFICES ASSUME NEW j \in 1..(Len(s) + Len(r)), NEW k \in 1..(Len(s) + Len(r)),
                      c[j] = c[k]
               PROVE  j = k
    BY <1>3 DEF IsInjective
  <2>2. CASE j \in 1..Len(s) /\ c[j] = s[j]
    <3>1. k \in 1..Len(s) /\ c[k] = s[k]
      BY <1>5, <2>1, <2>2
    <3> QED BY <1>1, <1>8, <2>2, <3>1 DEF IsInjective
  <2>3. CASE \E i \in 1..Len(r) : j = Len(s) + i /\ c[j] = r[i]
    <3> PICK i \in 1..Len(r) : j = Len(s) + i /\ c[j] = r[i]
      BY <2>3
    <3>1. \E n \in 1..Len(r) : k = Len(s) + n /\ c[k] = r[n]
      BY <1>5, <2>1
    <3> PICK n \in 1..Len(r) : k = Len(s) + n /\ c[k] = r[n]
      BY <3>1
    <3>2. i = n
      BY <1>1, <1>8 DEF IsInjective
    <3> QED BY <3>2
  <2> QED BY <1>5, <2>2, <2>3
<1> QED BY <1>6, <1>7, <1>8 DEF c

\* One thing alone.
LEMMA SingleDistinct ==
    ASSUME NEW S, NEW x \in S
    PROVE  <<x>> \in Seq(S) /\ IsInjective(<<x>>) /\ ToSet(<<x>>) = {x}
<1>1. <<x>> \in Seq(S) /\ DOMAIN <<x>> = 1..1 /\ <<x>>[1] = x
  OBVIOUS
<1> QED BY <1>1 DEF IsInjective, ToSet

\* Once the flushes have overlapped, that remains so.
LEMMA OverlapStays == [Next]_vars /\ ~overlapped' => ~overlapped
<1> SUFFICES ASSUME [Next]_vars, ~overlapped' PROVE ~overlapped
  OBVIOUS
<1> USE DEF vars, planVars, flushVars, heldVars, OnlyPc
<1>1. CASE SeqStopAsRequested
  BY <1>1, Zenon DEF SeqStopAsRequested
<1>2. CASE SeqAutostart
  BY <1>2, Zenon DEF SeqAutostart
<1>3. CASE SeqGo
  BY <1>3, Zenon DEF SeqGo
<1>4. CASE SeqDieChecking
  BY <1>4, Zenon DEF SeqDieChecking
<1>5. CASE SeqClose
  BY <1>5, Zenon DEF SeqClose
<1>6. CASE SeqPop
  BY <1>6, Zenon DEF SeqPop
<1>7. CASE SeqEmpty
  BY <1>7, Zenon DEF SeqEmpty
<1>8. CASE SeqTake
  BY <1>8, Zenon DEF SeqTake
<1>9. CASE SeqRecord
  BY <1>9, Zenon DEF SeqRecord
<1>10. CASE SeqHold
  BY <1>10, Zenon DEF SeqHold
<1>11. CASE SeqLoopItem
  BY <1>11, Zenon DEF SeqLoopItem
<1>12. CASE SeqSuccess
  BY <1>12, Zenon DEF SeqSuccess
<1>13. CASE SeqStopAndWait
  BY <1>13, Zenon DEF SeqStopAndWait
<1>14. CASE SeqFinish
  BY <1>14, Zenon DEF SeqFinish
<1>15. CASE StartCheck
  BY <1>15, Zenon DEF StartCheck
<1>16. CASE StartEnter
  BY <1>16, Zenon DEF StartEnter
<1>17. CASE StartCount
  BY <1>17, Zenon DEF StartCount
<1>18. CASE StartCall
  BY <1>18, Zenon DEF StartCall
<1>19. CASE StopCall
  BY <1>19, Zenon DEF StopCall
<1>20. CASE StopCancel
  BY <1>20, Zenon DEF StopCancel
<1>21. CASE Close
  BY <1>21, Zenon DEF Close
<1>22. CASE DbFail
  BY <1>22, Zenon DEF DbFail
<1>23. CASE DbRecover
  BY <1>23, Zenon DEF DbRecover
<1>24. CASE ExperimentChanges
  BY <1>24, Zenon DEF ExperimentChanges
<1>25. CASE Restart
  BY <1>25, Zenon DEF Restart
<1>26. CASE \E t \in Threads : FlushRead(t)
  <2> PICK t \in Threads : FlushRead(t)
    BY <1>26
  <2>1. \/ overlapped' = overlapped
        \/ overlapped' = (overlapped \/ \E other \in Threads \ {t} : Flushing(other))
    BY DEF FlushRead
  <2> QED BY <2>1, Zenon
<1>27. CASE \E t \in Threads : FlushAppend(t)
  BY <1>27 DEF FlushAppend
<1>28. CASE \E t \in Threads : FlushDrop(t)
  BY <1>28 DEF FlushDrop
<1>29. CASE \E i \in Items : AddItem(i)
  BY <1>29 DEF AddItem
<1>30. CASE \E i \in Items : RemoveItem(i)
  BY <1>30 DEF RemoveItem
<1>31. CASE \E i \in Items : ExecuteNow(i)
  BY <1>31 DEF ExecuteNow
<1>32. CASE \E b \in BOOLEAN : SetAutostart(b)
  BY <1>32 DEF SetAutostart
<1>33. CASE \E b \in BOOLEAN : SetLoopMode(b)
  BY <1>33 DEF SetLoopMode
<1>34. CASE \E e \in Exits : PlanEnds(e)
  BY <1>34 DEF PlanEnds
<1>36. CASE SeqExits
  BY <1>36, Zenon DEF SeqExits
<1>35. CASE UNCHANGED vars
  BY <1>35, Zenon
<1> QED
  BY <1>1, <1>2, <1>3, <1>4, <1>5, <1>6, <1>7, <1>8, <1>9, <1>10, <1>11, <1>12, <1>13, <1>14, <1>15, <1>16, <1>17, <1>18, <1>19, <1>20, <1>21, <1>22, <1>23, <1>24, <1>25, <1>26, <1>27, <1>28, <1>29, <1>30, <1>31, <1>32, <1>33, <1>34, <1>35, <1>36
     DEF Next, SeqStep, HttpStep, HttpRequest, PlanStep, Environment, Threads

\* The held entries and the item in hand change only with what they are made of.
LEMMA UnwrittenKept ==
    ASSUME UNCHANGED pendingHistory, (InHand)' = InHand, item' = item \/ InHand = {},
           (\E t \in Threads : pc'[t] = "drop") <=> \E t \in Threads : pc[t] = "drop"
    PROVE  Unwritten' = Unwritten
<1>1. HeldItems' = HeldItems
  BY DEF HeldItems, NotYetWritten, ItemsOf
<1>2. (Hand)' = Hand
  BY DEF Hand
<1> QED BY <1>1, <1>2 DEF Unwritten

\* What is appended to the first of two sequences may as well begin the second.
LEMMA MoveOver ==
    ASSUME NEW S, NEW h \in Seq(S), NEW b \in Seq(S), NEW x \in S
    PROVE  (h \o <<x>>) \o b = h \o (<<x>> \o b)
<1> DEFINE one == <<x>>
<1>1. one \in Seq(S)
  OBVIOUS
<1> HIDE DEF one
<1>2. (h \o one) \o b = h \o (one \o b)
  BY <1>1, ConcatAssociative
<1> QED BY <1>2 DEF one

\* The pop adds to what ran, a restart and exit() take from it, and every other
\* step only moves an outcome from the hand to the entries or the history.
LEMMA RunOrderStep ==
    /\ TypeOK /\ HandedOutOnce /\ FlushesApart /\ HeldSinceTheOutage
    /\ HistoryIsTheRunOrder /\ LostWasHanded /\ [Next]_vars
    => HistoryIsTheRunOrder' /\ LostWasHanded'
<1> DEFINE Complete ==
              /\ IsInjective(Ran)
              /\ ToSet(Ran) = ToSet(handed) \ lost
              /\ lost \subseteq ToSet(handed)
           Ordered == outages <= 1 => InOrderOf(Ran, handed)
<1> SUFFICES ASSUME TypeOK, HandedOutOnce, FlushesApart, HeldSinceTheOutage,
                    HistoryIsTheRunOrder, LostWasHanded, [Next]_vars, ~overlapped'
             PROVE  Complete' /\ Ordered'
  BY DEF HistoryIsTheRunOrder, LostWasHanded
<1>a. pc[Loop] \in SeqPCs /\ pc = [t \in Threads |-> pc[t]]
  BY DEF TypeOK, ControlOK
<1>b. Loop = "seq" /\ Http = "http" /\ Threads = {"seq", "http"}
  BY DEF Loop, Http, Threads
<1>0. ~overlapped /\ Complete /\ Ordered
  BY OverlapStays DEF HistoryIsTheRunOrder, LostWasHanded
<1>d. /\ HistoryItems \in Seq(Items) /\ HeldItems \in Seq(Items) /\ Hand \in Seq(Items)
      /\ Unwritten \in Seq(Items) /\ Ran \in Seq(Items)
      /\ handed \in Seq(Items) /\ queue \in Seq(Items)
      /\ history \in Seq(Entries) /\ pendingHistory \in Seq(Entries) /\ outages \in Nat
  BY RanType DEF TypeOK, DataOK
\* A step that leaves the history and what is in memory alone.
<1>c. ASSUME UNCHANGED <<history, handed, lost, Unwritten>>, outages' <= 1 => outages <= 1
      PROVE  Complete' /\ Ordered'
  <2>1. Ran' = Ran
    BY <1>c DEF Ran, HistoryItems, ItemsOf
  <2> QED BY <1>0, <1>c, <2>1
<1>e. ASSUME UNCHANGED <<history, handed, lost, outages, pendingHistory>>,
             (InHand)' = InHand, item' = item \/ InHand = {},
             pc'["seq"] = "drop" \/ pc'["http"] = "drop" <=> pc["seq"] = "drop" \/ pc["http"] = "drop"
      PROVE  Complete' /\ Ordered'
  <2>1. Unwritten' = Unwritten
    BY <1>b, <1>e, UnwrittenKept
  <2> QED BY <1>c, <1>e, <2>1
<1> HIDE DEF Complete, Ordered
<1> USE DEF vars, dbVars, flagVars, modeVars, planVars, flushVars, heldVars, envVars, itemVars, auxVars, OnlyPc
<1>1. CASE SeqStopAsRequested
  BY <1>1, <1>a, <1>b, <1>e DEF SeqStopAsRequested, SelfStop, StopRequested, InHand
<1>2. CASE SeqAutostart
  BY <1>2, <1>a, <1>b, <1>e DEF SeqAutostart, AutostartDue, Goto, InHand
<1>3. CASE SeqGo
  BY <1>3, <1>a, <1>b, <1>e DEF SeqGo, StopRequested, Goto, InHand
<1>4. CASE SeqDieChecking
  BY <1>4, <1>a, <1>b, <1>e DEF SeqDieChecking, Goto, InHand
<1>5. CASE SeqClose
  BY <1>5, <1>a, <1>b, <1>e DEF SeqClose, Goto, InHand
<1>6. CASE SeqPop
  <2>1. CASE dbUp /\ queue # <<>>
    <3> DEFINE i == Head(queue)
    <3>1. handed' = Append(handed, i) /\ UNCHANGED <<history, lost, pendingHistory, outages>>
      BY <1>6, <2>1 DEF SeqPop
    <3>2. /\ pc[Loop] = "pop" /\ pc'[Loop] = "take" /\ pc'[Http] = pc[Http]
          /\ item' = i
      BY <1>6, <2>1, <1>a, <1>b DEF SeqPop, Goto
    <3>3. i \in Items /\ i \in ToSet(queue) /\ i \notin ToSet(handed)
      <4>1. i \in Items /\ ToSet(queue) = ToSet(Tail(queue)) \cup {i}
        BY <1>d, <2>1, HeadTail, TailDistinct DEF HandedOutOnce
      <4> QED BY <4>1 DEF HandedOutOnce
    <3> HIDE DEF i
    <3>4. HeldItems' = HeldItems /\ HistoryItems' = HistoryItems
      <4>1. (\E t \in Threads : pc'[t] = "drop") <=> \E t \in Threads : pc[t] = "drop"
        BY <1>b, <3>2
      <4> QED BY <3>1, <4>1 DEF HeldItems, NotYetWritten, HistoryItems, ItemsOf
    <3>5. Hand = <<>> /\ (Hand)' = <<i>>
      BY <3>2 DEF Hand, InHand
    <3>6. Ran = HistoryItems \o HeldItems
      BY <1>d, <3>5, ConcatEmptySeq DEF Ran, Unwritten
    <3>7. Ran' = HistoryItems \o (HeldItems \o <<i>>)
      BY <3>4, <3>5 DEF Ran, Unwritten
    <3>8. Ran' = Append(Ran, i)
      <4>1. <<i>> \in Seq(Items)
        BY <3>3
      <4>2. HistoryItems \o (HeldItems \o <<i>>) = (HistoryItems \o HeldItems) \o <<i>>
        BY <1>d, <4>1, ConcatAssociative
      <4> QED BY <1>d, <3>3, <3>6, <3>7, <4>2, AppendIsConcat
    <3>9. i \notin ToSet(Ran) /\ i \notin lost
      BY <1>0, <3>3 DEF Complete
    <3>10. /\ IsInjective(Ran') /\ ToSet(Ran') = ToSet(Ran) \cup {i}
      BY <1>0, <1>d, <3>3, <3>8, <3>9, AppendDistinct DEF Complete
    <3>11. ToSet(handed') = ToSet(handed) \cup {i}
      BY <1>d, <3>1, <3>3, AppendDistinct DEF HandedOutOnce
    <3>12. Complete'
      BY <1>0, <3>1, <3>9, <3>10, <3>11 DEF Complete
    <3>13. Ordered'
      <4> SUFFICES ASSUME outages <= 1 PROVE InOrderOf(Ran', handed')
        BY <3>1 DEF Ordered
      <4>1. InOrderOf(Ran, handed) /\ ToSet(Ran) \subseteq ToSet(handed)
        BY <1>0 DEF Complete, Ordered
      <4> QED BY <1>d, <3>1, <3>3, <3>8, <4>1, OrderAtBack
    <3> QED BY <3>12, <3>13
  <2>2. CASE ~(dbUp /\ queue # <<>>)
    <3>1. UNCHANGED <<history, handed, lost, item, outages, pendingHistory>>
      BY <1>6, <2>2 DEF SeqPop
    <3>2. pc[Loop] = "pop" /\ pc'[Loop] \in {"empty", "dead"} /\ pc'[Http] = pc[Http]
      BY <1>6, <2>2, <1>a, <1>b DEF SeqPop, Goto
    <3> QED BY <1>b, <1>e, <3>1, <3>2 DEF InHand
  <2> QED BY <2>1, <2>2
<1>7. CASE SeqEmpty
  BY <1>7, <1>a, <1>b, <1>e DEF SeqEmpty, SelfStop, Goto, InHand
<1>8. CASE SeqTake
  BY <1>8, <1>a, <1>b, <1>e DEF SeqTake, MustStop, Goto, InHand
<1>9. CASE SeqRecord
  <2> DEFINE x == item
             e == Entry(item, exit)
  <2>1. x \in Items /\ e \in Entries /\ e.item = x /\ pc[Loop] = "record"
    BY <1>9, EntryType DEF SeqRecord, TypeOK, ControlOK, Entry
  <2>2. UNCHANGED <<handed, lost, outages>>
    BY <1>9 DEF SeqRecord
  <2>3. /\ <<x>> \in Seq(Items) /\ IsInjective(<<x>>) /\ ToSet(<<x>>) = {x}
        /\ Hand = <<x>> /\ Ran = HistoryItems \o (HeldItems \o <<x>>)
    BY <2>1, SingleDistinct DEF Hand, InHand, Ran, Unwritten
  <2>4. CASE dbUp
    <3>1. history' = Append(history, e) /\ UNCHANGED pendingHistory
      BY <1>9, <2>4 DEF SeqRecord
    <3>2. pc'[Loop] = "settle" /\ pc'[Http] = pc[Http]
      BY <1>9, <2>4, <1>a, <1>b DEF SeqRecord, Goto
    <3>3. HeldItems' = HeldItems /\ (Hand)' = <<>>
      <4>1. (\E t \in Threads : pc'[t] = "drop") <=> \E t \in Threads : pc[t] = "drop"
        BY <1>b, <2>1, <3>2
      <4> QED BY <3>1, <3>2, <4>1 DEF HeldItems, NotYetWritten, ItemsOf, Hand, InHand
    <3>4. HistoryItems' = Append(HistoryItems, x)
      BY <1>d, <2>1, <3>1, ItemsOfEntries DEF HistoryItems
    <3> HIDE DEF x, e
    <3>5. Ran' = (HistoryItems \o <<x>>) \o HeldItems
      BY <1>d, <2>1, <3>3, <3>4, ConcatEmptySeq, AppendIsConcat DEF Ran, Unwritten
    <3>6. /\ HeldItems \o <<x>> \in Seq(Items) /\ HistoryItems \o <<x>> \in Seq(Items)
      BY <1>d, <2>3, ConcatProperties
    <3>7. /\ ToSet(HeldItems \o <<x>>) = ToSet(HeldItems) \cup {x}
          /\ ToSet(HistoryItems \o <<x>>) = ToSet(HistoryItems) \cup {x}
          /\ ToSet(Ran) = ToSet(HistoryItems) \cup ToSet(HeldItems \o <<x>>)
          /\ ToSet(Ran') = ToSet(HistoryItems \o <<x>>) \cup ToSet(HeldItems)
      BY <1>d, <2>3, <3>5, <3>6, ConcatDistinct
    <3>8. /\ IsInjective(HistoryItems) /\ IsInjective(HeldItems \o <<x>>)
          /\ ToSet(HistoryItems) \cap ToSet(HeldItems \o <<x>>) = {}
      BY <1>0, <1>d, <2>3, <3>6, ConcatDistinct DEF Complete
    <3>9. IsInjective(HeldItems) /\ x \notin ToSet(HeldItems)
      BY <1>d, <2>3, <3>8, ConcatDistinct
    <3>10. IsInjective(HistoryItems \o <<x>>)
      <4>1. ToSet(HistoryItems) \cap ToSet(<<x>>) = {}
        BY <2>3, <3>7, <3>8
      <4> QED BY <1>d, <2>3, <3>8, <4>1, ConcatDistinct
    <3>11. IsInjective(Ran')
      <4>1. ToSet(HistoryItems \o <<x>>) \cap ToSet(HeldItems) = {}
        BY <3>7, <3>8, <3>9
      <4>2. IsInjective((HistoryItems \o <<x>>) \o HeldItems)
        BY <1>d, <3>6, <3>9, <3>10, <4>1, ConcatDistinct
      <4> QED BY <3>5, <4>2
    <3>12. Complete'
      BY <1>0, <2>2, <3>7, <3>11 DEF Complete
    <3>13. Ordered'
      <4> SUFFICES ASSUME outages <= 1 PROVE InOrderOf(Ran', handed)
        BY <2>2 DEF Ordered
      <4>1. pendingHistory = <<>>
        BY <2>1 DEF HeldSinceTheOutage
      <4>2. HeldItems = <<>>
        BY <1>d, <4>1, ItemsOfEntries DEF HeldItems, NotYetWritten
      <4>3. Ran' = HistoryItems \o <<x>> /\ Ran = HistoryItems \o <<x>>
        BY <2>3, <3>5, <3>6, <4>2, ConcatEmptySeq
      <4> QED BY <1>0, <4>3 DEF Ordered
    <3> QED BY <3>12, <3>13
  <2>5. CASE ~dbUp
    <3>1. pendingHistory' = Append(pendingHistory, e) /\ UNCHANGED history
      BY <1>9, <2>5 DEF SeqRecord
    <3>2. pc'[Loop] = "hold" /\ pc'[Http] = pc[Http]
      BY <1>9, <2>5, <1>a, <1>b DEF SeqRecord, Goto
    <3> HIDE DEF x, e
    <3>3. NotYetWritten' = Append(NotYetWritten, e) /\ NotYetWritten \in Seq(Entries)
      <4>1. /\ pendingHistory' # <<>>
            /\ pendingHistory # <<>> => Tail(pendingHistory') = Append(Tail(pendingHistory), e)
        BY <1>d, <2>1, <3>1, AppendProperties, HeadTailAppend
      <4>2. (\E t \in Threads : pc'[t] = "drop") <=> \E t \in Threads : pc[t] = "drop"
        BY <1>b, <2>1, <3>2
      <4>3. (\E t \in Threads : pc[t] = "drop") => pendingHistory # <<>>
        BY <1>0 DEF FlushesApart, Flushing
      <4>4. NotYetWritten \in Seq(Entries)
        BY <1>d, HeadTail DEF NotYetWritten
      <4> QED BY <3>1, <4>1, <4>2, <4>3, <4>4 DEF NotYetWritten
    <3>4. HeldItems' = HeldItems \o <<x>>
      <4>1. HeldItems' = ItemsOf(NotYetWritten')
        BY DEF HeldItems, ItemsOf
      <4>2. ItemsOf(Append(NotYetWritten, e)) = Append(HeldItems, x)
        BY <2>1, <3>3, ItemsOfEntries DEF HeldItems
      <4> QED BY <1>d, <2>1, <3>3, <4>1, <4>2, AppendIsConcat
    <3>5. (Hand)' = <<>>
      BY <3>2 DEF Hand, InHand
    <3>6. Unwritten' = Unwritten
      <4>1. HeldItems \o <<x>> \in Seq(Items)
        BY <1>d, <2>3, ConcatProperties
      <4> QED BY <2>3, <3>4, <3>5, <4>1, ConcatEmptySeq DEF Unwritten
    <3> QED BY <1>c, <2>2, <3>1, <3>6
  <2> QED BY <2>4, <2>5
<1>10. CASE SeqHold
  BY <1>10, <1>a, <1>b, <1>e DEF SeqHold, Goto, InHand
<1>11. CASE SeqLoopItem
  BY <1>11, <1>a, <1>b, <1>e DEF SeqLoopItem, Goto, InHand
<1>12. CASE SeqSuccess
  BY <1>12, <1>a, <1>b, <1>e DEF SeqSuccess, Goto, InHand
<1>13. CASE SeqStopAndWait
  BY <1>13, <1>a, <1>b, <1>e DEF SeqStopAndWait, SelfStop, Goto, InHand
<1>14. CASE SeqFinish
  BY <1>14, <1>a, <1>b, <1>e DEF SeqFinish, Goto, InHand
<1>15. CASE StartCheck
  BY <1>15, <1>a, <1>b, <1>e DEF StartCheck, Goto, InHand
<1>16. CASE StartEnter
  BY <1>16, <1>a, <1>b, <1>e DEF StartEnter, Goto, InHand
<1>17. CASE StartCount
  BY <1>17, <1>a, <1>b, <1>e DEF StartCount, Goto, InHand
<1>18. CASE StartCall
  BY <1>18, <1>a, <1>b, <1>e DEF StartCall, Serving, Goto, InHand
<1>19. CASE StopCall
  BY <1>19, <1>a, <1>b, <1>e DEF StopCall, Serving, RequestStop, InHand
<1>20. CASE StopCancel
  BY <1>20, <1>a, <1>b, <1>e DEF StopCancel, Serving, InHand
<1>21. CASE Close
  BY <1>21, <1>a, <1>b, <1>e DEF Close, Serving, InHand
<1>22. CASE DbFail
  <2>1. /\ UNCHANGED <<history, handed, lost, pendingHistory, pc, item>>
        /\ outages' <= 1 => outages <= 1
    BY <1>22, <1>d DEF DbFail
  <2>2. (InHand)' = InHand
    BY <2>1 DEF InHand
  <2>3. Unwritten' = Unwritten
    BY <2>1, <2>2, UnwrittenKept
  <2> QED BY <1>c, <2>1, <2>3
<1>23. CASE DbRecover
  <2>1. /\ UNCHANGED <<history, handed, lost, pendingHistory, pc, item>>
        /\ outages' <= 1 => outages <= 1
    BY <1>23, <1>d DEF DbRecover
  <2>2. (InHand)' = InHand
    BY <2>1 DEF InHand
  <2>3. Unwritten' = Unwritten
    BY <2>1, <2>2, UnwrittenKept
  <2> QED BY <1>c, <2>1, <2>3
<1>24. CASE ExperimentChanges
  BY <1>24, <1>a, <1>b, <1>e DEF ExperimentChanges, InHand
<1>25. CASE Restart
  <2>1. /\ UNCHANGED <<history, handed, outages>> /\ pendingHistory' = <<>>
        /\ pc'[Loop] = "check" /\ lost' = lost \cup ToSet(Unwritten)
    BY <1>25, <1>b DEF Restart
  <2>2. HistoryItems' = HistoryItems /\ (Hand)' = <<>>
    BY <2>1 DEF HistoryItems, ItemsOf, Hand, InHand
  <2>3. HeldItems' = <<>>
    <3>1. NotYetWritten' = <<>>
      BY <2>1 DEF NotYetWritten
    <3>2. HeldItems' = ItemsOf(NotYetWritten')
      BY DEF HeldItems, ItemsOf
    <3>3. <<>> \in Seq(Entries)
      OBVIOUS
    <3> QED BY <3>1, <3>2, <3>3, ItemsOfEntries
  <2>4. Ran' = HistoryItems
    <3>1. <<>> \o <<>> = <<>>
      BY ConcatEmptySeq, EmptySeq
    <3> QED BY <1>d, <2>2, <2>3, <3>1, ConcatEmptySeq DEF Ran, Unwritten
  <2>5. /\ ToSet(Ran) = ToSet(HistoryItems) \cup ToSet(Unwritten)
        /\ IsInjective(HistoryItems) /\ ToSet(HistoryItems) \cap ToSet(Unwritten) = {}
    BY <1>0, <1>d, ConcatDistinct DEF Ran, Complete
  <2>6. Complete'
    BY <1>0, <2>1, <2>4, <2>5 DEF Complete
  <2>7. Ordered'
    <3>1. InOrderOf(Ran, handed) => InOrderOf(HistoryItems, handed)
      BY <1>d, WithoutEnd DEF Ran
    <3> QED BY <1>0, <2>1, <2>4, <3>1 DEF Ordered
  <2> QED BY <2>6, <2>7
<1>26. CASE \E t \in Threads : FlushRead(t)
  <2> PICK t \in Threads : FlushRead(t)
    BY <1>26
  <2>1. pc[t] = "flush" /\ UNCHANGED <<history, handed, lost, item, outages, pendingHistory>>
    BY DEF FlushRead
  <2>2. pc' = [pc EXCEPT ![t] = "append"] \/ pc' = [pc EXCEPT ![t] = Flushed(t)]
    BY DEF FlushRead, Goto
  <2>3. Flushed(t) \in {"record", "enter"} /\ (t = Loop => Flushed(t) = "record")
    BY DEF Flushed
  <2> QED BY <1>a, <1>b, <1>e, <2>1, <2>2, <2>3 DEF InHand
<1>27. CASE \E t \in Threads : FlushAppend(t)
  <2> PICK t \in Threads : FlushAppend(t)
    BY <1>27
  <2>1. pc[t] = "append" /\ UNCHANGED <<handed, lost, item, outages, pendingHistory>>
    BY DEF FlushAppend
  <2>2. CASE dbUp
    <3> DEFINE e == Head(pendingHistory)
               x == e.item
               rest == ItemsOf(Tail(pendingHistory))
    <3>1. /\ pendingHistory # <<>> /\ read[t] = e
          /\ \A other \in Threads \ {t} : ~Flushing(other)
      BY <1>0, <1>b, <2>1 DEF FlushesApart, Flushing
    <3>2. e \in Entries /\ Tail(pendingHistory) \in Seq(Entries) /\ x \in Items
      <4>1. e \in Entries /\ Tail(pendingHistory) \in Seq(Entries)
        BY <1>d, <3>1, HeadTail
      <4> QED BY <4>1 DEF Entries
    <3>3. history' = Append(history, e) /\ pc' = [pc EXCEPT ![t] = "drop"]
      BY <2>2, <3>1 DEF FlushAppend, Goto
    <3>4. pc'[t] = "drop" /\ (InHand)' = InHand
      BY <1>a, <1>b, <2>1, <3>3 DEF InHand
    <3>5. NotYetWritten = pendingHistory /\ NotYetWritten' = Tail(pendingHistory)
      <4>1. ~\E u \in Threads : pc[u] = "drop"
        BY <2>1, <3>1 DEF Flushing
      <4>2. pendingHistory' = pendingHistory /\ \E u \in Threads : pc'[u] = "drop"
        BY <2>1, <3>4
      <4> QED BY <3>1, <4>1, <4>2 DEF NotYetWritten
    <3>6. /\ HistoryItems' = Append(HistoryItems, x)
          /\ HeldItems = <<x>> \o rest /\ rest \in Seq(Items) /\ HeldItems' = rest
      <4>1. HeldItems' = ItemsOf(NotYetWritten') /\ HistoryItems' = ItemsOf(history')
        BY DEF HeldItems, HistoryItems, ItemsOf
      <4>2. ItemsOf(Append(history, e)) = Append(HistoryItems, x)
        BY <1>d, <3>2, ItemsOfEntries DEF HistoryItems
      <4>3. HeldItems = <<x>> \o rest /\ rest \in Seq(Items)
        BY <1>d, <3>1, <3>2, <3>5, ItemsOfEntries DEF HeldItems
      <4> QED BY <3>3, <3>5, <4>1, <4>2, <4>3
    <3>7. (Hand)' = Hand
      BY <2>1, <3>4 DEF Hand
    <3> HIDE DEF x, rest
    <3>8. <<x>> \in Seq(Items) /\ rest \o Hand \in Seq(Items)
      BY <1>d, <3>2, <3>6, ConcatProperties
    <3>9. Ran = HistoryItems \o (<<x>> \o (rest \o Hand))
      <4>1. (<<x>> \o rest) \o Hand = <<x>> \o (rest \o Hand)
        BY <1>d, <3>6, <3>8, ConcatAssociative
      <4> QED BY <3>6, <4>1 DEF Ran, Unwritten
    <3>10. Ran' = (HistoryItems \o <<x>>) \o (rest \o Hand)
      BY <1>d, <3>2, <3>6, <3>7, AppendIsConcat DEF Ran, Unwritten
    <3>11. Ran' = Ran
      <4>1. (HistoryItems \o <<x>>) \o (rest \o Hand)
               = HistoryItems \o (<<x>> \o (rest \o Hand))
        <5> DEFINE back == rest \o Hand
                   hist == HistoryItems
        <5>1. hist \in Seq(Items) /\ x \in Items /\ back \in Seq(Items)
          BY <1>d, <3>2, <3>8
        <5> HIDE DEF back, hist
        <5>2. (hist \o <<x>>) \o back = hist \o (<<x>> \o back)
          BY <5>1, MoveOver
        <5> QED BY <5>2 DEF back, hist
      <4> QED BY <3>9, <3>10, <4>1
    <3> QED BY <1>0, <2>1, <3>11 DEF Complete, Ordered
  <2>3. CASE ~dbUp
    <3>1. UNCHANGED history /\ pc' = [pc EXCEPT ![t] = FlushFailed(t)]
      BY <2>3 DEF FlushAppend, Goto
    <3>2. FlushFailed(t) \in {"record", "idle"} /\ (t = Loop => FlushFailed(t) = "record")
      BY DEF FlushFailed
    <3> QED BY <1>a, <1>b, <1>e, <2>1, <3>1, <3>2 DEF InHand
  <2> QED BY <2>2, <2>3
<1>28. CASE \E t \in Threads : FlushDrop(t)
  <2> PICK t \in Threads : FlushDrop(t)
    BY <1>28
  <2>1. pc[t] = "drop" /\ UNCHANGED <<history, handed, lost, item, outages>>
    BY DEF FlushDrop
  <2>2. pendingHistory # <<>> /\ \A other \in Threads \ {t} : ~Flushing(other)
    BY <1>0, <1>b, <2>1 DEF FlushesApart, Flushing
  <2>3. pendingHistory' = Tail(pendingHistory) /\ pc' = [pc EXCEPT ![t] = "flush"]
    BY <2>2 DEF FlushDrop, Goto
  <2>4. NotYetWritten = Tail(pendingHistory) /\ NotYetWritten' = Tail(pendingHistory)
    <3>1. \E u \in Threads : pc[u] = "drop"
      BY <2>1
    <3>2. ~\E u \in Threads : pc'[u] = "drop"
      BY <1>a, <1>b, <2>2, <2>3 DEF Flushing
    <3> QED BY <2>2, <2>3, <3>1, <3>2 DEF NotYetWritten
  <2>5. (InHand)' = InHand
    BY <1>a, <1>b, <2>1, <2>3 DEF InHand
  <2>6. Unwritten' = Unwritten
    BY <2>1, <2>4, <2>5 DEF Unwritten, HeldItems, ItemsOf, Hand
  <2> QED BY <1>c, <2>1, <2>6
<1>29. CASE \E i \in Items : AddItem(i)
  BY <1>29, <1>a, <1>b, <1>e DEF AddItem, Serving, InHand
<1>30. CASE \E i \in Items : RemoveItem(i)
  BY <1>30, <1>a, <1>b, <1>e DEF RemoveItem, Serving, InHand
<1>31. CASE \E i \in Items : ExecuteNow(i)
  BY <1>31, <1>a, <1>b, <1>e DEF ExecuteNow, Serving, Goto, InHand
<1>32. CASE \E b \in BOOLEAN : SetAutostart(b)
  BY <1>32, <1>a, <1>b, <1>e DEF SetAutostart, Serving, InHand
<1>33. CASE \E b \in BOOLEAN : SetLoopMode(b)
  BY <1>33, <1>a, <1>b, <1>e DEF SetLoopMode, Serving, InHand
<1>34. CASE \E e \in Exits : PlanEnds(e)
  BY <1>34, <1>a, <1>b, <1>e DEF PlanEnds, MustStop, Goto, InHand
<1>36. CASE SeqExits
  <2>1. /\ UNCHANGED <<history, handed, outages, pendingHistory>>
        /\ lost' = lost \cup {item} /\ pc[Loop] \in {"take", "run"}
    BY <1>36 DEF SeqExits
  <2>2. pc'[Loop] = "dead" /\ pc'[Http] = pc[Http]
    BY <1>36, <1>a, <1>b DEF SeqExits, Goto
  <2>3. item \in Items /\ <<item>> \in Seq(Items) /\ ToSet(<<item>>) = {item}
    BY <2>1, SingleDistinct DEF TypeOK, ControlOK
  <2>4. HistoryItems' = HistoryItems /\ HeldItems' = HeldItems
    <3>1. (\E t \in Threads : pc'[t] = "drop") <=> \E t \in Threads : pc[t] = "drop"
      BY <1>b, <2>1, <2>2
    <3> QED BY <2>1, <3>1 DEF HeldItems, NotYetWritten, HistoryItems, ItemsOf
  <2>5. Hand = <<item>> /\ (Hand)' = <<>>
    BY <2>1, <2>2 DEF Hand, InHand
  <2> DEFINE kept == HistoryItems \o HeldItems
  <2>6. Ran' = kept /\ kept \in Seq(Items)
    BY <1>d, <2>4, <2>5, ConcatEmptySeq, ConcatProperties DEF Ran, Unwritten
  <2>7. Ran = kept \o <<item>>
    BY <1>d, <2>3, <2>5, ConcatAssociative DEF Ran, Unwritten
  <2> HIDE DEF kept
  <2>8. /\ ToSet(Ran) = ToSet(kept) \cup {item} /\ item \notin ToSet(kept)
        /\ IsInjective(kept)
    BY <1>0, <2>3, <2>6, <2>7, ConcatDistinct DEF Complete
  <2>9. Complete'
    BY <1>0, <2>1, <2>6, <2>8 DEF Complete
  <2>10. Ordered'
    <3>1. InOrderOf(Ran, handed) => InOrderOf(kept, handed)
      BY <2>3, <2>6, <2>7, WithoutEnd
    <3> QED BY <1>0, <2>1, <2>6, <3>1 DEF Ordered
  <2> QED BY <2>9, <2>10
<1>35. CASE UNCHANGED vars
  BY <1>35, <1>e DEF InHand
<1> QED
  BY <1>1, <1>2, <1>3, <1>4, <1>5, <1>6, <1>7, <1>8, <1>9, <1>10, <1>11, <1>12, <1>13, <1>14, <1>15, <1>16, <1>17, <1>18, <1>19, <1>20, <1>21, <1>22, <1>23, <1>24, <1>25, <1>26, <1>27, <1>28, <1>29, <1>30, <1>31, <1>32, <1>33, <1>34, <1>35, <1>36
     DEF Next, SeqStep, HttpStep, HttpRequest, PlanStep, Environment, Threads

\* Through outages, restarts and plans that call exit(): as long as the two
\* threads do not flush at once, an outcome is or will be written once, none is
\* missing but those that went with a process or by exit(), and after one outage
\* the history is still in the order in which the items ran (_record).
THEOREM RunOrderRecorded == Spec => []HistoryIsTheRunOrder
<1>1. Init => /\ FlushesApart /\ HeldSinceTheOutage
              /\ HistoryIsTheRunOrder /\ LostWasHanded
  <2> SUFFICES ASSUME Init
               PROVE  /\ FlushesApart /\ HeldSinceTheOutage
                      /\ HistoryIsTheRunOrder /\ LostWasHanded
    OBVIOUS
  <2>1. pc[Loop] = "check" /\ pc[Http] = "idle" /\ pendingHistory = <<>> /\ history = <<>>
    BY DEF Init, Threads, Loop, Http
  <2>2. <<>> \in Seq(Entries) /\ <<>> \in Seq(Items)
    OBVIOUS
  <2>3. HistoryItems = <<>> /\ HeldItems = <<>> /\ Hand = <<>>
    BY <2>1, <2>2, ItemsOfEntries DEF HistoryItems, HeldItems, NotYetWritten, Hand, InHand
  <2>4. Ran = <<>>
    BY <2>2, <2>3, ConcatEmptySeq DEF Ran, Unwritten
  <2>5. DOMAIN Ran = {} /\ handed = <<>> /\ lost = {}
    BY <2>4 DEF Init
  <2>6. FlushesApart /\ HeldSinceTheOutage
    BY <2>1 DEF Init, FlushesApart, Flushing, HeldSinceTheOutage, Threads, Loop, Http
  <2> QED BY <2>5, <2>6
          DEF HistoryIsTheRunOrder, LostWasHanded, InOrderOf, IsInjective, ToSet
<1> QED BY <1>1, ApartStep, HeldStep, RunOrderStep, TypeCorrect, ExactlyOnce, PTL DEF Spec
=============================================================================
