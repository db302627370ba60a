-------------------------- MODULE StatusMonitorProofs --------------------------
(***************************************************************************)
(* Theorems about the status document and the socket that streams it       *)
(* (api/status.py, api/routers/ws.py), for every set of items: a client    *)
(* that is left waiting has seen every change that an event announced, and *)
(* a document that says "idle" is right although its two looks at the      *)
(* engine and at the queue are not one step.                               *)
(***************************************************************************)
EXTENDS StatusMonitor, SequencerProofs

\* The engine runs the plan that the loop waits for, or the loop died of it and the queue is still started.
EngineIsWaitedFor == engine = "running" => pc[Loop] = "run" \/ (pc[Loop] = "dead" /\ running)

\* The engine runs a plan only while the loop waits for it or has died of it, and an outcome enters the
\* history only where the loop records it: a flush has nothing to write.
LEMMA WhereThingsHappen ==
    ASSUME TypeOK, SafetyInv, Undisturbed, EngineIsWaitedFor, ServiceStep
    PROVE  /\ EngineIsWaitedFor'
           /\ history' = history \/ (pc[Loop] = "record" /\ pc'[Loop] = "settle")
<1> USE DEF ControlOK, TypeOK, DataOK, Undisturbed, EngineIsWaitedFor, Threads, Loop, Http, dbVars, flagVars, modeVars, planVars, flushVars, heldVars, envVars, itemVars, auxVars, OnlyPc
<1>1. CASE SeqStopAsRequested
  BY <1>1 DEF SeqStopAsRequested, SelfStop
<1>2. CASE SeqAutostart
  BY <1>2 DEF SeqAutostart, Goto
<1>3. CASE SeqGo
  BY <1>3 DEF SeqGo, Goto
<1>4. CASE SeqDieChecking
  BY <1>4 DEF SeqDieChecking, Goto
<1>5. CASE SeqClose
  BY <1>5 DEF SeqClose, Goto
<1>6. CASE SeqPop
  BY <1>6 DEF SeqPop, Goto
<1>7. CASE SeqEmpty
  BY <1>7 DEF SeqEmpty, SelfStop, Goto
<1>8. CASE SeqTake
  BY <1>8 DEF SeqTake, Goto
<1>9. CASE SeqRecord
  BY <1>9 DEF SeqRecord, Goto
<1>10. CASE SeqHold
  BY <1>10 DEF SeqHold, Goto
<1>11. CASE SeqLoopItem
  BY <1>11 DEF SeqLoopItem, Goto
<1>12. CASE SeqSuccess
  BY <1>12 DEF SeqSuccess, Goto
<1>13. CASE SeqStopAndWait
  BY <1>13 DEF SeqStopAndWait, SelfStop, Goto
<1>14. CASE SeqFinish
  BY <1>14 DEF SeqFinish, Goto
<1>15. CASE StartCheck
  BY <1>15 DEF StartCheck, Goto
<1>16. CASE StartEnter
  BY <1>16 DEF StartEnter, Goto
<1>17. CASE StartCount
  BY <1>17 DEF StartCount, Goto
<1>18. CASE StartCall
  BY <1>18 DEF StartCall, Goto
<1>19. CASE StopCall
  BY <1>19 DEF StopCall, RequestStop
<1>20. CASE StopCancel
  BY <1>20 DEF StopCancel
<1>21. CASE \E t \in Threads : FlushRead(t)
  BY <1>21 DEF FlushRead, Flushed, Goto
<1>22. CASE \E t \in Threads : FlushAppend(t)
  BY <1>22 DEF FlushAppend, FlushFailed, Goto
<1>23. CASE \E t \in Threads : FlushDrop(t)
  BY <1>23 DEF FlushDrop, FlushRaised, Goto
<1>24. CASE \E i \in Items : AddItem(i)
  BY <1>24 DEF AddItem
<1>25. CASE \E i \in Items : RemoveItem(i)
  BY <1>25 DEF RemoveItem
<1>26. CASE \E i \in Items : ExecuteNow(i)
  BY <1>26 DEF ExecuteNow, Goto
<1>27. CASE \E b \in BOOLEAN : SetAutostart(b)
  BY <1>27 DEF SetAutostart
<1>28. CASE \E b \in BOOLEAN : SetLoopMode(b)
  BY <1>28 DEF SetLoopMode
<1>29. CASE \E e \in Exits : PlanEnds(e)
  BY <1>29 DEF PlanEnds, Goto
<1>30. CASE SeqExits
  BY <1>30 DEF SeqExits, Goto, SafetyInv, RunningWhileBusy
<1> QED
  BY <1>1, <1>2, <1>3, <1>4, <1>5, <1>6, <1>7, <1>8, <1>9, <1>10, <1>11, <1>12, <1>13, <1>14, <1>15, <1>16, <1>17, <1>18, <1>19, <1>20, <1>21, <1>22, <1>23, <1>24, <1>25, <1>26, <1>27, <1>28, <1>29, <1>30
     DEF ServiceStep, SeqStep, HttpStep, HttpRequest, PlanStep, Threads

-----------------------------------------------------------------------------
(* What an event announces. *)

\* A step of the service that announces nothing changes none of the fields that events are about.
LEMMA UnannouncedChangesNothing ==
    ASSUME TypeOK, TypeOK', SafetyInv, Undisturbed, Undisturbed', EngineIsWaitedFor, ServiceStep,
           Emitted \cap StatusChangeKinds = {}
    PROVE  UNCHANGED <<running, stopPending, engine, history, pendingHistory>>
<1>1. running' = running /\ stopPending' = stopPending
  BY DEF Emitted, StatusChangeKinds
<1>2. engine' = engine
  <2>1. engine \in {"idle", "running"} /\ engine' \in {"idle", "running"}
    BY DEF TypeOK, DataOK
  <2>2. ~(engine = "idle" /\ engine' = "running") /\ ~(engine = "running" /\ engine' = "idle")
    BY DEF Emitted, StatusChangeKinds
  <2> QED
    BY <2>1, <2>2
<1>3. history' = history
  <2>1. ~(pc[Loop] = "record" /\ pc'[Loop] = "settle")
    BY DEF Emitted, StatusChangeKinds
  <2> QED
    BY <2>1, WhereThingsHappen
<1>4. pendingHistory' = pendingHistory
  BY DEF Undisturbed
<1> QED
  BY <1>1, <1>2, <1>3, <1>4

\* When nothing is left to wake the socket, what has been read of a document is still so.
ReadIsCurrent ==
    ~box /\ ~onItsWay =>
      /\ reader \in {"pending", "engine", "flag", "stop", "send"} => doc.done = Len(history)
      /\ reader = "flag" => doc.busy = (engine = "running")
      /\ reader \in {"stop", "send"} => doc.busy = (engine = "running" \/ running)
      /\ reader = "send" => doc.stop = stopPending
      /\ reader = "wait" =>
            shown.done = Len(history) /\ shown.busy = (engine = "running" \/ running)
            /\ shown.stop = stopPending

MonitorInv == MonitorTypeOK /\ SafetyInv /\ Undisturbed /\ EngineIsWaitedFor /\ ReadIsCurrent

LEMMA MonitorBegins == MonitorInit => MonitorInv
<1> SUFFICES ASSUME MonitorInit PROVE MonitorInv
  OBVIOUS
<1>1. TypeOK /\ SafetyInv
  BY InitTyped, InitSafe DEF MonitorInit
<1>2. Undisturbed /\ EngineIsWaitedFor
  BY DEF MonitorInit, Init, Undisturbed, EngineIsWaitedFor, Threads, Loop, Http
<1>3. NoDoc \in Docs
  BY DEF NoDoc, Docs
<1>4. MonitorTypeOK
  BY <1>1, <1>3 DEF MonitorInit, MonitorTypeOK, Reading
<1>5. ReadIsCurrent
  BY DEF MonitorInit, ReadIsCurrent
<1> QED
  BY <1>1, <1>2, <1>4, <1>5 DEF MonitorInv

\* A step of the service, beside a document that is being built.
LEMMA ServiceKeepsMonitor ==
    ASSUME MonitorInv, ServiceStep, Publish, UNCHANGED <<reader, box, doc, shown>>
    PROVE  MonitorInv'
<1>1. [Next]_vars /\ TypeOK /\ SafetyInv /\ Undisturbed /\ EngineIsWaitedFor /\ ReadIsCurrent
  BY DEF MonitorInv, MonitorTypeOK, ServiceStep, Next
<1>2. TypeOK' /\ SafetyInv' /\ Undisturbed'
  BY <1>1, TypeStep, SafetyStep, ServiceUndisturbed
<1>3. EngineIsWaitedFor'
  BY <1>1, WhereThingsHappen
<1>4. onItsWay' \in BOOLEAN
  BY DEF Publish
<1>5. MonitorTypeOK'
  BY <1>2, <1>4 DEF MonitorInv, MonitorTypeOK
<1>6. ReadIsCurrent'
  <2>1. CASE Emitted \cap StatusChangeKinds = {}
    <3>1. UNCHANGED <<running, stopPending, engine, history, pendingHistory>>
      BY <1>1, <1>2, <2>1, UnannouncedChangesNothing
    <3>2. ~onItsWay' => ~onItsWay
      BY DEF Publish
    <3> QED
      BY <1>1, <3>1, <3>2 DEF ReadIsCurrent
  <2>2. CASE Emitted \cap StatusChangeKinds # {}
    <3>1. onItsWay'
      BY <2>2 DEF Publish
    <3> QED
      BY <3>1 DEF ReadIsCurrent
  <2> QED
    BY <2>1, <2>2
<1> QED
  BY <1>2, <1>3, <1>5, <1>6 DEF MonitorInv

\* A step that leaves the service alone.
LEMMA AsideKeepsService ==
    ASSUME MonitorInv, UNCHANGED vars
    PROVE  TypeOK' /\ SafetyInv' /\ Undisturbed' /\ EngineIsWaitedFor'
<1>1. [Next]_vars /\ TypeOK /\ SafetyInv
  BY DEF MonitorInv, MonitorTypeOK
<1>2. TypeOK' /\ SafetyInv'
  BY <1>1, TypeStep, SafetyStep
<1>3. UNCHANGED <<pc, engine, running, dbUp, outages, pendingHistory>>
  BY DEF vars, flagVars, planVars, flushVars, heldVars, envVars
<1> QED
  BY <1>2, <1>3 DEF MonitorInv, Undisturbed, EngineIsWaitedFor

\* A field of the document is read.
LEMMA ReadKeepsMonitor ==
    ASSUME MonitorInv,
           \/ ReadItem \/ ReadTables \/ ReadPending \/ ReadEngine \/ ReadFlag \/ ReadStop
    PROVE  MonitorInv'
<1>1. UNCHANGED vars /\ UNCHANGED <<onItsWay, box, shown>>
  BY DEF ReadItem, ReadTables, ReadPending, ReadEngine, ReadFlag, ReadStop, Read
<1>2. UNCHANGED <<history, pendingHistory, engine, running, stopPending>>
  BY <1>1 DEF vars, dbVars, flagVars, heldVars, flushVars, planVars
<1>3. /\ runningItem \in Items \cup {None} /\ running \in BOOLEAN /\ stopPending \in BOOLEAN
      /\ Len(history) \in Nat /\ pendingHistory = <<>> /\ doc \in Docs /\ ReadIsCurrent
  BY DEF MonitorInv, MonitorTypeOK, TypeOK, ControlOK, FlagsOK, DataOK, Undisturbed
<1>4. Len(pendingHistory) = 0
  BY <1>3
<1>5. doc' \in Docs /\ reader' \in Reading \cup {"send"}
  <2>1. CASE ReadItem
    BY <1>3, <2>1 DEF ReadItem, Read, NoDoc, Docs, Reading
  <2>2. CASE ReadTables
    BY <1>3, <2>2 DEF ReadTables, Read, Docs, Reading
  <2>3. CASE ReadPending
    BY <1>3, <1>4, <2>3 DEF ReadPending, Read, Docs, Reading
  <2>4. CASE ReadEngine
    BY <1>3, <2>4 DEF ReadEngine, FirstLook, Read, Docs, Reading
  <2>5. CASE ReadFlag
    BY <1>3, <2>5 DEF ReadFlag, SecondLook, Read, Docs, Reading
  <2>6. CASE ReadStop
    BY <1>3, <2>6 DEF ReadStop, Read, Docs, Reading
  <2> QED
    BY <2>1, <2>2, <2>3, <2>4, <2>5, <2>6
<1>6. ReadIsCurrent'
  <2>1. CASE ReadItem
    BY <2>1 DEF ReadItem, Read, ReadIsCurrent
  <2>2. CASE ReadTables
    BY <1>1, <1>2, <1>3, <2>2 DEF ReadTables, Read, Docs, ReadIsCurrent
  <2>3. CASE ReadPending
    BY <1>1, <1>2, <1>3, <1>4, <2>3 DEF ReadPending, Read, Docs, ReadIsCurrent
  <2>4. CASE ReadEngine
    BY <1>1, <1>2, <1>3, <2>4 DEF ReadEngine, FirstLook, Read, Docs, ReadIsCurrent
  <2>5. CASE ReadFlag
    BY <1>1, <1>2, <1>3, <2>5 DEF ReadFlag, SecondLook, Read, Docs, ReadIsCurrent
  <2>6. CASE ReadStop
    BY <1>1, <1>2, <1>3, <2>6 DEF ReadStop, Read, Docs, ReadIsCurrent
  <2> QED
    BY <2>1, <2>2, <2>3, <2>4, <2>5, <2>6
<1>7. TypeOK' /\ SafetyInv' /\ Undisturbed' /\ EngineIsWaitedFor'
  BY <1>1, AsideKeepsService
<1>8. MonitorTypeOK'
  BY <1>1, <1>5, <1>7 DEF MonitorInv, MonitorTypeOK
<1> QED
  BY <1>6, <1>7, <1>8 DEF MonitorInv

\* The document is sent, or the socket waits, is woken or grows impatient, or an event is delivered.
LEMMA WaitKeepsMonitor ==
    ASSUME MonitorInv, Send \/ Wake \/ TimeOut \/ Deliver \/ UNCHANGED allVars
    PROVE  MonitorInv'
<1>1. UNCHANGED vars
  BY DEF Send, Wake, TimeOut, Deliver, allVars
<1>2. UNCHANGED <<history, engine, running, stopPending>>
  BY <1>1 DEF vars, dbVars, flagVars, heldVars, planVars
<1>3. TypeOK' /\ SafetyInv' /\ Undisturbed' /\ EngineIsWaitedFor'
  BY <1>1, AsideKeepsService
<1>4. NoDoc \in Docs
  BY DEF NoDoc, Docs
<1>5. MonitorTypeOK'
  BY <1>3, <1>4 DEF MonitorInv, MonitorTypeOK, Send, Wake, TimeOut, Deliver, allVars, monitorVars, Reading
<1>6. ReadIsCurrent'
  BY <1>2 DEF MonitorInv, ReadIsCurrent, Send, Wake, TimeOut, Deliver, allVars, monitorVars
<1> QED
  BY <1>3, <1>5, <1>6 DEF MonitorInv

LEMMA MonitorStep == MonitorInv /\ [MonitorNext]_allVars => MonitorInv'
<1> SUFFICES ASSUME MonitorInv, [MonitorNext]_allVars PROVE MonitorInv'
  OBVIOUS
<1>1. CASE Run
  BY <1>1, ServiceKeepsMonitor DEF Run, ServiceStep
<1>2. CASE Serve
  BY <1>2, ServiceKeepsMonitor DEF Serve, ServiceStep
<1>3. CASE SocketStep \/ Deliver \/ UNCHANGED allVars
  BY <1>3, ReadKeepsMonitor, WaitKeepsMonitor DEF SocketStep
<1> QED
  BY <1>1, <1>2, <1>3 DEF MonitorNext

LEMMA MonitorHolds == MonitorSpec => []MonitorInv
BY MonitorBegins, MonitorStep, PTL DEF MonitorSpec

\* "On every change" (ws.py:3), for what an event announces: a client that waits while no event is left to
\* wake the socket has a document with the flags and the number of finished items as they are.  That the
\* fields are read one by one while the sequencer goes on does no harm, because every such step of it is
\* followed by an event that wakes the socket again.
THEOREM WaitingClientIsUpToDate == MonitorSpec => []AnnouncedIsShown
<1>1. MonitorInv => AnnouncedIsShown
  <2>1. pendingHistory = <<>> => Len(pendingHistory) = 0
    OBVIOUS
  <2>2. TypeOK => Len(history) \in Nat
    BY DEF TypeOK, DataOK
  <2> QED
    BY <2>1, <2>2 DEF MonitorInv, MonitorTypeOK, ReadIsCurrent, Undisturbed, AnnouncedIsShown
<1> QED
  BY <1>1, MonitorHolds, PTL

-----------------------------------------------------------------------------
\* What the first look at the engine missed, the second look at the queue sees.
LEMMA IdleStep ==
    ASSUME MonitorInv, MonitorNext, reader = "flag", reader' = "stop", ~doc'.busy
    PROVE  engine = "idle" /\ pc[Loop] \notin {"pop", "empty", "take", "run"}
<1>1. ReadFlag
  BY DEF MonitorNext, Run, Serve, Deliver, SocketStep, ReadItem, ReadTables, ReadPending, ReadEngine,
         ReadStop, Read, Send, Wake, TimeOut
<1>2. ~running
  BY <1>1 DEF ReadFlag, SecondLook, Read, MonitorInv, MonitorTypeOK, Docs
<1>3. pc[Loop] \notin {"pop", "empty", "take", "run"}
  BY <1>2 DEF MonitorInv, SafetyInv, RunningWhileBusy
<1>4. engine = "idle"
  BY <1>2, <1>3 DEF MonitorInv, MonitorTypeOK, TypeOK, DataOK, EngineIsWaitedFor
<1> QED
  BY <1>3, <1>4

\* A document says "idle" (status.py:4, "nothing running") only when no plan runs and the loop takes no item
\* as its last field is read, whatever happened between the two looks.
THEOREM IdleIsNeverWrong == MonitorSpec => IdleIsTrue
<1>1. MonitorInv /\ [MonitorNext]_allVars =>
        [reader = "flag" /\ reader' = "stop" /\ ~doc'.busy
           => engine = "idle" /\ pc[Loop] \notin {"pop", "empty", "take", "run"}]_allVars
  BY IdleStep
<1> QED
  BY <1>1, MonitorHolds, PTL DEF MonitorSpec, IdleIsTrue
=============================================================================
