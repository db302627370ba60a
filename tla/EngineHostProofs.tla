---------------------------- MODULE EngineHostProofs ----------------------------
(* Theorems about EngineHost, for every number of plans and pauses, with and  *)
(* without device calls.                                                      *)
EXTENDS EngineHost, TLAPS

\* What every step keeps.
HostInv == TypeOK /\ HandsOK /\ OnePlan /\ OutcomeKept

\* An exit status is not None and not what exit() raises, and neither is a request.
LEMMA ExitNotNone ==
    /\ "success" # None /\ "fail" # None /\ "pending" # None /\ \A e \in Interrupts : e # None
    /\ Fatal # None /\ Fatal # "pending" /\ Fatal \notin Exits
BY HostAssumption DEF Exits, Interrupts, Fatal

LEMMA RequestType ==
    ASSUME TypeOK, NEW k \in Kinds
    PROVE  Request(k) \in Requests /\ Request(k) # None /\ Request(k).kind = k
BY HostAssumption DEF Request, Requests, TypeOK, DataOK

\* A thread that moves on is still in its own code.
LEMMA GotoEng == ASSUME PcOK, NEW l \in EngPCs, Goto(Eng, l) PROVE PcOK'
BY DEF Goto, PcOK, Threads, Eng, Ctl, Seq_
LEMMA GotoCtl == ASSUME PcOK, NEW l \in CtlPCs, Goto(Ctl, l) PROVE PcOK'
BY DEF Goto, PcOK, Threads, Eng, Ctl, Seq_
LEMMA GotoSeq == ASSUME PcOK, NEW l \in SeqPCs, Goto(Seq_, l) PROVE PcOK'
BY DEF Goto, PcOK, Threads, Eng, Ctl, Seq_

\* What a command at the back of the queue leaves as it was.
LEMMA Appended ==
    ASSUME DataOK, NEW c \in {PlanCommand, DeviceCommand, Poison},
           commands' = Append(commands, c)
    PROVE  /\ Len(commands) \in Nat /\ Len(commands') = Len(commands) + 1
           /\ commands'[Len(commands) + 1] = c
           /\ \A i \in 1..Len(commands) : commands'[i] = commands[i]
BY DEF DataOK

\* Every thread stays in its own code.
LEMMA PcsKeep == HostInv /\ [Next]_vars => PcOK'
<1> SUFFICES ASSUME HostInv, [Next]_vars PROVE PcOK'
  OBVIOUS
<1> USE HostAssumption DEF HostInv, TypeOK, hostVars, engineVars, localVars, countVars
<1>1. CASE SeqReady
  BY <1>1, GotoSeq DEF SeqReady, SeqPCs
<1>2. CASE RunPlan
  BY <1>2, GotoSeq DEF RunPlan, SeqPCs
<1>3. CASE Submit
  BY <1>3, GotoSeq DEF Submit, SeqPCs
<1>4. CASE TakeResult
  BY <1>4, GotoSeq DEF TakeResult, Resolved, SeqPCs
<1>5. CASE TakeCommand
  BY <1>5, GotoEng DEF TakeCommand, EngPCs
<1>6. CASE PlanStarts
  BY <1>6, GotoEng DEF PlanStarts, EngPCs
<1>7. CASE CallEngine
  BY <1>7, GotoEng DEF CallEngine, Raised, EngPCs
<1>8. CASE LookAtEngine
  BY <1>8, GotoEng DEF LookAtEngine, OutcomeFromEngine, EngPCs
<1>9. CASE EnterPause
  BY <1>9, GotoEng DEF EnterPause, EngPCs
<1>10. CASE TakeDirective
  BY <1>10, GotoEng DEF TakeDirective, EngPCs
<1>11. CASE LeavePause
  BY <1>11, GotoEng DEF LeavePause, EngPCs
<1>12. CASE ActOnDirective
  BY <1>12, GotoEng DEF ActOnDirective, Raised, InterruptOf, EngPCs
<1>13. CASE ClearItem
  BY <1>13, GotoEng DEF ClearItem, EngPCs
<1>14. CASE StoreOutcome
  BY <1>14, GotoEng DEF StoreOutcome, Assigns, KeepOutcome, EngPCs
<1>15. CASE BackToIdle
  BY <1>15, GotoEng DEF BackToIdle, Assigns, SetIdle, EngPCs
<1>16. CASE ResolveFuture
  BY <1>16, GotoEng DEF ResolveFuture, EngPCs
<1>17. CASE DeviceDone
  <2>1. "get" \in EngPCs /\ "idle" \in CtlPCs
    BY DEF EngPCs, CtlPCs
  <2> QED
    BY <1>17, <2>1 DEF DeviceDone, PcOK, Threads, Eng, Ctl, Seq_
<1>18. CASE PlanEnds
  BY <1>18, GotoEng DEF PlanEnds, Raised, EngPCs
<1>19. CASE PlanPauses
  BY <1>19, GotoEng DEF PlanPauses, EngPCs
<1>20. CASE PlanInterrupted
  <2>1. CASE Goto(Ctl, "idle")
    BY <2>1, GotoCtl DEF CtlPCs
  <2>2. CASE Goto(Eng, "outcome") \/ Goto(Eng, "interrupted")
    BY <2>2, GotoEng DEF EngPCs
  <2> QED
    BY <1>20, <2>1, <2>2 DEF PlanInterrupted
<1>21. CASE InterruptEngine
  BY <1>21, GotoCtl DEF InterruptEngine, CtlPCs
<1>22. CASE TestPaused
  BY <1>22, GotoCtl DEF TestPaused, CtlPCs
<1>23. CASE StoreDirective
  BY <1>23, GotoCtl DEF StoreDirective, CtlPCs
<1>24. CASE Resume
  BY <1>24, GotoCtl DEF Resume, Serving, Request, CtlPCs
<1>25. CASE CallDevice
  BY <1>25, GotoCtl DEF CallDevice, Serving, CtlPCs
<1>26. CASE CloseSequencer
  BY <1>26 DEF CloseSequencer, Serving, PcOK, TypeOK
<1>27. CASE Shutdown
  BY <1>27, GotoCtl DEF Shutdown, CtlPCs
<1>28. CASE Closed
  BY <1>28 DEF Closed, PcOK, TypeOK
<1>29. ASSUME NEW k \in Interrupts, Interrupt(k) PROVE PcOK'
  BY <1>29, GotoCtl DEF Interrupt, Serving, Request, CtlPCs
<1>30. CASE UNCHANGED vars
  BY <1>30 DEF vars, hostVars, engineVars, localVars, countVars, PcOK, TypeOK
<1> QED
  BY <1>1, <1>2, <1>3, <1>4, <1>5, <1>6, <1>7, <1>8, <1>9, <1>10, <1>11, <1>12, <1>13, <1>14, <1>15, <1>16, <1>17, <1>18, <1>19, <1>20, <1>21, <1>22, <1>23, <1>24, <1>25, <1>26, <1>27, <1>28, <1>29, <1>30 DEF Next, SeqStep, EngStep, EngineStep, CtlStep, CtlRequest, CloseStep

\* Every other variable keeps its type.
LEMMA DataKeep == HostInv /\ [Next]_vars => DataOK'
<1> SUFFICES ASSUME HostInv, [Next]_vars PROVE DataOK'
  OBVIOUS
<1> USE HostAssumption DEF HostInv, Goto, Threads, Eng, Ctl, Seq_, hostVars, engineVars, localVars, countVars
<1>1. CASE SeqReady
  BY <1>1 DEF SeqReady, DataOK, TypeOK, HandsOK, OnePlan
<1>2. CASE RunPlan
  BY <1>2 DEF RunPlan, DataOK, TypeOK, HandsOK, OnePlan
<1>3. CASE Submit
  <2>1. Append(commands, PlanCommand) \in Seq({PlanCommand, DeviceCommand, Poison})
    BY DEF DataOK, TypeOK
  <2>2. state # "closed" => plans + 1 \in 0..MaxPlans
    BY <1>3 DEF Submit, HandsOK, DataOK, TypeOK
  <2> QED
    BY <1>3, <2>1, <2>2 DEF Submit, DataOK, TypeOK
<1>4. CASE TakeResult
  BY <1>4 DEF TakeResult, Resolved, DataOK, TypeOK, HandsOK, OnePlan
<1>5. CASE TakeCommand
  <2>1. Head(commands) = PlanCommand => plans \in 1..MaxPlans
    <3>1. Head(commands) = commands[1] /\ Len(commands) >= 1
      BY <1>5 DEF TakeCommand, DataOK, TypeOK
    <3>2. Head(commands) = PlanCommand => PlanQueued
      BY <3>1 DEF PlanQueued, DataOK, TypeOK
    <3> QED
      BY <3>2, ExitNotNone DEF OnePlan, DataOK, TypeOK
  <2>2. Tail(commands) \in Seq({PlanCommand, DeviceCommand, Poison})
    BY <1>5 DEF TakeCommand, DataOK, TypeOK
  <2> QED
    BY <1>5, <2>1, <2>2 DEF TakeCommand, DataOK, TypeOK
<1>6. CASE PlanStarts
  BY <1>6 DEF PlanStarts, DataOK, TypeOK, HandsOK, OnePlan
<1>7. CASE CallEngine
  BY <1>7 DEF CallEngine, Exits, Interrupts, DataOK, TypeOK
<1>8. CASE LookAtEngine
  <2>1. exit' \in Exits \cup {Fatal, None}
    BY <1>8 DEF LookAtEngine, OutcomeFromEngine, Exits, Interrupts, DataOK, TypeOK
  <2> QED
    BY <1>8, <2>1 DEF LookAtEngine, OutcomeFromEngine, DataOK, TypeOK
<1>9. CASE EnterPause
  BY <1>9 DEF EnterPause, DataOK, TypeOK, HandsOK, OnePlan
<1>10. CASE TakeDirective
  BY <1>10 DEF TakeDirective, DataOK, TypeOK, HandsOK, OnePlan
<1>11. CASE LeavePause
  BY <1>11 DEF LeavePause, DataOK, TypeOK, HandsOK, OnePlan
<1>12. CASE ActOnDirective
  <2>1. asked' \in Interrupts \cup {None} /\ exit' \in Exits \cup {Fatal, None}
    BY <1>12 DEF ActOnDirective, InterruptOf, Requests, Kinds, Exits, HandsOK, DataOK, TypeOK
  <2> QED
    BY <1>12, <2>1 DEF ActOnDirective, DataOK, TypeOK
<1>13. CASE ClearItem
  <2>1. exit \in Exits \cup {Fatal} /\ plans \in 1..MaxPlans
    BY <1>13 DEF ClearItem, HandsOK, OnePlan, PlanPCs, DataOK, TypeOK
  <2>2. ended' \in [plan : 1..MaxPlans, exit : Exits] \cup {None}
    BY <1>13, <2>1 DEF ClearItem, DataOK, TypeOK
  <2> QED
    BY <1>13, <2>2 DEF ClearItem, DataOK, TypeOK
<1>14. CASE StoreOutcome
  <2>1. plans \in 1..MaxPlans /\ exit \in Exits
    BY <1>14 DEF StoreOutcome, HandsOK, OnePlan, OutcomeKept, PlanPCs, DataOK, TypeOK
  <2> QED
    BY <1>14, <2>1 DEF StoreOutcome, Assigns, KeepOutcome, DataOK, TypeOK
<1>15. CASE BackToIdle
  BY <1>15 DEF BackToIdle, Assigns, SetIdle, DataOK, TypeOK, HandsOK, OnePlan
<1>16. CASE ResolveFuture
  BY <1>16 DEF ResolveFuture, DataOK, TypeOK, HandsOK, OnePlan
<1>17. CASE DeviceDone
  BY <1>17 DEF DeviceDone, DataOK, TypeOK, HandsOK, OnePlan
<1>18. CASE PlanEnds
  BY <1>18 DEF PlanEnds, Exits, DataOK, TypeOK
<1>19. CASE PlanPauses
  BY <1>19 DEF PlanPauses, DataOK, TypeOK, HandsOK, OnePlan
<1>20. CASE PlanInterrupted
  BY <1>20 DEF PlanInterrupted, Exits, DataOK, TypeOK
<1>21. CASE InterruptEngine
  BY <1>21 DEF InterruptEngine, DataOK, TypeOK, HandsOK, OnePlan
<1>22. CASE TestPaused
  <2>1. [intent EXCEPT !.pause = pauses] \in Requests
    BY <1>22 DEF TestPaused, HandsOK, Requests, DataOK, TypeOK
  <2> QED
    BY <1>22, <2>1 DEF TestPaused, DataOK, TypeOK
<1>23. CASE StoreDirective
  BY <1>23 DEF StoreDirective, DataOK, TypeOK, HandsOK, OnePlan
<1>24. CASE Resume
  BY <1>24, RequestType DEF Resume, Kinds, DataOK, TypeOK
<1>25. CASE CallDevice
  BY <1>25 DEF CallDevice, Serving, DataOK, TypeOK, HandsOK, OnePlan
<1>26. CASE CloseSequencer
  BY <1>26 DEF CloseSequencer, Serving, DataOK, TypeOK, HandsOK, OnePlan
<1>27. CASE Shutdown
  BY <1>27 DEF Shutdown, DataOK, TypeOK, HandsOK, OnePlan
<1>28. CASE Closed
  BY <1>28 DEF Closed, DataOK, TypeOK, HandsOK, OnePlan
<1>29. ASSUME NEW k \in Interrupts, Interrupt(k) PROVE DataOK'
  BY <1>29, RequestType DEF Interrupt, Kinds, DataOK, TypeOK
<1>30. CASE UNCHANGED vars
  BY <1>30 DEF vars, hostVars, engineVars, localVars, countVars, DataOK, TypeOK, HandsOK, OnePlan
<1> QED
  BY <1>1, <1>2, <1>3, <1>4, <1>5, <1>6, <1>7, <1>8, <1>9, <1>10, <1>11, <1>12, <1>13, <1>14, <1>15, <1>16, <1>17, <1>18, <1>19, <1>20, <1>21, <1>22, <1>23, <1>24, <1>25, <1>26, <1>27, <1>28, <1>29, <1>30 DEF Next, SeqStep, EngStep, EngineStep, CtlStep, CtlRequest, CloseStep

\* Each thread keeps what the code it is in uses.
LEMMA HandsKeep == HostInv /\ [Next]_vars => HandsOK'
<1> SUFFICES ASSUME HostInv, [Next]_vars PROVE HandsOK'
  OBVIOUS
<1> USE HostAssumption DEF HostInv, Goto, Threads, Eng, Ctl, Seq_, hostVars, engineVars, localVars, countVars
<1>1. CASE SeqReady
  BY <1>1 DEF SeqReady, HandsOK, TypeOK, PcOK, DataOK
<1>2. CASE RunPlan
  BY <1>2 DEF RunPlan, HandsOK, TypeOK, PcOK, DataOK
<1>3. CASE Submit
  BY <1>3 DEF Submit, HandsOK, TypeOK, PcOK, DataOK
<1>4. CASE TakeResult
  BY <1>4 DEF TakeResult, Resolved, HandsOK, TypeOK, PcOK, DataOK
<1>5. CASE TakeCommand
  BY <1>5 DEF TakeCommand, HandsOK, TypeOK, PcOK, DataOK
<1>6. CASE PlanStarts
  BY <1>6 DEF PlanStarts, HandsOK, TypeOK, PcOK, DataOK
<1>7. CASE CallEngine
  BY <1>7, ExitNotNone DEF CallEngine, Raised, HandsOK, TypeOK, PcOK, DataOK
<1>8. CASE LookAtEngine
  BY <1>8, ExitNotNone DEF LookAtEngine, OutcomeFromEngine, Interrupts, HandsOK, TypeOK, PcOK, DataOK
<1>9. CASE EnterPause
  BY <1>9 DEF EnterPause, HandsOK, TypeOK, PcOK, DataOK
<1>10. CASE TakeDirective
  BY <1>10 DEF TakeDirective, HandsOK, TypeOK, PcOK, DataOK
<1>11. CASE LeavePause
  BY <1>11 DEF LeavePause, HandsOK, TypeOK, PcOK, DataOK
<1>12. CASE ActOnDirective
  BY <1>12, ExitNotNone DEF ActOnDirective, Raised, InterruptOf, HandsOK, TypeOK, PcOK, DataOK
<1>13. CASE ClearItem
  BY <1>13 DEF ClearItem, HandsOK, TypeOK, PcOK, DataOK
<1>14. CASE StoreOutcome
  BY <1>14 DEF StoreOutcome, Assigns, KeepOutcome, HandsOK, TypeOK, PcOK, DataOK
<1>15. CASE BackToIdle
  BY <1>15 DEF BackToIdle, Assigns, SetIdle, HandsOK, TypeOK, PcOK, DataOK
<1>16. CASE ResolveFuture
  BY <1>16 DEF ResolveFuture, HandsOK, TypeOK, PcOK, DataOK
<1>17. CASE DeviceDone
  BY <1>17 DEF DeviceDone, HandsOK, TypeOK, PcOK, DataOK
<1>18. CASE PlanEnds
  BY <1>18, ExitNotNone DEF PlanEnds, Raised, HandsOK, TypeOK, PcOK, DataOK
<1>19. CASE PlanPauses
  BY <1>19 DEF PlanPauses, HandsOK, TypeOK, PcOK, DataOK
<1>20. CASE PlanInterrupted
  BY <1>20 DEF PlanInterrupted, HandsOK, TypeOK, PcOK, DataOK
<1>21. CASE InterruptEngine
  BY <1>21 DEF InterruptEngine, HandsOK, TypeOK, PcOK, DataOK
<1>22. CASE TestPaused
  <2>1. [intent EXCEPT !.pause = pauses] # None
    BY <1>22 DEF TestPaused, HandsOK, TypeOK, DataOK, Requests
  <2> QED
    BY <1>22, <2>1 DEF TestPaused, HandsOK, TypeOK, PcOK
<1>23. CASE StoreDirective
  BY <1>23 DEF StoreDirective, HandsOK, TypeOK, PcOK, DataOK
<1>24. CASE Resume
  BY <1>24, RequestType DEF Resume, Serving, Kinds, HandsOK, TypeOK, PcOK, DataOK
<1>25. CASE CallDevice
  BY <1>25 DEF CallDevice, Serving, HandsOK, TypeOK, PcOK, DataOK
<1>26. CASE CloseSequencer
  BY <1>26 DEF CloseSequencer, Serving, HandsOK, TypeOK, PcOK, DataOK
<1>27. CASE Shutdown
  BY <1>27 DEF Shutdown, HandsOK, TypeOK, PcOK, DataOK
<1>28. CASE Closed
  BY <1>28 DEF Closed, HandsOK, TypeOK, PcOK, DataOK
<1>29. ASSUME NEW k \in Interrupts, Interrupt(k) PROVE HandsOK'
  BY <1>29, RequestType DEF Interrupt, Serving, Kinds, HandsOK, TypeOK, PcOK, DataOK
<1>30. CASE UNCHANGED vars
  BY <1>30 DEF vars, hostVars, engineVars, localVars, countVars, HandsOK, TypeOK, PcOK, DataOK
<1> QED
  BY <1>1, <1>2, <1>3, <1>4, <1>5, <1>6, <1>7, <1>8, <1>9, <1>10, <1>11, <1>12, <1>13, <1>14, <1>15, <1>16, <1>17, <1>18, <1>19, <1>20, <1>21, <1>22, <1>23, <1>24, <1>25, <1>26, <1>27, <1>28, <1>29, <1>30 DEF Next, SeqStep, EngStep, EngineStep, CtlStep, CtlRequest, CloseStep

\* At most one plan is on its way.
LEMMA OnePlanKeeps == HostInv /\ [Next]_vars => OnePlan'
<1> SUFFICES ASSUME HostInv, [Next]_vars PROVE OnePlan'
  OBVIOUS
<1> USE HostAssumption DEF HostInv, Goto, Threads, Eng, Ctl, Seq_, hostVars, engineVars, localVars, countVars
<1>1. CASE SeqReady
  BY <1>1 DEF SeqReady, TypeOK, PcOK, DataOK, HandsOK, OnePlan, PlanPCs, PlanQueued
<1>2. CASE RunPlan
  BY <1>2 DEF RunPlan, TypeOK, PcOK, DataOK, HandsOK, OnePlan, PlanPCs, PlanQueued
<1>3. CASE Submit
  <2>1. CASE state = "closed"
    BY <1>3, <2>1 DEF Submit, PlanQueued, TypeOK, PcOK, DataOK, OnePlan
  <2>2. CASE state # "closed"
    <3>1. PlanCommand \in {PlanCommand, DeviceCommand, Poison} /\ commands' = Append(commands, PlanCommand)
      BY <1>3, <2>2 DEF Submit
    <3>2. future = None /\ ~PlanQueued /\ pc[Eng] \notin PlanPCs
      BY <1>3, ExitNotNone DEF Submit, OnePlan
    <3>3. \A i \in 1..Len(commands) : commands[i] # PlanCommand
      BY <3>2 DEF PlanQueued
    <3>4. \A i, j \in 1..Len(commands') :
             commands'[i] = PlanCommand /\ commands'[j] = PlanCommand => i = j
      BY <3>1, <3>3, Appended DEF TypeOK
    <3>5. pc'[Eng] = pc[Eng] /\ pc'[Seq_] = "await" /\ plans' >= 1
      BY <1>3, <2>2 DEF Submit, TypeOK, PcOK, DataOK
    <3> QED
      BY <1>3, <2>2, <3>2, <3>4, <3>5 DEF Submit, OnePlan, PlanPCs
  <2> QED
    BY <2>1, <2>2
<1>4. CASE TakeResult
  <2>1. future # "pending" /\ UNCHANGED commands
    BY <1>4, ExitNotNone DEF TakeResult, Resolved, Exits, Interrupts
  <2>2. ~PlanQueued /\ ~PlanQueued' /\ pc[Eng] \notin PlanPCs
    BY <2>1 DEF OnePlan, PlanQueued
  <2> QED
    BY <1>4, <2>2 DEF TakeResult, TypeOK, PcOK, OnePlan
<1>5. CASE TakeCommand
  <2> DEFINE c == Head(commands)
  <2>1. /\ Len(commands) \in Nat /\ Len(commands) >= 1 /\ c = commands[1]
        /\ Len(commands') = Len(commands) - 1
        /\ \A i \in 1..Len(commands') : commands'[i] = commands[i + 1]
    BY <1>5 DEF TakeCommand, TypeOK, DataOK
  <2>2. \A i, j \in 1..Len(commands') :
           commands'[i] = PlanCommand /\ commands'[j] = PlanCommand => i = j
    BY <2>1 DEF OnePlan
  <2>3. PlanQueued' => PlanQueued
    BY <2>1 DEF PlanQueued
  <2>4. c = PlanCommand => PlanQueued /\ ~PlanQueued'
    BY <2>1 DEF PlanQueued, OnePlan
  <2>5. /\ c = PlanCommand => pc'[Eng] = "start"
        /\ c # PlanCommand => pc'[Eng] \in {"device", "ended"}
        /\ pc'[Seq_] = pc[Seq_] /\ pc[Eng] = "get"
    BY <1>5 DEF TakeCommand, PlanCommand, DeviceCommand, Poison, TypeOK, PcOK
  <2>6. /\ UNCHANGED <<state, future, plans, exit>>
        /\ currentItem' = IF c = PlanCommand THEN plans ELSE currentItem
    BY <1>5 DEF TakeCommand, PlanCommand, DeviceCommand, Poison
  <2> HIDE DEF c
  <2> QED
    BY <2>2, <2>3, <2>4, <2>5, <2>6 DEF OnePlan, PlanPCs
<1>6. CASE PlanStarts
  BY <1>6 DEF PlanStarts, TypeOK, PcOK, DataOK, HandsOK, OnePlan, PlanPCs, PlanQueued
<1>7. CASE CallEngine
  BY <1>7 DEF CallEngine, Raised, TypeOK, PcOK, DataOK, HandsOK, OnePlan, PlanPCs, PlanQueued
<1>8. CASE LookAtEngine
  BY <1>8 DEF LookAtEngine, OutcomeFromEngine, TypeOK, PcOK, DataOK, HandsOK, OnePlan, PlanPCs, PlanQueued
<1>9. CASE EnterPause
  BY <1>9 DEF EnterPause, TypeOK, PcOK, DataOK, HandsOK, OnePlan, PlanPCs, PlanQueued
<1>10. CASE TakeDirective
  BY <1>10 DEF TakeDirective, TypeOK, PcOK, DataOK, HandsOK, OnePlan, PlanPCs, PlanQueued
<1>11. CASE LeavePause
  BY <1>11 DEF LeavePause, TypeOK, PcOK, DataOK, HandsOK, OnePlan, PlanPCs, PlanQueued
<1>12. CASE ActOnDirective
  BY <1>12 DEF ActOnDirective, Raised, InterruptOf, TypeOK, PcOK, DataOK, HandsOK, OnePlan, PlanPCs, PlanQueued
<1>13. CASE ClearItem
  BY <1>13 DEF ClearItem, TypeOK, PcOK, DataOK, HandsOK, OnePlan, PlanPCs, PlanQueued
<1>14. CASE StoreOutcome
  BY <1>14 DEF StoreOutcome, Assigns, KeepOutcome, TypeOK, PcOK, DataOK, HandsOK, OnePlan, PlanPCs, PlanQueued
<1>15. CASE BackToIdle
  BY <1>15 DEF BackToIdle, Assigns, SetIdle, TypeOK, PcOK, DataOK, HandsOK, OnePlan, PlanPCs, PlanQueued
<1>16. CASE ResolveFuture
  <2>1. ~PlanQueued /\ ~PlanQueued' /\ future = "pending"
    BY <1>16 DEF ResolveFuture, OnePlan, PlanQueued, PlanPCs
  <2>2. future # None /\ pc[Seq_] = "await" /\ plans >= 1 /\ currentItem = None
    BY <1>16, <2>1, ExitNotNone DEF ResolveFuture, OnePlan
  <2>3. state = "running" => exit = Fatal
    BY <1>16, <2>1, <2>2, ExitNotNone DEF ResolveFuture, OnePlan
  <2>4. pc[Eng] = "resolve" /\ pc'[Eng] = "get" /\ pc'[Seq_] = pc[Seq_] /\ future' = exit
    BY <1>16 DEF ResolveFuture, TypeOK, PcOK
  <2>5. UNCHANGED <<state, currentItem, plans, commands>>
    BY <1>16 DEF ResolveFuture
  <2> QED
    BY <2>1, <2>2, <2>3, <2>4, <2>5 DEF OnePlan, PlanPCs
<1>17. CASE DeviceDone
  BY <1>17 DEF DeviceDone, TypeOK, PcOK, DataOK, HandsOK, OnePlan, PlanPCs, PlanQueued
<1>18. CASE PlanEnds
  BY <1>18 DEF PlanEnds, Raised, TypeOK, PcOK, DataOK, HandsOK, OnePlan, PlanPCs, PlanQueued
<1>19. CASE PlanPauses
  BY <1>19 DEF PlanPauses, TypeOK, PcOK, DataOK, HandsOK, OnePlan, PlanPCs, PlanQueued
<1>20. CASE PlanInterrupted
  BY <1>20 DEF PlanInterrupted, TypeOK, PcOK, DataOK, HandsOK, OnePlan, PlanPCs, PlanQueued
<1>21. CASE InterruptEngine
  BY <1>21 DEF InterruptEngine, TypeOK, PcOK, DataOK, HandsOK, OnePlan, PlanPCs, PlanQueued
<1>22. CASE TestPaused
  BY <1>22 DEF TestPaused, TypeOK, PcOK, DataOK, HandsOK, OnePlan, PlanPCs, PlanQueued
<1>23. CASE StoreDirective
  BY <1>23 DEF StoreDirective, TypeOK, PcOK, DataOK, HandsOK, OnePlan, PlanPCs, PlanQueued
<1>24. CASE Resume
  BY <1>24 DEF Resume, Serving, Request, TypeOK, PcOK, DataOK, HandsOK, OnePlan, PlanPCs, PlanQueued
<1>25. CASE CallDevice
  <2>1. DeviceCommand \in {PlanCommand, DeviceCommand, Poison} /\ DeviceCommand # PlanCommand
    BY DEF PlanCommand, DeviceCommand, Poison
  <2>2. commands' = Append(commands, DeviceCommand)
    BY <1>25 DEF CallDevice
  <2>3. PlanQueued' => PlanQueued
    BY <2>1, <2>2, Appended DEF PlanQueued, TypeOK
  <2>4. \A i, j \in 1..Len(commands') :
           commands'[i] = PlanCommand /\ commands'[j] = PlanCommand => i = j
    BY <2>1, <2>2, Appended DEF OnePlan, TypeOK
  <2> QED
    BY <1>25, <2>3, <2>4 DEF CallDevice, Serving, TypeOK, PcOK, DataOK, HandsOK, OnePlan
<1>26. CASE CloseSequencer
  BY <1>26 DEF CloseSequencer, Serving, TypeOK, PcOK, DataOK, HandsOK, OnePlan, PlanPCs, PlanQueued
<1>27. CASE Shutdown
  <2>1. Poison \in {PlanCommand, DeviceCommand, Poison} /\ Poison # PlanCommand
    BY DEF PlanCommand, DeviceCommand, Poison
  <2>2. commands' = Append(commands, Poison)
    BY <1>27 DEF Shutdown
  <2>3. PlanQueued' => PlanQueued
    BY <2>1, <2>2, Appended DEF PlanQueued, TypeOK
  <2>4. \A i, j \in 1..Len(commands') :
           commands'[i] = PlanCommand /\ commands'[j] = PlanCommand => i = j
    BY <2>1, <2>2, Appended DEF OnePlan, TypeOK
  <2> QED
    BY <1>27, <2>3, <2>4 DEF Shutdown, TypeOK, PcOK, DataOK, HandsOK, OnePlan
<1>28. CASE Closed
  BY <1>28 DEF Closed, TypeOK, PcOK, DataOK, HandsOK, OnePlan, PlanPCs, PlanQueued
<1>29. ASSUME NEW k \in Interrupts, Interrupt(k) PROVE OnePlan'
  BY <1>29 DEF Interrupt, Serving, Request, TypeOK, PcOK, DataOK, HandsOK, OnePlan, PlanPCs, PlanQueued
<1>30. CASE UNCHANGED vars
  BY <1>30 DEF vars, hostVars, engineVars, localVars, countVars, TypeOK, PcOK, DataOK, HandsOK, OnePlan, PlanPCs, PlanQueued
<1> QED
  BY <1>1, <1>2, <1>3, <1>4, <1>5, <1>6, <1>7, <1>8, <1>9, <1>10, <1>11, <1>12, <1>13, <1>14, <1>15, <1>16, <1>17, <1>18, <1>19, <1>20, <1>21, <1>22, <1>23, <1>24, <1>25, <1>26, <1>27, <1>28, <1>29, <1>30 DEF Next, SeqStep, EngStep, EngineStep, CtlStep, CtlRequest, CloseStep

\* The outcome is kept before the state says idle.
LEMMA OutcomesKeep == HostInv /\ [Next]_vars => OutcomeKept'
<1> SUFFICES ASSUME HostInv, [Next]_vars PROVE OutcomeKept'
  OBVIOUS
<1> USE HostAssumption DEF HostInv, Goto, Threads, Eng, Ctl, Seq_, hostVars, engineVars, localVars, countVars
<1>1. CASE SeqReady
  BY <1>1 DEF SeqReady, TypeOK, PcOK, DataOK, HandsOK, OnePlan, OutcomeKept, PlanPCs
<1>2. CASE RunPlan
  BY <1>2 DEF RunPlan, TypeOK, PcOK, DataOK, HandsOK, OnePlan, OutcomeKept, PlanPCs
<1>3. CASE Submit
  <2>1. CASE state = "closed"
    BY <1>3, <2>1 DEF Submit, TypeOK, PcOK, OutcomeKept
  <2>2. CASE state # "closed"
    <3>1. /\ plans' = plans + 1 /\ plans \in Nat /\ future' = "pending"
          /\ UNCHANGED <<lastOutcome, ended, exit, state>>
      BY <1>3, <2>2 DEF Submit, TypeOK, DataOK
    <3>2. pc[Eng] \notin PlanPCs /\ pc'[Eng] = pc[Eng]
      BY <1>3, ExitNotNone DEF Submit, OnePlan, TypeOK, PcOK
    <3>3. lastOutcome # None => lastOutcome.plan \in Nat
      BY DEF TypeOK, DataOK
    <3> QED
      BY <3>1, <3>2, <3>3 DEF OutcomeKept, PlanPCs, Exits, Interrupts
  <2> QED
    BY <2>1, <2>2
<1>4. CASE TakeResult
  BY <1>4 DEF TakeResult, Resolved, TypeOK, PcOK, DataOK, HandsOK, OnePlan, OutcomeKept, PlanPCs
<1>5. CASE TakeCommand
  BY <1>5 DEF TakeCommand, TypeOK, PcOK, DataOK, HandsOK, OnePlan, OutcomeKept, PlanPCs
<1>6. CASE PlanStarts
  BY <1>6 DEF PlanStarts, TypeOK, PcOK, DataOK, HandsOK, OnePlan, OutcomeKept, PlanPCs
<1>7. CASE CallEngine
  BY <1>7 DEF CallEngine, Raised, TypeOK, PcOK, DataOK, HandsOK, OnePlan, OutcomeKept, PlanPCs
<1>8. CASE LookAtEngine
  BY <1>8 DEF LookAtEngine, OutcomeFromEngine, TypeOK, PcOK, DataOK, HandsOK, OnePlan, OutcomeKept, PlanPCs
<1>9. CASE EnterPause
  BY <1>9 DEF EnterPause, TypeOK, PcOK, DataOK, HandsOK, OnePlan, OutcomeKept, PlanPCs
<1>10. CASE TakeDirective
  BY <1>10 DEF TakeDirective, TypeOK, PcOK, DataOK, HandsOK, OnePlan, OutcomeKept, PlanPCs
<1>11. CASE LeavePause
  BY <1>11 DEF LeavePause, TypeOK, PcOK, DataOK, HandsOK, OnePlan, OutcomeKept, PlanPCs
<1>12. CASE ActOnDirective
  BY <1>12 DEF ActOnDirective, Raised, InterruptOf, TypeOK, PcOK, DataOK, HandsOK, OnePlan, OutcomeKept, PlanPCs
<1>13. CASE ClearItem
  BY <1>13 DEF ClearItem, TypeOK, PcOK, DataOK, HandsOK, OnePlan, OutcomeKept, PlanPCs
<1>14. CASE StoreOutcome
  <2>1. /\ lastOutcome' = [plan |-> plans, exit |-> exit]
        /\ pc'[Eng] = "setIdle" /\ UNCHANGED <<plans, exit, future, ended, state>>
    BY <1>14 DEF StoreOutcome, Assigns, KeepOutcome, TypeOK, PcOK
  <2>2. future = "pending" /\ plans \in Nat /\ state # "idle"
        /\ ended = [plan |-> plans, exit |-> exit]
    BY <1>14 DEF StoreOutcome, OnePlan, OutcomeKept, PlanPCs, TypeOK, DataOK
  <2> QED
    BY <2>1, <2>2 DEF OutcomeKept, PlanPCs
<1>15. CASE BackToIdle
  BY <1>15 DEF BackToIdle, Assigns, SetIdle, TypeOK, PcOK, DataOK, HandsOK, OnePlan, OutcomeKept, PlanPCs
<1>16. CASE ResolveFuture
  <2>1. /\ pc[Eng] = "resolve" /\ pc'[Eng] = "get" /\ future' # "pending"
        /\ UNCHANGED <<lastOutcome, ended, plans, state>>
    BY <1>16, ExitNotNone DEF ResolveFuture, HandsOK, TypeOK, PcOK, DataOK, Exits, Interrupts
  <2> QED
    BY <2>1 DEF OutcomeKept, PlanPCs
<1>17. CASE DeviceDone
  BY <1>17 DEF DeviceDone, TypeOK, PcOK, DataOK, HandsOK, OnePlan, OutcomeKept, PlanPCs
<1>18. CASE PlanEnds
  BY <1>18 DEF PlanEnds, Raised, TypeOK, PcOK, DataOK, HandsOK, OnePlan, OutcomeKept, PlanPCs
<1>19. CASE PlanPauses
  BY <1>19 DEF PlanPauses, TypeOK, PcOK, DataOK, HandsOK, OnePlan, OutcomeKept, PlanPCs
<1>20. CASE PlanInterrupted
  BY <1>20 DEF PlanInterrupted, TypeOK, PcOK, DataOK, HandsOK, OnePlan, OutcomeKept, PlanPCs
<1>21. CASE InterruptEngine
  BY <1>21 DEF InterruptEngine, TypeOK, PcOK, DataOK, HandsOK, OnePlan, OutcomeKept, PlanPCs
<1>22. CASE TestPaused
  BY <1>22 DEF TestPaused, TypeOK, PcOK, DataOK, HandsOK, OnePlan, OutcomeKept, PlanPCs
<1>23. CASE StoreDirective
  BY <1>23 DEF StoreDirective, TypeOK, PcOK, DataOK, HandsOK, OnePlan, OutcomeKept, PlanPCs
<1>24. CASE Resume
  BY <1>24 DEF Resume, Serving, Request, TypeOK, PcOK, DataOK, HandsOK, OnePlan, OutcomeKept, PlanPCs
<1>25. CASE CallDevice
  BY <1>25 DEF CallDevice, Serving, TypeOK, PcOK, DataOK, HandsOK, OnePlan, OutcomeKept, PlanPCs
<1>26. CASE CloseSequencer
  BY <1>26 DEF CloseSequencer, Serving, TypeOK, PcOK, DataOK, HandsOK, OnePlan, OutcomeKept, PlanPCs
<1>27. CASE Shutdown
  BY <1>27 DEF Shutdown, TypeOK, PcOK, DataOK, HandsOK, OnePlan, OutcomeKept, PlanPCs
<1>28. CASE Closed
  BY <1>28 DEF Closed, TypeOK, PcOK, DataOK, HandsOK, OnePlan, OutcomeKept, PlanPCs
<1>29. ASSUME NEW k \in Interrupts, Interrupt(k) PROVE OutcomeKept'
  BY <1>29 DEF Interrupt, Serving, Request, TypeOK, PcOK, DataOK, HandsOK, OnePlan, OutcomeKept, PlanPCs
<1>30. CASE UNCHANGED vars
  BY <1>30 DEF vars, hostVars, engineVars, localVars, countVars, TypeOK, PcOK, DataOK, HandsOK, OnePlan, OutcomeKept, PlanPCs
<1> QED
  BY <1>1, <1>2, <1>3, <1>4, <1>5, <1>6, <1>7, <1>8, <1>9, <1>10, <1>11, <1>12, <1>13, <1>14, <1>15, <1>16, <1>17, <1>18, <1>19, <1>20, <1>21, <1>22, <1>23, <1>24, <1>25, <1>26, <1>27, <1>28, <1>29, <1>30 DEF Next, SeqStep, EngStep, EngineStep, CtlStep, CtlRequest, CloseStep

\* Every reachable state satisfies the invariant.
THEOREM HostInvariant == Spec => []HostInv
<1>1. Init => HostInv
  <2> USE HostAssumption DEF Init, Threads, Eng, Ctl, Seq_
  <2>1. Init => PcOK
    BY DEF PcOK, EngPCs, CtlPCs, SeqPCs
  <2>2. Init => DataOK
    <3>1. Init => commands \in Seq({PlanCommand, DeviceCommand, Poison})
      OBVIOUS
    <3>2. 0 \in 0..MaxPlans /\ 0 \in 0..MaxPauses
      OBVIOUS
    <3> QED
      BY <3>1, <3>2, Zenon DEF DataOK
  <2>3. Init => HandsOK
    BY DEF HandsOK
  <2>4. Init => OnePlan
    BY DEF OnePlan, PlanQueued, PlanPCs
  <2>5. Init => OutcomeKept
    BY ExitNotNone DEF OutcomeKept, PlanPCs
  <2> QED
    BY <2>1, <2>2, <2>3, <2>4, <2>5 DEF HostInv, TypeOK
<1>2. HostInv /\ [Next]_vars => HostInv'
  BY PcsKeep, DataKeep, HandsKeep, OnePlanKeeps, OutcomesKeep DEF HostInv, TypeOK
<1> QED
  BY <1>1, <1>2, PTL DEF Spec

\* The engine is idle, or the host closed, when the sequencer submits a plan
\* (run_plan): the poll of _should_run is not stale when it is used.
THEOREM NeverRefused == Spec => []PlanNotRefused
<1>1. HostInv => PlanNotRefused
  BY ExitNotNone DEF HostInv, TypeOK, DataOK, OnePlan, PlanPCs, PlanNotRefused
<1> QED
  BY <1>1, HostInvariant, PTL

\* Whoever reads "idle" can read the outcome of the plan that ended last, from the
\* moment the state says so until the next plan begins, and while a plan is the
\* current one nobody takes an outcome for its own (_run_plan_on_thread).
THEOREM OutcomeKnown == Spec => []OutcomeWithIdle
<1>1. HostInv => OutcomeWithIdle
  BY ExitNotNone DEF HostInv, OnePlan, OutcomeKept, PlanPCs, OutcomeWithIdle
<1> QED
  BY <1>1, HostInvariant, PTL
=================================================================================
