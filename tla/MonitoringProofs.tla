---------------------------- MODULE MonitoringProofs ----------------------------
(***************************************************************************)
(* Theorems about what the service tells its clients of the running plan:  *)
(* a device that is done stays done, a plan that has fallen quiet is       *)
(* reported, once, and what is printed arrives in order and is not lost.   *)
(* A step is one of one part, so each part has an invariant of its own.    *)
(***************************************************************************)
EXTENDS Monitoring, SequenceLemmas, TLAPS

-----------------------------------------------------------------------------
(* The progress of devices. *)

\* What is known of each status is known of every status.
KnownOfEach == payload \in Pictures

LEMMA KnownOfEachStep ==
  ASSUME KnownOfEach, [ProgressNext]_progressVars
  PROVE  KnownOfEach'
  <1> USE DEF KnownOfEach, Pictures
  <1>1. CASE HookStep
    BY <1>1 DEF HookStep, BeginWait, WatchStatus, EndWait, ClearMaps, Nothing
  <1>2. CASE StatusStep
    BY <1>2 DEF StatusStep, Finish, CompletionRuns, UpdateRuns, UpdateLock, UpdateEmit, OnDoneRead,
                OnDoneWrite, OnDoneEmit
  <1>3. CASE UNCHANGED progressVars
    BY <1>3 DEF progressVars
  <1> QED
    BY <1>1, <1>2, <1>3 DEF ProgressNext

\* A step takes back what was reported as done only when the wait is over and the maps are cleared.
LEMMA DoneStaysStep ==
  ASSUME KnownOfEach, ProgressNext
  PROVE  \A s \in Statuses : payload[s] = "done" => payload'[s] = "done" \/ hook = "clearing"
  <1> SUFFICES ASSUME NEW s \in Statuses, payload[s] = "done"
               PROVE  payload'[s] = "done" \/ hook = "clearing"
    OBVIOUS
  <1> USE DEF KnownOfEach, Pictures
  <1>1. CASE HookStep
    BY <1>1 DEF HookStep, BeginWait, WatchStatus, EndWait, ClearMaps
  <1>2. ASSUME NEW t \in Statuses, UpdateLock(t)
        PROVE  payload'[s] = "done"
    BY <1>2 DEF UpdateLock, Reported
  <1>3. ASSUME NEW t \in Statuses, OnDoneWrite(t)
        PROVE  payload'[s] = "done"
    BY <1>3 DEF OnDoneWrite
  <1>4. CASE StatusStep
    BY <1>2, <1>3, <1>4 DEF StatusStep, Finish, CompletionRuns, UpdateRuns, UpdateEmit, OnDoneRead,
                            OnDoneEmit
  <1> QED
    BY <1>1, <1>4 DEF ProgressNext

\* "completion already reported" (progress.py): within a wait, a status that was once recorded as done
\* is not moving again, whichever callbacks race and however many statuses there are.
THEOREM DoneIsFinal == MonitoringSpec => DoneStaysDone
  <1>1. MonitoringInit => KnownOfEach
    BY DEF MonitoringInit, ProgressInit, KnownOfEach, Pictures, Nothing
  <1>2. [MonitoringNext]_monitoringVars => [ProgressNext]_progressVars
    BY DEF MonitoringNext, monitoringVars, progressVars
  <1>3. KnownOfEach /\ [ProgressNext]_progressVars => KnownOfEach'
    BY KnownOfEachStep
  <1>4. KnownOfEach /\ [ProgressNext]_progressVars =>
          [\A s \in Statuses : payload[s] = "done" => payload'[s] = "done" \/ hook = "clearing"]_progressVars
    BY DoneStaysStep
  <1> QED
    BY <1>1, <1>2, <1>3, <1>4, PTL DEF MonitoringSpec, DoneStaysDone

-----------------------------------------------------------------------------
(* The stall alarm.  A tick needs a document, so the count is compared with    *)
(* the last one in every tick: from the second tick of a quiet plan on the two *)
(* are equal, whatever was read while the plan still collected.  A warning     *)
(* that was given and not been followed by anything leaves the alarm as it is. *)

AlarmType ==
  /\ asked \in BOOLEAN /\ running \in BOOLEAN /\ paused \in BOOLEAN
  /\ announced \in BOOLEAN /\ stalled \in BOOLEAN
  /\ news \in BOOLEAN /\ meanwhile \in BOOLEAN /\ repeated \in BOOLEAN
  /\ building \in {"no", "total"}

CountsType ==
  /\ clock \in Nat /\ events \in Nat /\ lastCollected \in Nat /\ total \in Nat
  /\ lastProgressAt \in Nat /\ lastProgressAt <= clock
  /\ quietFrom \in Nat /\ quietFrom <= clock

\* The alarm has seen that the running plan is quiet.
Noticed ==
  running =>
    /\ lastProgressAt <= quietFrom + 1
    /\ clock > quietFrom + 1 \/ (clock = quietFrom + 1 /\ asked) => lastCollected = events
    /\ building = "total" /\ (clock > quietFrom \/ ~meanwhile) => total = events

\* Nothing has happened since the warning.
SinceTheWarning ==
  running /\ ~news =>
    announced /\ lastCollected = events /\ (building = "total" => total = events)

AlarmInv == AlarmType /\ CountsType /\ Noticed /\ SinceTheWarning /\ QuietPlanIsReported /\ OneWarningPerQuiet

LEMMA AlarmBegins == StallInit => AlarmInv
  <1> SUFFICES ASSUME StallInit PROVE AlarmInv
    OBVIOUS
  <1> USE StallAssumption DEF StallInit
  <1>1. AlarmType
    BY DEF AlarmType
  <1>2. CountsType
    BY DEF CountsType
  <1>3. Noticed /\ SinceTheWarning /\ QuietPlanIsReported /\ OneWarningPerQuiet
    BY DEF Noticed, SinceTheWarning, QuietPlanIsReported, OneWarningPerQuiet
  <1> QED
    BY <1>1, <1>2, <1>3 DEF AlarmInv

\* The plan's own steps.
LEMMA PlanKeepsAlarm ==
  ASSUME AlarmInv, PlanStep
  PROVE  AlarmInv'
  <1> USE DEF AlarmInv, planVars, alarmVars
  <1>1. AlarmType'
    BY DEF AlarmType, PlanStep, BeginPlan, Collect, CloseRun, Pause, Resume, EndPlan, Fresh
  <1>2. CountsType'
    BY DEF CountsType, PlanStep, BeginPlan, Collect, CloseRun, Pause, Resume, EndPlan, Fresh
  <1>3. CASE BeginPlan \/ Collect \/ CloseRun \/ Resume
    <2>1. quietFrom' = clock /\ clock' = clock /\ news' /\ meanwhile' /\ lastProgressAt' <= clock
          /\ repeated' = repeated
      BY <1>3 DEF BeginPlan, Collect, CloseRun, Resume, Fresh, CountsType
    <2>2. Noticed'
      BY <1>2, <2>1 DEF Noticed, CountsType
    <2>3. SinceTheWarning' /\ OneWarningPerQuiet'
      BY <2>1 DEF SinceTheWarning, OneWarningPerQuiet
    <2>4. QuietPlanIsReported'
      BY <1>2, <2>1, StallAssumption DEF QuietPlanIsReported, CountsType
    <2> QED
      BY <1>1, <1>2, <2>2, <2>3, <2>4
  <1>4. CASE Pause \/ EndPlan
    <2>1. ~running' /\ repeated' = repeated
      BY <1>4 DEF Pause, EndPlan
    <2> QED
      BY <1>1, <1>2, <2>1 DEF Noticed, SinceTheWarning, QuietPlanIsReported, OneWarningPerQuiet
  <1> QED
    BY <1>3, <1>4 DEF PlanStep

\* The count is read.
LEMMA ReadKeepsAlarm ==
  ASSUME AlarmInv, ReadTotal
  PROVE  AlarmInv'
  <1> USE DEF AlarmInv, planVars, ReadTotal
  <1>1. AlarmType'
    BY DEF AlarmType
  <1>2. CountsType'
    BY DEF CountsType
  <1>3. Noticed' /\ SinceTheWarning'
    BY DEF Noticed, SinceTheWarning
  <1>4. QuietPlanIsReported' /\ OneWarningPerQuiet'
    BY DEF QuietPlanIsReported, OneWarningPerQuiet
  <1> QED
    BY <1>1, <1>2, <1>3, <1>4

\* The document is made.
LEMMA DecideKeepsAlarm ==
  ASSUME AlarmInv, Decide
  PROVE  AlarmInv'
  <1> USE DEF AlarmInv, planVars
  <1>0. UNCHANGED <<clock, running, events, quietFrom>> /\ building = "total" /\ building' = "no"
    BY DEF Decide
  <1>1. AlarmType'
    BY DEF AlarmType, Decide, Warn
  <1>2. CountsType'
    BY DEF CountsType, Decide
  <1>3. CASE Progress
    <2>1. /\ lastCollected' = total /\ lastProgressAt' = clock
          /\ repeated' = repeated /\ news' = news
          /\ stalled' = (running /\ clock - clock >= StallAfter)
      BY <1>3 DEF Decide, LongEnough
    <2>2. running /\ clock > quietFrom => total = events
      BY <1>0 DEF Noticed
    <2>3. running => clock <= quietFrom + 1
      BY <1>0, <1>3, <2>2 DEF Noticed, CountsType, Progress
    <2>4. Noticed'
      BY <1>0, <2>1, <2>2, <2>3 DEF Noticed, CountsType
    <2>5. ~(running /\ ~news)
      BY <1>0, <1>3 DEF SinceTheWarning, Progress
    <2>6. SinceTheWarning'
      BY <1>0, <2>1, <2>5 DEF SinceTheWarning
    <2>7. QuietPlanIsReported'
      BY <1>0, <2>3, StallAssumption DEF QuietPlanIsReported, CountsType
    <2> QED
      BY <1>1, <1>2, <2>1, <2>4, <2>6, <2>7 DEF OneWarningPerQuiet
  <1>4. CASE ~Progress
    <2>1. /\ lastCollected' = lastCollected /\ lastProgressAt' = lastProgressAt
          /\ running /\ total = lastCollected
          /\ stalled' = (clock - lastProgressAt >= StallAfter)
          /\ announced' = (announced \/ stalled')
          /\ news' = IF stalled' /\ ~announced THEN meanwhile ELSE news
          /\ repeated' = (repeated \/ (stalled' /\ ~announced /\ ~news))
      BY <1>4 DEF Decide, LongEnough, Progress, Warn, AlarmType
    <2>2. Noticed'
      BY <1>0, <2>1 DEF Noticed, CountsType
    <2>3. SinceTheWarning'
      BY <1>0, <2>1 DEF SinceTheWarning, Noticed
    <2>4. QuietPlanIsReported'
      <3>1. clock - quietFrom > StallAfter => clock - lastProgressAt >= StallAfter
        BY <2>1, StallAssumption DEF Noticed, CountsType
      <3> QED
        BY <1>0, <2>1, <3>1 DEF QuietPlanIsReported
    <2>5. OneWarningPerQuiet'
      BY <2>1 DEF OneWarningPerQuiet, SinceTheWarning
    <2> QED
      BY <1>1, <1>2, <2>2, <2>3, <2>4, <2>5
  <1> QED
    BY <1>3, <1>4

LEMMA AlarmStep ==
  ASSUME AlarmInv, [StallNext]_stallVars
  PROVE  AlarmInv'
  <1>1. CASE Tick
    <2> USE DEF AlarmInv
    <2>0. /\ building = "no" /\ building' = "no" /\ asked /\ asked' = FALSE /\ clock' = clock + 1
          /\ UNCHANGED <<running, paused, events, quietFrom, total, lastCollected, lastProgressAt, announced,
                         stalled, news, meanwhile, repeated>>
      BY <1>1 DEF Tick, planVars, alarmVars
    <2>1. AlarmType' /\ CountsType'
      <3>1. AlarmType'
        BY <2>0 DEF AlarmType
      <3>2. CountsType'
        BY <2>0 DEF CountsType
      <3> QED
        BY <3>1, <3>2
    <2>2. Noticed'
      BY <2>0 DEF Noticed, CountsType
    <2>3. SinceTheWarning' /\ QuietPlanIsReported' /\ OneWarningPerQuiet'
      BY <2>0 DEF SinceTheWarning, QuietPlanIsReported, OneWarningPerQuiet
    <2> QED
      BY <2>1, <2>2, <2>3
  <1>2. CASE UNCHANGED stallVars
    BY <1>2 DEF stallVars, planVars, alarmVars, AlarmInv, AlarmType, CountsType, Noticed, SinceTheWarning,
                QuietPlanIsReported, OneWarningPerQuiet
  <1> QED
    BY <1>1, <1>2, PlanKeepsAlarm, ReadKeepsAlarm, DecideKeepsAlarm DEF StallNext

\* Whatever the plan did before, and whenever it did it while a document was being built.
LEMMA AlarmHolds == MonitoringSpec => []AlarmInv
  <1>1. MonitoringInit => AlarmInv
    BY AlarmBegins DEF MonitoringInit
  <1>2. [MonitoringNext]_monitoringVars => [StallNext]_stallVars
    BY DEF MonitoringNext, monitoringVars, stallVars
  <1>3. AlarmInv /\ [StallNext]_stallVars => AlarmInv'
    BY AlarmStep
  <1> QED
    BY <1>1, <1>2, <1>3, PTL DEF MonitoringSpec

\* A plan that has been running and has collected nothing for stall_after, and one tick for the change to
\* be noticed, is called stalled by the next document (status.py:67-90), whatever stall_after is.
THEOREM QuietIsReported == MonitoringSpec => []QuietPlanIsReported
  BY AlarmHolds, PTL DEF AlarmInv

\* The log gets one warning for each time a plan falls quiet (status.py:83-84).
THEOREM WarnsOnce == MonitoringSpec => []OneWarningPerQuiet
  BY AlarmHolds, PTL DEF AlarmInv

-----------------------------------------------------------------------------
(* What is printed.                                                            *)

\* A line that a thread has split off, or that went further, is not empty.
WholeLines == Lines \ {<<>>}

PrintType ==
  /\ fed \in Nat /\ feedsLeft \in Nat /\ fed + feedsLeft <= MaxFeeds
  /\ pending \in Lines
  /\ split \in [Writers -> Seq(WholeLines)] /\ unsaid \in [Writers -> Lines]
  /\ scheduled \in Seq(WholeLines) /\ box \in Seq(WholeLines) /\ sent \in Seq(WholeLines)
  /\ appended \in Seq(WholeLines)

\* The pieces of the text that is written next.
NextPiece(k) == [feed |-> fed + 1, part |-> k]

\* What a text does, by its newlines and whether something follows the last.
FeedDoes(w) ==
  \/ /\ split' = split
     /\ pending' = Append(pending, NextPiece(1)) /\ printed' = printed \cup {NextPiece(1)}
  \/ /\ split' = [split EXCEPT ![w] = <<Append(pending, NextPiece(1))>>]
     /\ \/ pending' = <<>> /\ printed' = printed \cup {NextPiece(1)}
        \/ pending' = <<NextPiece(2)>> /\ printed' = printed \cup {NextPiece(1), NextPiece(2)}
  \/ /\ split' = [split EXCEPT ![w] = <<Append(pending, NextPiece(1)), <<NextPiece(2)>>>>]
     /\ pending' = <<>> /\ printed' = printed \cup {NextPiece(1), NextPiece(2)}

FeedStep == \E w \in Writers : Feed(w, 0, 1) \/ Feed(w, 1, 0) \/ Feed(w, 1, 1) \/ Feed(w, 2, 0)

LEMMA TextIs ==
  /\ TextOf(fed + 1, 1) = <<NextPiece(1)>>
  /\ TextOf(fed + 1, 2) = <<NextPiece(1), NextPiece(2)>>
  BY DEF TextOf, NextPiece

LEMMA FeedIs ==
  ASSUME PrintType, FeedStep
  PROVE  \E w \in Writers :
           /\ FeedDoes(w)
           /\ split[w] = <<>> /\ unsaid[w] = <<>> /\ feedsLeft > 0
           /\ feedsLeft' = feedsLeft - 1 /\ fed' = fed + 1
           /\ UNCHANGED <<unsaid, messages, uid, appended, socketVars, pollVars>>
           /\ NextPiece(1) \in Pieces /\ NextPiece(2) \in Pieces
  <1> PICK w \in Writers : Feed(w, 0, 1) \/ Feed(w, 1, 0) \/ Feed(w, 1, 1) \/ Feed(w, 2, 0)
    BY DEF FeedStep
  <1>1. /\ split[w] = <<>> /\ unsaid[w] = <<>> /\ feedsLeft > 0
        /\ feedsLeft' = feedsLeft - 1 /\ fed' = fed + 1
        /\ UNCHANGED <<unsaid, messages, uid, appended, socketVars, pollVars>>
    BY DEF Feed
  <1>2. NextPiece(1) \in Pieces /\ NextPiece(2) \in Pieces
    BY <1>1, ConsoleAssumption DEF PrintType, NextPiece, Pieces
  <1>3. /\ ToSet(<<NextPiece(1)>>) = {NextPiece(1)}
        /\ ToSet(<<NextPiece(1), NextPiece(2)>>) = {NextPiece(1), NextPiece(2)}
    BY DEF ToSet
  <1> DEFINE line1(t) == [k \in 1..1 |-> IF k = 1 THEN FirstLine(pending, t[1]) ELSE <<t[k]>>]
             line2(t) == [k \in 1..2 |-> IF k = 1 THEN FirstLine(pending, t[1]) ELSE <<t[k]>>]
  <1>4. /\ line1(<<NextPiece(1)>>) = <<Append(pending, NextPiece(1))>>
        /\ line1(<<NextPiece(1), NextPiece(2)>>) = <<Append(pending, NextPiece(1))>>
    BY DEF FirstLine
  <1>5. line2(<<NextPiece(1), NextPiece(2)>>) = <<Append(pending, NextPiece(1)), <<NextPiece(2)>>>>
    BY DEF FirstLine
  <1>6. FeedDoes(w)
    <2>1. CASE Feed(w, 0, 1)
      <3>1. /\ split' = split /\ pending' = FirstLine(pending, TextOf(fed + 1, 0 + 1)[1])
            /\ printed' = printed \cup ToSet(TextOf(fed + 1, 0 + 1))
        BY <2>1 DEF Feed
      <3> QED
        BY <1>3, <3>1, TextIs DEF FeedDoes, FirstLine
    <2>2. CASE Feed(w, 1, 0)
      <3>1. TextOf(fed + 1, 1 + 0) = <<NextPiece(1)>>
        BY TextIs
      <3>2. split' = [split EXCEPT ![w] = line1(TextOf(fed + 1, 1 + 0))]
        BY <2>2 DEF Feed
      <3>3. split' = [split EXCEPT ![w] = <<Append(pending, NextPiece(1))>>]
        BY <1>4, <3>1, <3>2
      <3>4. pending' = <<>> /\ printed' = printed \cup ToSet(TextOf(fed + 1, 1 + 0))
        BY <2>2, <3>1 DEF Feed
      <3> QED
        BY <1>3, <3>1, <3>3, <3>4 DEF FeedDoes
    <2>3. CASE Feed(w, 1, 1)
      <3>1. TextOf(fed + 1, 1 + 1) = <<NextPiece(1), NextPiece(2)>>
        BY TextIs
      <3>2. split' = [split EXCEPT ![w] = line1(TextOf(fed + 1, 1 + 1))]
        BY <2>3 DEF Feed
      <3>3. split' = [split EXCEPT ![w] = <<Append(pending, NextPiece(1))>>]
        BY <1>4, <3>1, <3>2
      <3>4. pending' = <<NextPiece(2)>> /\ printed' = printed \cup ToSet(TextOf(fed + 1, 1 + 1))
        BY <2>3, <3>1 DEF Feed
      <3> QED
        BY <1>3, <3>1, <3>3, <3>4 DEF FeedDoes
    <2>4. CASE Feed(w, 2, 0)
      <3>1. TextOf(fed + 1, 2 + 0) = <<NextPiece(1), NextPiece(2)>>
        BY TextIs
      <3>2. split' = [split EXCEPT ![w] = line2(TextOf(fed + 1, 2 + 0))]
        BY <2>4 DEF Feed
      <3>3. split' = [split EXCEPT ![w] = <<Append(pending, NextPiece(1)), <<NextPiece(2)>>>>]
        BY <1>5, <3>1, <3>2
      <3>4. pending' = <<>> /\ printed' = printed \cup ToSet(TextOf(fed + 1, 2 + 0))
        BY <2>4, <3>1 DEF Feed
      <3> QED
        BY <1>3, <3>1, <3>3, <3>4 DEF FeedDoes
    <2> QED
      BY <2>1, <2>2, <2>3, <2>4
  <1> QED
    BY <1>1, <1>2, <1>6

\* The next line leaves what is split off, and is at the back of the ring.
LEMMA NextLineIs ==
  ASSUME PrintType, NEW w \in Writers, AppendLine(w)
  PROVE  /\ split[w] \in Seq(WholeLines) /\ split[w] # <<>> /\ unsaid[w] = <<>>
         /\ Head(split[w]) \in WholeLines /\ Tail(split[w]) \in Seq(WholeLines)
         /\ split' = [split EXCEPT ![w] = Tail(split[w])]
         /\ unsaid' = [unsaid EXCEPT ![w] = Head(split[w])]
         /\ appended' = Append(appended, Head(split[w]))
         /\ UNCHANGED <<feedsLeft, fed, pending, printed, scheduled, box, sent, newest>>
  <1>1. split[w] \in Seq(WholeLines) /\ split[w] # <<>> /\ unsaid[w] = <<>>
    BY DEF PrintType, AppendLine
  <1>2. Head(split[w]) \in WholeLines /\ Tail(split[w]) \in Seq(WholeLines)
    BY <1>1
  <1>3. split[w][1] = Head(split[w])
    BY <1>1
  <1>4. RemoveAt(split[w], 1) = Tail(split[w])
    <2>1. 1 \in 1..Len(split[w]) /\ Len(split[w]) \in Nat
      BY <1>1
    <2>2. /\ RemoveAt(split[w], 1) \in Seq(WholeLines)
          /\ Len(RemoveAt(split[w], 1)) = Len(split[w]) - 1
          /\ \A j \in 1..(Len(split[w]) - 1) :
                RemoveAt(split[w], 1)[j] = IF j < 1 THEN split[w][j] ELSE split[w][j + 1]
      BY <1>1, <2>1, RemoveAtType
    <2>3. /\ Len(Tail(split[w])) = Len(split[w]) - 1
          /\ \A j \in 1..(Len(split[w]) - 1) : Tail(split[w])[j] = split[w][j + 1]
      BY <1>1
    <2>4. \A j \in 1..(Len(split[w]) - 1) : RemoveAt(split[w], 1)[j] = Tail(split[w])[j]
      BY <2>1, <2>2, <2>3
    <2> QED
      BY <1>2, <2>2, <2>3, <2>4, SeqEqual
  <1>5. /\ split' = [split EXCEPT ![w] = RemoveAt(split[w], 1)]
        /\ unsaid' = [unsaid EXCEPT ![w] = split[w][1]]
        /\ appended' = Append(appended, split[w][1])
        /\ UNCHANGED <<feedsLeft, fed, pending, printed, scheduled, box, sent, newest>>
    BY DEF AppendLine, NextLine, socketVars
  <1> QED
    BY <1>1, <1>2, <1>3, <1>4, <1>5

PollStep == PollMessages \/ PollCompare \/ PollUid

\* The steps of what is printed.
LEMMA PrintSteps ==
  ConsoleNext => FeedStep \/ (\E w \in Writers : AppendLine(w) \/ EmitLine(w))
                   \/ DeliverLine \/ SendLine \/ PollStep
  BY DEF ConsoleNext, WriterStep, FeedStep, PollStep

LEMMA PrintTypeBegins == ConsoleInit => PrintType
  BY ConsoleAssumption DEF ConsoleInit, PrintType, Lines

LEMMA PrintTypeStep ==
  ASSUME PrintType, [ConsoleNext]_consoleVars
  PROVE  PrintType'
  <1>1. CASE FeedStep
    <2>1. PICK w \in Writers :
           /\ FeedDoes(w)
           /\ split[w] = <<>> /\ unsaid[w] = <<>> /\ feedsLeft > 0
           /\ feedsLeft' = feedsLeft - 1 /\ fed' = fed + 1
           /\ UNCHANGED <<unsaid, messages, uid, appended, socketVars, pollVars>>
           /\ NextPiece(1) \in Pieces /\ NextPiece(2) \in Pieces
      BY <1>1, FeedIs
    <2>2. Append(pending, NextPiece(1)) \in WholeLines /\ <<NextPiece(2)>> \in WholeLines
      <3>1. pending \in Seq(Pieces)
        BY DEF PrintType, Lines
      <3>2. Append(pending, NextPiece(1)) \in Seq(Pieces) /\ Append(pending, NextPiece(1)) # <<>>
        BY <2>1, <3>1, BackOfAppend
      <3>3. <<NextPiece(2)>> \in Seq(Pieces) /\ <<NextPiece(2)>> # <<>>
        BY <2>1
      <3> QED
        BY <3>2, <3>3 DEF WholeLines, Lines
    <2>3. pending' \in Lines
      <3>1. /\ Append(pending, NextPiece(1)) \in Lines /\ <<NextPiece(2)>> \in Lines
            /\ <<>> \in Lines
        BY <2>2 DEF WholeLines, Lines
      <3> QED
        BY <2>1, <3>1 DEF FeedDoes
    <2>4. split' \in [Writers -> Seq(WholeLines)]
      <3>1. /\ <<Append(pending, NextPiece(1))>> \in Seq(WholeLines)
            /\ <<Append(pending, NextPiece(1)), <<NextPiece(2)>>>> \in Seq(WholeLines)
        BY <2>2
      <3>2. split \in [Writers -> Seq(WholeLines)]
        BY DEF PrintType
      <3> HIDE DEF WholeLines
      <3> QED
        BY <2>1, <3>1, <3>2 DEF FeedDoes
    <2> QED
      BY <2>1, <2>3, <2>4 DEF PrintType, socketVars
  <1>2. ASSUME NEW w \in Writers, AppendLine(w) PROVE PrintType'
    <2>1. Head(split[w]) \in Lines /\ Head(split[w]) \in WholeLines
      BY <1>2, NextLineIs DEF WholeLines
    <2>2. appended' \in Seq(WholeLines)
      <3>1. appended \in Seq(WholeLines) /\ appended' = Append(appended, Head(split[w]))
        BY <1>2, NextLineIs DEF PrintType
      <3> QED
        BY <2>1, <3>1, BackOfAppend
    <2>3. split' \in [Writers -> Seq(WholeLines)] /\ unsaid' \in [Writers -> Lines]
      BY <1>2, <2>1, NextLineIs DEF PrintType
    <2>4. UNCHANGED <<feedsLeft, fed, pending, printed, scheduled, box, sent, newest>>
      BY <1>2, NextLineIs
    <2> QED
      BY <2>2, <2>3, <2>4 DEF PrintType
  <1>3. ASSUME NEW w \in Writers, EmitLine(w) PROVE PrintType'
    <2>1. unsaid[w] \in WholeLines /\ <<>> \in Lines
      BY <1>3 DEF EmitLine, PrintType, WholeLines, Lines
    <2> QED
      BY <1>3, <2>1 DEF EmitLine, PrintType
  <1>4. CASE DeliverLine
    <2>1. Head(scheduled) \in WholeLines /\ Tail(scheduled) \in Seq(WholeLines)
      BY <1>4 DEF DeliverLine, PrintType
    <2>2. Len(box) = MaxQueue => Tail(box) \in Seq(WholeLines)
      BY ConsoleAssumption DEF PrintType
    <2>3. box' \in Seq(WholeLines)
      BY <1>4, <2>1, <2>2 DEF DeliverLine, Delivered, PrintType
    <2> QED
      BY <1>4, <2>1, <2>3 DEF DeliverLine, PrintType, writeVars
  <1>5. CASE SendLine
    BY <1>5 DEF SendLine, PrintType, writeVars
  <1>6. CASE PollStep
    BY <1>6 DEF PollStep, PollMessages, PollCompare, PollUid, PrintType, writeVars, socketVars
  <1>7. CASE UNCHANGED consoleVars
    BY <1>7 DEF consoleVars, PrintType, writeVars, socketVars
  <1> QED
    BY <1>1, <1>2, <1>3, <1>4, <1>5, <1>6, <1>7, PrintSteps

\* What is delivered: the queue keeps its back, and may lose its front.
LEMMA DeliveredIs ==
  ASSUME PrintType, DeliverLine
  PROVE  /\ scheduled # <<>> /\ Head(scheduled) \in WholeLines /\ scheduled' = Tail(scheduled)
         /\ \/ box' = Append(box, Head(scheduled))
            \/ box # <<>> /\ box' = Append(Tail(box), Head(scheduled))
         /\ UNCHANGED <<writeVars, sent, newest>>
  <1>1. scheduled # <<>> /\ Head(scheduled) \in WholeLines
    BY DEF DeliverLine, PrintType
  <1>2. Len(box) = MaxQueue => box # <<>>
    BY ConsoleAssumption DEF PrintType
  <1> QED
    BY <1>1, <1>2 DEF DeliverLine, Delivered

-----------------------------------------------------------------------------
\* The line that was emitted last is the last of those on their way, or has been sent.
NewestIsBehind ==
  newest # <<>> =>
    /\ scheduled # <<>> => scheduled[Len(scheduled)] = newest
    /\ scheduled = <<>> /\ box # <<>> => box[Len(box)] = newest
    /\ scheduled = <<>> /\ box = <<>> => sent # <<>> /\ sent[Len(sent)] = newest

LEMMA NewestStep ==
  ASSUME PrintType, NewestIsBehind, [ConsoleNext]_consoleVars
  PROVE  NewestIsBehind'
  <1> USE DEF PrintType, NewestIsBehind
  <1>1. ASSUME UNCHANGED <<scheduled, box, sent, newest>> PROVE NewestIsBehind'
    BY <1>1
  <1>2. CASE FeedStep
    BY <1>1, <1>2, FeedIs DEF socketVars
  <1>3. ASSUME NEW w \in Writers, AppendLine(w) PROVE NewestIsBehind'
    BY <1>1, <1>3 DEF AppendLine, socketVars
  <1>4. ASSUME NEW w \in Writers, EmitLine(w) PROVE NewestIsBehind'
    <2>1. scheduled' = Append(scheduled, unsaid[w]) /\ newest' = unsaid[w]
      BY <1>4 DEF EmitLine
    <2>2. unsaid[w] \in WholeLines
      BY <1>4 DEF EmitLine, WholeLines
    <2>3. scheduled' # <<>> /\ scheduled'[Len(scheduled')] = newest'
      BY <2>1, <2>2, BackOfAppend
    <2> QED
      BY <2>3
  <1>5. CASE DeliverLine
    <2>1. /\ scheduled # <<>> /\ scheduled' = Tail(scheduled) /\ UNCHANGED <<sent, newest>>
          /\ \/ box' = Append(box, Head(scheduled))
             \/ box # <<>> /\ box' = Append(Tail(box), Head(scheduled))
      BY <1>5, DeliveredIs
    <2>2. box' # <<>> /\ box'[Len(box')] = Head(scheduled)
      <3>0. Head(scheduled) \in WholeLines
        BY <1>5, DeliveredIs
      <3>1. CASE box' = Append(box, Head(scheduled))
        BY <3>0, <3>1, BackOfAppend
      <3>2. CASE box # <<>> /\ box' = Append(Tail(box), Head(scheduled))
        <4>1. Tail(box) \in Seq(WholeLines)
          BY <3>2, BackOfTail
        <4> QED
          BY <3>0, <3>2, <4>1, BackOfAppend
      <3> QED
        BY <2>1, <3>1, <3>2
    <2>3. /\ Tail(scheduled) = <<>> => scheduled[Len(scheduled)] = Head(scheduled)
          /\ Tail(scheduled) # <<>> => Tail(scheduled)[Len(Tail(scheduled))] = scheduled[Len(scheduled)]
      BY <2>1, BackOfTail
    <2> QED
      BY <2>1, <2>2, <2>3
  <1>6. CASE SendLine
    <2>1. box # <<>> /\ sent' = Append(sent, Head(box)) /\ box' = Tail(box) /\ UNCHANGED <<scheduled, newest>>
      BY <1>6 DEF SendLine
    <2>2. /\ Tail(box) = <<>> => box[Len(box)] = Head(box)
          /\ Tail(box) # <<>> => Tail(box)[Len(Tail(box))] = box[Len(box)]
          /\ Head(box) \in WholeLines
      BY <2>1, BackOfTail
    <2>3. sent' # <<>> /\ sent'[Len(sent')] = Head(box)
      <3> HIDE DEF PrintType, NewestIsBehind
      <3>1. sent \in Seq(WholeLines)
        BY DEF PrintType
      <3>2. sent' = Append(sent, Head(box)) /\ Head(box) \in WholeLines
        BY <2>1, <2>2
      <3> QED
        BY <3>1, <3>2, BackOfAppend
    <2> QED
      BY <2>1, <2>2, <2>3
  <1>7. CASE PollStep
    BY <1>1, <1>7 DEF PollStep, PollMessages, PollCompare, PollUid, socketVars
  <1>8. CASE UNCHANGED consoleVars
    BY <1>1, <1>8 DEF consoleVars, socketVars
  <1> QED
    BY <1>2, <1>3, <1>4, <1>5, <1>6, <1>7, <1>8, PrintSteps

\* streams.py:4-5, "a slow consumer drops the oldest messages": once it has caught up, it has sent the
\* line that was emitted last, however small its queue is.
THEOREM NewestArrives == MonitoringSpec => []NewestIsSent
  <1>1. MonitoringInit => PrintType /\ NewestIsBehind
    BY PrintTypeBegins DEF MonitoringInit, ConsoleInit, NewestIsBehind
  <1>2. [MonitoringNext]_monitoringVars => [ConsoleNext]_consoleVars
    BY DEF MonitoringNext, monitoringVars, consoleVars
  <1>3. PrintType /\ NewestIsBehind /\ [ConsoleNext]_consoleVars => PrintType' /\ NewestIsBehind'
    BY PrintTypeStep, NewestStep
  <1>4. NewestIsBehind => NewestIsSent
    BY DEF NewestIsBehind, NewestIsSent, Last
  <1> QED
    BY <1>1, <1>2, <1>3, <1>4, PTL DEF MonitoringSpec

-----------------------------------------------------------------------------
\* Of two lines of one text, the one is the earlier.
Before(a, b) == FeedOf(a) = FeedOf(b) => PartOf(a) < PartOf(b)
Earlier(A, B) == \A a \in A, b \in B : Before(a, b)

\* No line of a text is in both.
Apart(A, B) == \A a \in A, b \in B : FeedOf(a) # FeedOf(b)

Unsaid(w) == {unsaid[w]} \ {<<>>}
Coming(w) == Unsaid(w) \cup ToSet(split[w])
Emitted == ToSet(sent) \cup ToSet(box) \cup ToSet(scheduled)

\* The lines of a text in a sequence and those that come behind them, wherever they are.
SocketInOrder ==
  /\ InOrder(sent) /\ InOrder(box) /\ InOrder(scheduled)
  /\ Earlier(ToSet(sent), ToSet(box)) /\ Earlier(ToSet(sent), ToSet(scheduled))
  /\ Earlier(ToSet(box), ToSet(scheduled))

ComingInOrder ==
  \A w \in Writers :
    /\ InOrder(split[w]) /\ Earlier(Unsaid(w), ToSet(split[w]))
    /\ Earlier(ToSet(appended), ToSet(split[w]))
    /\ Earlier(Emitted, Coming(w))

EachItsOwn == \A v, w \in Writers : v # w => Apart(Coming(v), Coming(w))

\* No line is of a text that is not written yet.
OfThePast ==
  /\ \A a \in Emitted \cup ToSet(appended) : FeedOf(a) \in 1..fed
  /\ \A w \in Writers : \A a \in Coming(w) : FeedOf(a) \in 1..fed

OrderInv == InOrder(appended) /\ SocketInOrder /\ ComingInOrder /\ EachItsOwn /\ OfThePast

LEMMA OrderAppend ==
  ASSUME NEW s \in Seq(WholeLines), NEW l \in WholeLines, InOrder(s), Earlier(ToSet(s), {l})
  PROVE  InOrder(Append(s, l)) /\ ToSet(Append(s, l)) = ToSet(s) \cup {l}
  <1> DEFINE q == Append(s, l)
  <1>1. /\ Len(q) = Len(s) + 1 /\ q[Len(s) + 1] = l /\ Len(s) \in Nat
        /\ \A i \in 1..Len(s) : q[i] = s[i]
        /\ DOMAIN q = 1..(Len(s) + 1) /\ DOMAIN s = 1..Len(s)
    BY AppendProperties
  <1> HIDE DEF q
  <1>2. ASSUME NEW i \in DOMAIN q, NEW j \in DOMAIN q, i < j
        PROVE  Before(q[i], q[j])
    <2>1. i \in 1..Len(s)
      BY <1>1, <1>2
    <2>2. CASE j \in 1..Len(s)
      BY <1>1, <1>2, <2>1, <2>2 DEF InOrder, Before
    <2>3. CASE j = Len(s) + 1
      <3>1. s[i] \in ToSet(s)
        BY <1>1, <2>1 DEF ToSet
      <3> QED
        BY <1>1, <2>1, <2>3, <3>1 DEF Earlier
    <2> QED
      BY <1>1, <2>2, <2>3
  <1>3. InOrder(q)
    BY <1>2 DEF InOrder, Before
  <1>4. ToSet(q) = ToSet(s) \cup {l}
    <2>1. ASSUME NEW x \in ToSet(q) PROVE x \in ToSet(s) \cup {l}
      <3>1. PICK i \in DOMAIN q : x = q[i]
        BY <2>1 DEF ToSet
      <3> QED
        BY <1>1, <3>1 DEF ToSet
    <2>2. ASSUME NEW x \in ToSet(s) \cup {l} PROVE x \in ToSet(q)
      <3>1. CASE x = l
        BY <1>1, <3>1 DEF ToSet
      <3>2. CASE x \in ToSet(s)
        <4>1. PICK i \in DOMAIN s : x = s[i]
          BY <3>2 DEF ToSet
        <4>2. i \in DOMAIN q /\ x = q[i]
          BY <1>1, <4>1
        <4> QED
          BY <4>2 DEF ToSet
      <3> QED
        BY <2>2, <3>1, <3>2
    <2> QED
      BY <2>1, <2>2
  <1> QED
    BY <1>3, <1>4 DEF q

LEMMA OrderTail ==
  ASSUME NEW s \in Seq(WholeLines), s # <<>>, InOrder(s)
  PROVE  /\ InOrder(Tail(s)) /\ Tail(s) \in Seq(WholeLines)
         /\ ToSet(s) = {Head(s)} \cup ToSet(Tail(s)) /\ Head(s) \in WholeLines
         /\ Earlier({Head(s)}, ToSet(Tail(s)))
  <1> DEFINE q == Tail(s)
  <1>1. /\ q \in Seq(WholeLines) /\ Len(q) = Len(s) - 1 /\ Len(s) \in Nat \ {0}
        /\ \A i \in 1..Len(q) : q[i] = s[i + 1]
        /\ DOMAIN q = 1..(Len(s) - 1) /\ DOMAIN s = 1..Len(s)
        /\ Head(s) = s[1] /\ Head(s) \in WholeLines
    BY HeadTailProperties
  <1> HIDE DEF q
  <1>2. ASSUME NEW i \in DOMAIN q, NEW j \in DOMAIN q, i < j
        PROVE  Before(q[i], q[j])
    <2>1. /\ i + 1 \in DOMAIN s /\ j + 1 \in DOMAIN s /\ i + 1 < j + 1
          /\ q[i] = s[i + 1] /\ q[j] = s[j + 1]
      BY <1>1, <1>2
    <2>2. Before(s[i + 1], s[j + 1])
      BY <2>1 DEF InOrder, Before
    <2> QED
      BY <2>1, <2>2
  <1>3. ASSUME NEW x \in ToSet(q) PROVE x \in ToSet(s) /\ Before(Head(s), x)
    <2>1. PICK i \in DOMAIN q : x = q[i]
      BY <1>3 DEF ToSet
    <2>2. i + 1 \in DOMAIN s /\ x = s[i + 1] /\ 1 < i + 1 /\ 1 \in DOMAIN s
      BY <1>1, <2>1
    <2>3. Before(s[1], s[i + 1])
      BY <2>2 DEF InOrder, Before
    <2> QED
      BY <1>1, <2>2, <2>3 DEF ToSet
  <1>4. ASSUME NEW x \in ToSet(s) PROVE x \in {Head(s)} \cup ToSet(q)
    <2>1. PICK i \in DOMAIN s : x = s[i]
      BY <1>4 DEF ToSet
    <2>2. CASE i = 1
      BY <1>1, <2>1, <2>2
    <2>3. CASE i # 1
      <3>1. i - 1 \in DOMAIN q /\ x = q[i - 1]
        BY <1>1, <2>1, <2>3
      <3> QED
        BY <3>1 DEF ToSet
    <2> QED
      BY <2>2, <2>3
  <1>5. Head(s) \in ToSet(s)
    BY <1>1 DEF ToSet
  <1> QED
    BY <1>1, <1>2, <1>3, <1>4, <1>5 DEF InOrder, Before, Earlier, q

LEMMA OrderBegins == ConsoleInit => OrderInv
  <1> SUFFICES ASSUME ConsoleInit PROVE OrderInv
    OBVIOUS
  <1>1. ToSet(<<>>) = {} /\ InOrder(<<>>)
    BY DEF ToSet, InOrder
  <1>2. \A w \in Writers : split[w] = <<>> /\ Unsaid(w) = {}
    BY DEF ConsoleInit, Unsaid
  <1>3. appended = <<>> /\ sent = <<>> /\ box = <<>> /\ scheduled = <<>>
    BY DEF ConsoleInit
  <1>4. \A w \in Writers : Coming(w) = {}
    BY <1>1, <1>2 DEF Coming
  <1>5. Emitted = {}
    BY <1>1, <1>3 DEF Emitted
  <1> QED
    BY <1>1, <1>2, <1>3, <1>4, <1>5
       DEF OrderInv, SocketInOrder, ComingInOrder, EachItsOwn, OfThePast, Earlier, Apart

\* A text is written: its lines are of a text of their own.
LEMMA FeedKeepsOrder ==
  ASSUME PrintType, OrderInv, FeedStep
  PROVE  OrderInv'
  <1>1. PICK w \in Writers :
         /\ FeedDoes(w)
         /\ split[w] = <<>> /\ unsaid[w] = <<>> /\ feedsLeft > 0
         /\ feedsLeft' = feedsLeft - 1 /\ fed' = fed + 1
         /\ UNCHANGED <<unsaid, messages, uid, appended, socketVars, pollVars>>
         /\ NextPiece(1) \in Pieces /\ NextPiece(2) \in Pieces
    BY FeedIs
  <1>2. UNCHANGED <<unsaid, appended, sent, box, scheduled>> /\ fed \in Nat /\ fed' = fed + 1
    BY <1>1 DEF socketVars, PrintType
  <1> DEFINE first == Append(pending, NextPiece(1))
             second == <<NextPiece(2)>>
  <1>3. /\ FeedOf(first) = fed + 1 /\ PartOf(first) = 1
        /\ FeedOf(second) = fed + 1 /\ PartOf(second) = 2
    <2>1. pending \in Seq(Pieces)
      BY DEF PrintType, Lines
    <2>2. first[Len(first)] = NextPiece(1)
      BY <1>1, <2>1, BackOfAppend
    <2>3. second[Len(second)] = NextPiece(2)
      OBVIOUS
    <2> HIDE DEF first, second
    <2> QED
      BY <2>2, <2>3 DEF FeedOf, PartOf, NextPiece
  <1> HIDE DEF first, second
  <1>4. /\ \A v \in Writers : v # w => split'[v] = split[v]
        /\ split'[w] \in {<<>>, <<first>>, <<first, second>>}
    BY <1>1 DEF FeedDoes, PrintType, first, second
  <1>5. InOrder(split'[w]) /\ \A a \in ToSet(split'[w]) : FeedOf(a) = fed + 1
    <2>1. CASE split'[w] = <<>>
      BY <2>1 DEF InOrder, ToSet
    <2>2. CASE split'[w] = <<first>>
      BY <1>3, <2>2 DEF InOrder, ToSet
    <2>3. CASE split'[w] = <<first, second>>
      <3>1. DOMAIN split'[w] = {1, 2} /\ split'[w][1] = first /\ split'[w][2] = second
        BY <2>3
      <3> QED
        BY <1>3, <3>1 DEF InOrder, ToSet
    <2> QED
      BY <1>4, <2>1, <2>2, <2>3
  <1>6. /\ Emitted' = Emitted /\ \A v \in Writers : Unsaid(v)' = Unsaid(v)
        /\ \A v \in Writers : v # w => Coming(v)' = Coming(v)
        /\ Unsaid(w)' = {} /\ Coming(w)' = ToSet(split'[w])
    BY <1>1, <1>2, <1>4 DEF Emitted, Unsaid, Coming
  <1>7. \A a \in Emitted \cup ToSet(appended) : \A b \in ToSet(split'[w]) : FeedOf(a) # FeedOf(b)
    BY <1>2, <1>5 DEF OrderInv, OfThePast
  <1>8. InOrder(appended)' /\ SocketInOrder'
    BY <1>2 DEF OrderInv, SocketInOrder
  <1>9. ComingInOrder'
    <2> SUFFICES ASSUME NEW v \in Writers
                 PROVE  (/\ InOrder(split[v]) /\ Earlier(Unsaid(v), ToSet(split[v]))
                         /\ Earlier(ToSet(appended), ToSet(split[v]))
                         /\ Earlier(Emitted, Coming(v)))'
      BY DEF ComingInOrder
    <2>1. CASE v # w
      BY <1>2, <1>4, <1>6, <2>1 DEF OrderInv, ComingInOrder
    <2>2. CASE v = w
      BY <1>2, <1>5, <1>6, <1>7, <2>2 DEF Earlier, Before
    <2> QED
      BY <2>1, <2>2
  <1>10. \A v \in Writers : v # w => \A a \in Coming(v) : FeedOf(a) \in 1..fed
    BY DEF OrderInv, OfThePast
  <1>11. EachItsOwn'
    <2> SUFFICES ASSUME NEW u \in Writers, NEW v \in Writers, u # v PROVE Apart(Coming(u)', Coming(v)')
      BY DEF EachItsOwn
    <2>1. CASE u = w
      BY <1>2, <1>5, <1>6, <1>10, <2>1 DEF Apart
    <2>2. CASE v = w
      BY <1>2, <1>5, <1>6, <1>10, <2>2 DEF Apart
    <2>3. CASE u # w /\ v # w
      BY <1>6, <2>3 DEF OrderInv, EachItsOwn
    <2> QED
      BY <2>1, <2>2, <2>3
  <1>12. OfThePast'
    <2>1. \A n : n \in 1..fed => n \in 1..fed'
      BY <1>2
    <2>2. fed + 1 \in 1..fed'
      BY <1>2
    <2> QED
      BY <1>2, <1>5, <1>6, <2>1, <2>2 DEF OrderInv, OfThePast
  <1> QED
    BY <1>8, <1>9, <1>11, <1>12 DEF OrderInv

\* A thread appends its next line, which it still has to emit.
LEMMA AppendKeepsOrder ==
  ASSUME PrintType, OrderInv, NEW w \in Writers, AppendLine(w)
  PROVE  OrderInv'
  <1> DEFINE line == Head(split[w])
             rest == Tail(split[w])
  <1>1. /\ split[w] \in Seq(WholeLines) /\ split[w] # <<>> /\ unsaid[w] = <<>>
        /\ line \in WholeLines /\ rest \in Seq(WholeLines)
        /\ split' = [split EXCEPT ![w] = rest]
        /\ unsaid' = [unsaid EXCEPT ![w] = line]
        /\ appended' = Append(appended, line)
        /\ UNCHANGED <<fed, scheduled, box, sent>>
    BY NextLineIs
  <1>2. /\ InOrder(rest) /\ ToSet(split[w]) = {line} \cup ToSet(rest) /\ Earlier({line}, ToSet(rest))
    BY <1>1, OrderTail DEF OrderInv, ComingInOrder
  <1> HIDE DEF line, rest
  <1>3. /\ split'[w] = rest /\ unsaid'[w] = line
        /\ \A v \in Writers : v # w => split'[v] = split[v] /\ unsaid'[v] = unsaid[v]
    BY <1>1 DEF PrintType
  <1>4. /\ Unsaid(w)' = {line} /\ Coming(w)' = Coming(w) /\ Unsaid(w) = {}
        /\ \A v \in Writers : v # w => Unsaid(v)' = Unsaid(v) /\ Coming(v)' = Coming(v)
        /\ Emitted' = Emitted
    BY <1>1, <1>2, <1>3 DEF Unsaid, Coming, WholeLines, Emitted
  <1>5. line \in Coming(w) /\ line \in ToSet(split[w])
    BY <1>2 DEF Coming
  <1>6. InOrder(appended') /\ ToSet(appended') = ToSet(appended) \cup {line}
    <2>1. Earlier(ToSet(appended), {line})
      BY <1>5 DEF OrderInv, ComingInOrder, Earlier
    <2>2. appended \in Seq(WholeLines) /\ InOrder(appended)
      BY DEF PrintType, OrderInv
    <2> QED
      BY <1>1, <2>1, <2>2, OrderAppend
  <1>7. SocketInOrder'
    BY <1>1 DEF OrderInv, SocketInOrder
  <1>8. ComingInOrder'
    <2> SUFFICES ASSUME NEW v \in Writers
                 PROVE  (/\ InOrder(split[v]) /\ Earlier(Unsaid(v), ToSet(split[v]))
                         /\ Earlier(ToSet(appended), ToSet(split[v]))
                         /\ Earlier(Emitted, Coming(v)))'
      BY DEF ComingInOrder
    <2>1. CASE v = w
      <3>1. Earlier(ToSet(appended), ToSet(rest))
        BY <1>2 DEF OrderInv, ComingInOrder, Earlier
      <3> QED
        BY <1>2, <1>3, <1>4, <1>6, <2>1, <3>1 DEF OrderInv, ComingInOrder, Earlier
    <2>2. CASE v # w
      <3>1. /\ InOrder(split[v]) /\ Earlier(Unsaid(v), ToSet(split[v]))
            /\ Earlier(ToSet(appended), ToSet(split[v])) /\ Earlier(Emitted, Coming(v))
        BY DEF OrderInv, ComingInOrder
      <3>2. Earlier({line}, ToSet(split[v]))
        <4>1. Apart(Coming(w), Coming(v)) /\ ToSet(split[v]) \subseteq Coming(v)
          BY <2>2 DEF OrderInv, EachItsOwn, Coming
        <4> QED
          BY <1>5, <4>1 DEF Apart, Earlier, Before
      <3> QED
        BY <1>3, <1>4, <1>6, <2>2, <3>1, <3>2 DEF Earlier
    <2> QED
      BY <2>1, <2>2
  <1>9. \A v \in Writers : Coming(v)' = Coming(v)
    BY <1>4
  <1>10. EachItsOwn'
    BY <1>9 DEF OrderInv, EachItsOwn
  <1>11. OfThePast'
    BY <1>1, <1>4, <1>5, <1>6, <1>9 DEF OrderInv, OfThePast
  <1> QED
    BY <1>6, <1>7, <1>8, <1>10, <1>11 DEF OrderInv

\* A thread emits the line it has appended: it goes behind all that were emitted.
LEMMA EmitKeepsOrder ==
  ASSUME PrintType, OrderInv, NEW w \in Writers, EmitLine(w)
  PROVE  OrderInv'
  <1> DEFINE line == unsaid[w]
  <1>1. /\ line \in WholeLines
        /\ scheduled' = Append(scheduled, line)
        /\ unsaid' = [unsaid EXCEPT ![w] = <<>>]
        /\ UNCHANGED <<fed, split, appended, box, sent>>
    BY DEF EmitLine, PrintType, WholeLines
  <1>2. Unsaid(w) = {line} /\ line \in Coming(w)
    BY <1>1 DEF Unsaid, Coming, WholeLines
  <1> HIDE DEF line
  <1>3. /\ Unsaid(w)' = {} /\ Coming(w)' = ToSet(split[w]) /\ Coming(w)' \subseteq Coming(w)
        /\ \A v \in Writers : v # w => Unsaid(v)' = Unsaid(v) /\ Coming(v)' = Coming(v)
    BY <1>1 DEF Unsaid, Coming, PrintType
  <1>4. /\ Earlier(Emitted, {line}) /\ Earlier({line}, ToSet(split[w]))
    BY <1>2 DEF OrderInv, ComingInOrder, Earlier
  <1>5. InOrder(scheduled') /\ ToSet(scheduled') = ToSet(scheduled) \cup {line}
    <2>1. Earlier(ToSet(scheduled), {line})
      BY <1>4 DEF Earlier, Emitted
    <2>2. scheduled \in Seq(WholeLines) /\ InOrder(scheduled)
      BY DEF PrintType, OrderInv, SocketInOrder
    <2> QED
      BY <1>1, <2>1, <2>2, OrderAppend
  <1>6. Emitted' = Emitted \cup {line}
    BY <1>1, <1>5 DEF Emitted
  <1>7. SocketInOrder'
    <2>1. Earlier(ToSet(sent), {line}) /\ Earlier(ToSet(box), {line})
      BY <1>4 DEF Earlier, Emitted
    <2> QED
      BY <1>1, <1>5, <2>1 DEF OrderInv, SocketInOrder, Earlier
  <1>8. ComingInOrder'
    <2> SUFFICES ASSUME NEW v \in Writers
                 PROVE  (/\ InOrder(split[v]) /\ Earlier(Unsaid(v), ToSet(split[v]))
                         /\ Earlier(ToSet(appended), ToSet(split[v]))
                         /\ Earlier(Emitted, Coming(v)))'
      BY DEF ComingInOrder
    <2>1. /\ InOrder(split[v]) /\ Earlier(Unsaid(v), ToSet(split[v]))
          /\ Earlier(ToSet(appended), ToSet(split[v])) /\ Earlier(Emitted, Coming(v))
      BY DEF OrderInv, ComingInOrder
    <2>2. Earlier({line}, Coming(v)')
      <3>1. CASE v = w
        BY <1>3, <1>4, <3>1
      <3>2. CASE v # w
        <4>1. Apart(Coming(w), Coming(v))
          BY <3>2 DEF OrderInv, EachItsOwn
        <4> QED
          BY <1>2, <1>3, <3>2, <4>1 DEF Apart, Earlier, Before
      <3> QED
        BY <3>1, <3>2
    <2>3. Coming(v)' \subseteq Coming(v) /\ Unsaid(v)' \subseteq Unsaid(v)
      BY <1>3
    <2> QED
      BY <1>1, <1>6, <2>1, <2>2, <2>3 DEF Earlier
  <1>9. \A v \in Writers : Coming(v)' \subseteq Coming(v)
    BY <1>3
  <1>10. EachItsOwn'
    BY <1>9 DEF OrderInv, EachItsOwn, Apart
  <1>11. OfThePast'
    BY <1>1, <1>2, <1>6, <1>9 DEF OrderInv, OfThePast
  <1> QED
    BY <1>1, <1>7, <1>8, <1>10, <1>11 DEF OrderInv

\* What only the socket's queues do.
LEMMA SocketKeepsOrder ==
  ASSUME OrderInv, SocketInOrder', Emitted' \subseteq Emitted, UNCHANGED writeVars
  PROVE  OrderInv'
  <1>1. UNCHANGED <<fed, split, unsaid, appended>>
    BY DEF writeVars
  <1>2. \A w \in Writers : Coming(w)' = Coming(w) /\ Unsaid(w)' = Unsaid(w)
    BY <1>1 DEF Coming, Unsaid
  <1>3. ComingInOrder'
    BY <1>1, <1>2 DEF OrderInv, ComingInOrder, Earlier
  <1>4. EachItsOwn'
    BY <1>2 DEF OrderInv, EachItsOwn
  <1>5. OfThePast'
    BY <1>1, <1>2 DEF OrderInv, OfThePast
  <1> QED
    BY <1>1, <1>3, <1>4, <1>5 DEF OrderInv

\* The front of what is scheduled goes to the back of the queue, whose front may be lost.
LEMMA DeliverKeepsOrder ==
  ASSUME PrintType, OrderInv, DeliverLine
  PROVE  OrderInv'
  <1> DEFINE line == Head(scheduled)
  <1>1. /\ scheduled # <<>> /\ line \in WholeLines /\ scheduled' = Tail(scheduled)
        /\ \/ box' = Append(box, line)
           \/ box # <<>> /\ box' = Append(Tail(box), line)
        /\ UNCHANGED <<writeVars, sent, newest>>
    BY DeliveredIs
  <1>2. /\ InOrder(scheduled') /\ ToSet(scheduled) = {line} \cup ToSet(scheduled')
        /\ Earlier({line}, ToSet(scheduled'))
    BY <1>1, OrderTail DEF PrintType, OrderInv, SocketInOrder
  <1> HIDE DEF line
  <1>3. Earlier(ToSet(box), {line})
    BY <1>2 DEF OrderInv, SocketInOrder, Earlier
  <1>4. InOrder(box') /\ ToSet(box') \subseteq ToSet(box) \cup {line}
    <2>1. CASE box' = Append(box, line)
      BY <1>1, <1>3, <2>1, OrderAppend DEF PrintType, OrderInv, SocketInOrder
    <2>2. CASE box # <<>> /\ box' = Append(Tail(box), line)
      <3>1. InOrder(Tail(box)) /\ Tail(box) \in Seq(WholeLines) /\ ToSet(Tail(box)) \subseteq ToSet(box)
        BY <2>2, OrderTail DEF PrintType, OrderInv, SocketInOrder
      <3>2. Earlier(ToSet(Tail(box)), {line})
        BY <1>3, <3>1 DEF Earlier
      <3>3. InOrder(Append(Tail(box), line)) /\ ToSet(Append(Tail(box), line)) = ToSet(Tail(box)) \cup {line}
        BY <1>1, <3>1, <3>2, OrderAppend
      <3> QED
        BY <2>2, <3>1, <3>3
    <2> QED
      BY <1>1, <2>1, <2>2
  <1>5. SocketInOrder'
    <2>1. InOrder(sent)' /\ InOrder(box)' /\ InOrder(scheduled)'
      BY <1>1, <1>2, <1>4 DEF OrderInv, SocketInOrder
    <2>2. Earlier(ToSet(sent), ToSet(box))' /\ Earlier(ToSet(sent), ToSet(scheduled))'
      BY <1>1, <1>2, <1>4 DEF OrderInv, SocketInOrder, Earlier
    <2>3. Earlier(ToSet(box), ToSet(scheduled))'
      BY <1>2, <1>4 DEF OrderInv, SocketInOrder, Earlier
    <2> QED
      BY <2>1, <2>2, <2>3 DEF SocketInOrder
  <1>6. Emitted' \subseteq Emitted
    BY <1>1, <1>2, <1>4 DEF Emitted
  <1> QED
    BY <1>1, <1>5, <1>6, SocketKeepsOrder

\* The front of the queue is sent.
LEMMA SendKeepsOrder ==
  ASSUME PrintType, OrderInv, SendLine
  PROVE  OrderInv'
  <1> DEFINE line == Head(box)
  <1>1. /\ box # <<>> /\ box' = Tail(box) /\ sent' = Append(sent, line)
        /\ UNCHANGED <<writeVars, scheduled, newest>>
    BY DEF SendLine
  <1>2. /\ InOrder(box') /\ ToSet(box) = {line} \cup ToSet(box') /\ line \in WholeLines
        /\ Earlier({line}, ToSet(box'))
    BY <1>1, OrderTail DEF PrintType, OrderInv, SocketInOrder
  <1> HIDE DEF line
  <1>3. InOrder(sent') /\ ToSet(sent') = ToSet(sent) \cup {line}
    <2>1. Earlier(ToSet(sent), {line})
      BY <1>2 DEF OrderInv, SocketInOrder, Earlier
    <2> QED
      BY <1>1, <1>2, <2>1, OrderAppend DEF PrintType, OrderInv, SocketInOrder
  <1>4. SocketInOrder'
    <2>1. InOrder(sent)' /\ InOrder(box)' /\ InOrder(scheduled)'
      BY <1>1, <1>2, <1>3 DEF OrderInv, SocketInOrder
    <2>2. Earlier(ToSet(sent), ToSet(box))' /\ Earlier(ToSet(sent), ToSet(scheduled))'
      BY <1>1, <1>2, <1>3 DEF OrderInv, SocketInOrder, Earlier
    <2>3. Earlier(ToSet(box), ToSet(scheduled))'
      BY <1>1, <1>2 DEF OrderInv, SocketInOrder, Earlier
    <2> QED
      BY <2>1, <2>2, <2>3 DEF SocketInOrder
  <1>5. Emitted' \subseteq Emitted
    BY <1>1, <1>2, <1>3 DEF Emitted
  <1> QED
    BY <1>1, <1>4, <1>5, SocketKeepsOrder

LEMMA OrderStep ==
  ASSUME PrintType, OrderInv, [ConsoleNext]_consoleVars
  PROVE  OrderInv'
  <1>1. CASE PollStep \/ UNCHANGED consoleVars
    <2>1. UNCHANGED writeVars /\ UNCHANGED <<scheduled, box, sent>>
      BY <1>1 DEF PollStep, PollMessages, PollCompare, PollUid, consoleVars, socketVars
    <2>2. SocketInOrder' /\ Emitted' = Emitted
      BY <2>1 DEF OrderInv, SocketInOrder, Emitted
    <2> QED
      BY <2>1, <2>2, SocketKeepsOrder
  <1> QED
    BY <1>1, FeedKeepsOrder, AppendKeepsOrder, EmitKeepsOrder, DeliverKeepsOrder, SendKeepsOrder, PrintSteps

\* The lines of one text come in their order, in the ring and at the socket, whatever other threads
\* print between them and whatever the queue drops, for any number of threads and of texts.
THEOREM TextsStayInOrder == MonitoringSpec => []LinesOfATextInOrder
  <1>1. MonitoringInit => PrintType /\ OrderInv
    BY PrintTypeBegins, OrderBegins DEF MonitoringInit
  <1>2. [MonitoringNext]_monitoringVars => [ConsoleNext]_consoleVars
    BY DEF MonitoringNext, monitoringVars, consoleVars
  <1>3. PrintType /\ OrderInv /\ [ConsoleNext]_consoleVars => PrintType' /\ OrderInv'
    BY PrintTypeStep, OrderStep
  <1>4. OrderInv => LinesOfATextInOrder
    BY DEF OrderInv, SocketInOrder, LinesOfATextInOrder
  <1> QED
    BY <1>1, <1>2, <1>3, <1>4, PTL DEF MonitoringSpec

-----------------------------------------------------------------------------
\* The k-th piece of the i-th line that x holds.
Place(x, i, k) == x \in Holders /\ i \in DOMAIN LinesOf(x) /\ k \in DOMAIN LinesOf(x)[i]
PieceAt(x, i, k) == LinesOf(x)[i][k]

\* What was printed is held, and held once; what is held is of a text that was written.
AllHeld == \A p \in printed : \E x, i, k : Place(x, i, k) /\ PieceAt(x, i, k) = p
HeldOnce ==
  \A x, i, k, y, j, m :
     Place(x, i, k) /\ Place(y, j, m) /\ PieceAt(x, i, k) = PieceAt(y, j, m) => x = y /\ i = j /\ k = m
HeldAreOfThePast == \A x, i, k : Place(x, i, k) => PieceAt(x, i, k).feed \in 1..fed

HeldInv == AllHeld /\ HeldOnce /\ HeldAreOfThePast

LEMMA HeldIsEnough == HeldInv => NothingLostOrDoubled
  <1> SUFFICES ASSUME HeldInv PROVE NothingLostOrDoubled
    OBVIOUS
  <1>1. \A p \in printed : \E x \in Holders :
          \E i \in DOMAIN LinesOf(x) : \E k \in DOMAIN LinesOf(x)[i] : LinesOf(x)[i][k] = p
    BY DEF HeldInv, AllHeld, Place, PieceAt
  <1>2. ASSUME NEW x \in Holders, NEW y \in Holders, NEW i \in DOMAIN LinesOf(x), NEW j \in DOMAIN LinesOf(y),
               NEW k \in DOMAIN LinesOf(x)[i], NEW m \in DOMAIN LinesOf(y)[j],
               LinesOf(x)[i][k] = LinesOf(y)[j][m]
        PROVE  <<x, i, k>> = <<y, j, m>>
    <2>1. Place(x, i, k) /\ Place(y, j, m) /\ PieceAt(x, i, k) = PieceAt(y, j, m)
      BY <1>2 DEF Place, PieceAt
    <2>2. x = y /\ i = j /\ k = m
      BY <2>1 DEF HeldInv, HeldOnce
    <2> QED
      BY <2>2
  <1> QED
    BY <1>1, <1>2 DEF NothingLostOrDoubled

LEMMA HeldBegins == ConsoleInit => HeldInv
  <1> SUFFICES ASSUME ConsoleInit PROVE HeldInv
    OBVIOUS
  <1>1. printed = {} /\ appended = <<>> /\ pending = <<>> /\ \A w \in Writers : split[w] = <<>>
    BY DEF ConsoleInit
  <1>2. ASSUME NEW x, NEW i, NEW k PROVE ~Place(x, i, k)
    <2>1. CASE x = "ring"
      BY <1>1, <2>1 DEF Place, LinesOf
    <2>2. CASE x = "pending"
      BY <1>1, <2>2 DEF Place, LinesOf
    <2>3. CASE x \in Writers
      BY <1>1, <2>3, ConsoleAssumption DEF Place, LinesOf
    <2> QED
      BY <2>1, <2>2, <2>3 DEF Place, Holders
  <1> QED
    BY <1>1, <1>2 DEF HeldInv, AllHeld, HeldOnce, HeldAreOfThePast

\* What each place holds, with the names of the variables.
LEMMA LinesAre ==
  /\ LinesOf("ring") = appended /\ LinesOf("pending") = <<pending>>
  /\ \A w \in Writers : LinesOf(w) = split[w]
  /\ "ring" \in Holders /\ "pending" \in Holders /\ Writers \subseteq Holders
  /\ "ring" \notin Writers /\ "pending" \notin Writers
  BY ConsoleAssumption DEF LinesOf, Holders

LEMMA HeldStays ==
  ASSUME HeldInv, UNCHANGED <<printed, fed, pending, split, appended>>
  PROVE  HeldInv'
  <1>1. \A x : LinesOf(x)' = LinesOf(x)
    BY DEF LinesOf
  <1>2. \A x, i, k : Place(x, i, k)' = Place(x, i, k) /\ PieceAt(x, i, k)' = PieceAt(x, i, k)
    BY <1>1 DEF Place, PieceAt
  <1> QED
    BY <1>2 DEF HeldInv, AllHeld, HeldOnce, HeldAreOfThePast

\* A line that is appended leaves the thread's lines for the back of the ring; the others stay.
LEMMA AppendKeepsHeld ==
  ASSUME PrintType, HeldInv, NEW w \in Writers, AppendLine(w)
  PROVE  HeldInv'
  <1> DEFINE line == Head(split[w])
             rest == Tail(split[w])
  <1>1. /\ split[w] \in Seq(WholeLines) /\ split[w] # <<>> /\ appended \in Seq(WholeLines)
        /\ line \in WholeLines
        /\ split' = [split EXCEPT ![w] = rest] /\ appended' = Append(appended, line)
        /\ UNCHANGED <<fed, pending, printed>>
    BY NextLineIs DEF PrintType
  <1> PICK n : n = Len(appended) + 1
    OBVIOUS
  <1>2. /\ n = Len(appended) + 1 /\ n \in Nat /\ n \in 1..n /\ Len(appended) \in Nat /\ Len(split[w]) \in Nat /\ 1 \in DOMAIN split[w]
        /\ split[w][1] = line
        /\ DOMAIN appended = 1..Len(appended) /\ DOMAIN split[w] = 1..Len(split[w])
        /\ DOMAIN appended' = 1..n /\ appended'[n] = line
        /\ \A i \in 1..Len(appended) : appended'[i] = appended[i]
        /\ DOMAIN rest = 1..(Len(split[w]) - 1)
        /\ \A i \in 1..(Len(split[w]) - 1) : rest[i] = split[w][i + 1]
    BY <1>1
  <1>3. /\ LinesOf("ring")' = appended' /\ LinesOf("pending")' = LinesOf("pending")
        /\ LinesOf(w)' = rest
        /\ \A v \in Writers : v # w => LinesOf(v)' = LinesOf(v)
    BY <1>1, LinesAre DEF LinesOf, PrintType
  <1>4. ASSUME NEW x \in Holders PROVE x = "ring" \/ x = w \/ (x # "ring" /\ x # w /\ LinesOf(x)' = LinesOf(x))
    BY <1>3 DEF Holders
  <1> HIDE DEF line, rest
  <1> DEFINE oldX(x, i) == IF x = "ring" /\ i = n THEN w ELSE x
             oldI(x, i) == IF x = "ring" /\ i = n THEN 1 ELSE IF x = w THEN i + 1 ELSE i
  <1>5. ASSUME NEW x, NEW i, NEW k, Place(x, i, k)'
        PROVE  /\ Place(oldX(x, i), oldI(x, i), k)
               /\ PieceAt(oldX(x, i), oldI(x, i), k) = PieceAt(x, i, k)'
               /\ x = w => i \in Nat /\ i > 0
    <2>1. x \in Holders /\ i \in DOMAIN LinesOf(x)' /\ k \in DOMAIN LinesOf(x)'[i]
      BY <1>5 DEF Place
    <2>2. CASE x = "ring"
      <3>1. LinesOf("ring")' = appended' /\ LinesOf("ring") = appended /\ LinesOf(w) = split[w] /\ x # w
        BY <1>3, <2>2, LinesAre
      <3>2. CASE i = n
        BY <1>2, <2>1, <2>2, <3>1, <3>2, LinesAre DEF Place, PieceAt
      <3>3. CASE i # n
        <4>1. i \in 1..Len(appended)
          BY <1>2, <2>1, <2>2, <3>1, <3>3
        <4> QED
          BY <1>2, <2>1, <2>2, <3>1, <3>3, <4>1, LinesAre DEF Place, PieceAt
      <3> QED
        BY <3>2, <3>3
    <2>3. CASE x = w
      <3>1. LinesOf(w)' = rest /\ LinesOf(w) = split[w] /\ x # "ring"
        BY <1>3, <2>3, LinesAre
      <3>2. i \in 1..(Len(split[w]) - 1) /\ i + 1 \in DOMAIN split[w] /\ rest[i] = split[w][i + 1]
        BY <1>2, <2>1, <2>3, <3>1
      <3> QED
        BY <1>2, <2>1, <2>3, <3>1, <3>2, LinesAre DEF Place, PieceAt
    <2>4. CASE x # "ring" /\ x # w
      BY <1>4, <2>1, <2>4 DEF Place, PieceAt
    <2> QED
      BY <2>2, <2>3, <2>4
  <1>6. ASSUME NEW x, NEW i, NEW k, Place(x, i, k)
        PROVE  \E y, j : Place(y, j, k)' /\ PieceAt(y, j, k)' = PieceAt(x, i, k)
    <2>1. x \in Holders /\ i \in DOMAIN LinesOf(x) /\ k \in DOMAIN LinesOf(x)[i]
      BY <1>6 DEF Place
    <2>2. CASE x = "ring"
      <3>1. LinesOf("ring")' = appended' /\ LinesOf("ring") = appended
        BY <1>3, LinesAre
      <3>2. i \in DOMAIN appended' /\ appended'[i] = appended[i]
        BY <1>2, <2>1, <2>2, <3>1
      <3>3. Place(x, i, k)' /\ PieceAt(x, i, k)' = PieceAt(x, i, k)
        BY <2>1, <2>2, <3>1, <3>2 DEF Place, PieceAt
      <3> QED
        BY <3>3
    <2>3. CASE x = w /\ i = 1
      <3>1. LinesOf("ring")' = appended' /\ LinesOf(w) = split[w] /\ n \in DOMAIN appended'
        BY <1>2, <1>3, LinesAre
      <3>2. Place("ring", n, k)' /\ PieceAt("ring", n, k)' = PieceAt(x, i, k)
        <4>1. LinesOf("ring")'[n] = LinesOf(x)[i]
          BY <1>2, <2>3, <3>1
        <4>2. "ring" \in Holders /\ n \in DOMAIN LinesOf("ring")' /\ k \in DOMAIN LinesOf("ring")'[n]
          BY <2>1, <3>1, <4>1, LinesAre
        <4> QED
          BY <4>1, <4>2 DEF Place, PieceAt
      <3> QED
        BY <3>2
    <2>4. CASE x = w /\ i # 1
      <3>1. LinesOf(w)' = rest /\ LinesOf(w) = split[w]
        BY <1>3, LinesAre
      <3>2. i - 1 \in 1..(Len(split[w]) - 1) /\ (i - 1) + 1 = i
        BY <1>2, <2>1, <2>4, <3>1
      <3>3. i - 1 \in DOMAIN rest /\ rest[i - 1] = split[w][i]
        BY <1>2, <3>2
      <3>4. Place(x, i - 1, k)' /\ PieceAt(x, i - 1, k)' = PieceAt(x, i, k)
        BY <2>1, <2>4, <3>1, <3>3 DEF Place, PieceAt
      <3> QED
        BY <3>4
    <2>5. CASE x # "ring" /\ x # w
      BY <1>4, <2>1, <2>5 DEF Place, PieceAt
    <2> QED
      BY <2>2, <2>3, <2>4, <2>5
  <1>7. ASSUME NEW x, NEW i, NEW k, NEW y, NEW j, NEW m, Place(x, i, k)', Place(y, j, m)',
               PieceAt(x, i, k)' = PieceAt(y, j, m)'
        PROVE  x = y /\ i = j /\ k = m
    <2>1. oldX(x, i) = oldX(y, j) /\ oldI(x, i) = oldI(y, j) /\ k = m
      <3> HIDE DEF oldX, oldI
      <3>1. /\ Place(oldX(x, i), oldI(x, i), k) /\ Place(oldX(y, j), oldI(y, j), m)
            /\ PieceAt(oldX(x, i), oldI(x, i), k) = PieceAt(oldX(y, j), oldI(y, j), m)
        BY <1>5, <1>7
      <3> QED
        BY <3>1 DEF HeldInv, HeldOnce
    <2>2. (x = w => i \in Nat /\ i > 0) /\ (y = w => j \in Nat /\ j > 0) /\ w # "ring"
      BY <1>5, <1>7, LinesAre
    <2> QED
      BY <2>1, <2>2
  <1>8. HeldAreOfThePast'
    <2> SUFFICES ASSUME NEW x, NEW i, NEW k, Place(x, i, k)'
                 PROVE  PieceAt(x, i, k)'.feed \in 1..fed'
      BY DEF HeldAreOfThePast
    <2> HIDE DEF oldX, oldI
    <2> QED
      BY <1>1, <1>5 DEF HeldInv, HeldAreOfThePast
  <1>9. AllHeld'
    BY <1>1, <1>6 DEF HeldInv, AllHeld
  <1>10. HeldOnce'
    BY <1>7 DEF HeldOnce
  <1> QED
    BY <1>8, <1>9, <1>10 DEF HeldInv

\* A text is written: its first piece goes to the end of what was pending, which stays where it is (h is
\* "pending") or becomes the first line of the thread; its second, if it has one, has a line of its own.
LEMMA FeedPlaces ==
  ASSUME PrintType, FeedStep
  PROVE  \E h \in Holders, w \in Writers :
           /\ NextPiece(1) # NextPiece(2) /\ NextPiece(1).feed = fed + 1 /\ NextPiece(2).feed = fed + 1
           /\ split[w] = <<>> /\ h \in {"pending", w} /\ fed' = fed + 1 /\ appended' = appended
           /\ \A v \in Writers : v # w => split'[v] = split[v]
           /\ \/ /\ printed' = printed \cup {NextPiece(1)}
                 /\ \/ h = "pending" /\ pending' = Append(pending, NextPiece(1)) /\ split'[w] = <<>>
                    \/ h = w /\ pending' = <<>> /\ split'[w] = <<Append(pending, NextPiece(1))>>
              \/ /\ printed' = printed \cup {NextPiece(1), NextPiece(2)} /\ h = w
                 /\ \/ pending' = <<NextPiece(2)>> /\ split'[w] = <<Append(pending, NextPiece(1))>>
                    \/ pending' = <<>> /\ split'[w] = <<Append(pending, NextPiece(1)), <<NextPiece(2)>>>>
  <1>1. PICK w \in Writers :
         /\ FeedDoes(w)
         /\ split[w] = <<>> /\ unsaid[w] = <<>> /\ feedsLeft > 0
         /\ feedsLeft' = feedsLeft - 1 /\ fed' = fed + 1
         /\ UNCHANGED <<unsaid, messages, uid, appended, socketVars, pollVars>>
         /\ NextPiece(1) \in Pieces /\ NextPiece(2) \in Pieces
    BY FeedIs
  <1>2. NextPiece(1) # NextPiece(2) /\ NextPiece(1).feed = fed + 1 /\ NextPiece(2).feed = fed + 1
    BY DEF NextPiece
  <1>3. \A v \in Writers : v # w => split'[v] = split[v]
    BY <1>1 DEF FeedDoes, PrintType
  <1>4. split \in [Writers -> Seq(WholeLines)] /\ w \in Holders /\ "pending" \in Holders
    BY LinesAre DEF PrintType
  <1>5. CASE split' = split
    BY <1>1, <1>2, <1>3, <1>4, <1>5 DEF FeedDoes
  <1>6. CASE split' # split
    BY <1>1, <1>2, <1>3, <1>4, <1>6 DEF FeedDoes
  <1> QED
    BY <1>5, <1>6

LEMMA FeedKeepsHeld ==
  ASSUME PrintType, HeldInv, FeedStep
  PROVE  HeldInv'
  <1> DEFINE a == NextPiece(1)
             b == NextPiece(2)
             n == Len(pending) + 1
             first == Append(pending, a)
  <1>1. PICK h \in Holders, w \in Writers :
           /\ a # b /\ a.feed = fed + 1 /\ b.feed = fed + 1
           /\ split[w] = <<>> /\ h \in {"pending", w} /\ fed' = fed + 1 /\ appended' = appended
           /\ \A v \in Writers : v # w => split'[v] = split[v]
           /\ \/ /\ printed' = printed \cup {a}
                 /\ \/ h = "pending" /\ pending' = first /\ split'[w] = <<>>
                    \/ h = w /\ pending' = <<>> /\ split'[w] = <<first>>
              \/ /\ printed' = printed \cup {a, b} /\ h = w
                 /\ \/ pending' = <<b>> /\ split'[w] = <<first>>
                    \/ pending' = <<>> /\ split'[w] = <<first, <<b>>>>
    BY FeedPlaces
  <1>2. /\ n \in Nat /\ n \in 1..n /\ DOMAIN pending = 1..Len(pending) /\ DOMAIN first = 1..n /\ first[n] = a
        /\ \A k \in 1..Len(pending) : first[k] = pending[k] /\ k \in DOMAIN first /\ k # n
        /\ \A k \in 1..n : k = n \/ k \in 1..Len(pending)
    <2>1. pending \in Seq(Pieces)
      BY DEF PrintType, Lines
    <2> QED
      BY <2>1
  <1>3. /\ LinesOf("ring")' = LinesOf("ring") /\ LinesOf("pending")' = <<pending'>> /\ LinesOf(w)' = split'[w]
        /\ LinesOf("pending") = <<pending>> /\ LinesOf(w) = <<>> /\ w # "pending"
        /\ \A v \in Writers : v # w => LinesOf(v)' = LinesOf(v)
    BY <1>1, LinesAre DEF LinesOf
  <1>4. \A x \in Holders : x = "pending" \/ x = w \/ LinesOf(x)' = LinesOf(x)
    BY <1>3 DEF Holders
  <1>5. fed \in Nat /\ w \in Holders /\ "pending" \in Holders
    BY LinesAre DEF PrintType
  <1> HIDE DEF a, b, n, first
  \* Which places there are, and what they were before.
  <1>6. ASSUME NEW x, NEW i, NEW k, Place(x, i, k)'
        PROVE  \/ Place(x, i, k) /\ x # "pending" /\ x # w /\ PieceAt(x, i, k)' = PieceAt(x, i, k)
               \/ x = h /\ i = 1 /\ k \in 1..Len(pending) /\ PieceAt(x, i, k)' = pending[k]
               \/ x = h /\ i = 1 /\ k = n /\ PieceAt(x, i, k)' = a
               \/ x = "pending" /\ i = 1 /\ k = 1 /\ PieceAt(x, i, k)' = b /\ pending' = <<b>> /\ h = w
               \/ x = w /\ i = 2 /\ k = 1 /\ PieceAt(x, i, k)' = b /\ split'[w] = <<first, <<b>>>> /\ h = w
    <2>1. x \in Holders /\ i \in DOMAIN LinesOf(x)' /\ k \in DOMAIN LinesOf(x)'[i]
      BY <1>6 DEF Place
    <2>2. CASE x = "pending"
      <3>1. i = 1 /\ k \in DOMAIN pending' /\ PieceAt(x, i, k)' = pending'[k]
        BY <1>3, <2>1, <2>2 DEF PieceAt
      <3>2. CASE pending' = first /\ h = "pending"
        <4>1. k \in 1..n /\ PieceAt(x, i, k)' = first[k]
          BY <1>2, <3>1, <3>2
        <4> QED
          BY <1>2, <2>2, <3>1, <3>2, <4>1
      <3>3. CASE pending' = <<b>> /\ h = w
        BY <2>2, <3>1, <3>3
      <3>4. CASE pending' = <<>>
        BY <3>1, <3>4
      <3> QED
        BY <1>1, <3>2, <3>3, <3>4
    <2>3. CASE x = w
      <3>1. i \in DOMAIN split'[w] /\ k \in DOMAIN split'[w][i] /\ PieceAt(x, i, k)' = split'[w][i][k]
        BY <1>3, <2>1, <2>3 DEF PieceAt
      <3>2. ASSUME i = 1, split'[w][1] = first, h = w
            PROVE  k \in 1..n /\ PieceAt(x, i, k)' = first[k]
        BY <1>2, <3>1, <3>2
      <3>3. CASE split'[w] = <<first>> /\ h = w
        <4>1. i = 1 /\ split'[w][1] = first
          BY <3>1, <3>3
        <4> QED
          BY <1>2, <2>3, <3>2, <3>3, <4>1
      <3>4. CASE split'[w] = <<first, <<b>>>> /\ h = w
        <4>1. (i = 1 /\ split'[w][1] = first) \/ (i = 2 /\ split'[w][2] = <<b>>)
          BY <3>1, <3>4
        <4>2. CASE i = 1 /\ split'[w][1] = first
          BY <1>2, <2>3, <3>2, <3>4, <4>2
        <4>3. CASE i = 2 /\ split'[w][2] = <<b>>
          BY <2>3, <3>1, <3>4, <4>3
        <4> QED
          BY <4>1, <4>2, <4>3
      <3>5. CASE split'[w] = <<>>
        BY <3>1, <3>5
      <3> QED
        BY <1>1, <3>3, <3>4, <3>5
    <2>4. CASE x # "pending" /\ x # w
      BY <1>4, <2>1, <2>4 DEF Place, PieceAt
    <2> QED
      BY <2>2, <2>3, <2>4
  <1>7. /\ \A x, i, k : Place(x, i, k) => PieceAt(x, i, k) # a /\ PieceAt(x, i, k) # b
        /\ \A k \in 1..Len(pending) : Place("pending", 1, k) /\ PieceAt("pending", 1, k) = pending[k]
    <2>1. \A k \in 1..Len(pending) : Place("pending", 1, k) /\ PieceAt("pending", 1, k) = pending[k]
      BY <1>2, <1>3, <1>5 DEF Place, PieceAt
    <2>2. ASSUME NEW x, NEW i, NEW k, Place(x, i, k) PROVE PieceAt(x, i, k) # a /\ PieceAt(x, i, k) # b
      <3>1. PieceAt(x, i, k).feed \in 1..fed
        BY <2>2 DEF HeldInv, HeldAreOfThePast
      <3> QED
        BY <1>1, <1>5, <3>1
    <2> QED
      BY <2>1, <2>2
  \* What is held stays held, and the new pieces are.
  <1>8. \A k \in 1..n : Place(h, 1, k)' /\ PieceAt(h, 1, k)' = first[k]
    <2> SUFFICES ASSUME NEW k \in 1..n PROVE Place(h, 1, k)' /\ PieceAt(h, 1, k)' = first[k]
      OBVIOUS
    <2>1. LinesOf(h)'[1] = first /\ 1 \in DOMAIN LinesOf(h)'
      BY <1>1, <1>3
    <2> QED
      BY <1>2, <2>1 DEF Place, PieceAt
  <1>9. ASSUME printed' # printed \cup {a} PROVE \E x, i : Place(x, i, 1)' /\ PieceAt(x, i, 1)' = b
    <2>0. pending' = <<b>> \/ split'[w] = <<first, <<b>>>>
      BY <1>1, <1>9
    <2>1. CASE pending' = <<b>>
      <3>1. Place("pending", 1, 1)' /\ PieceAt("pending", 1, 1)' = b
        BY <1>3, <1>5, <2>1 DEF Place, PieceAt
      <3> QED
        BY <3>1
    <2>2. CASE split'[w] = <<first, <<b>>>>
      <3>1. Place(w, 2, 1)' /\ PieceAt(w, 2, 1)' = b
        BY <1>3, <1>5, <2>2 DEF Place, PieceAt
      <3> QED
        BY <3>1
    <2> QED
      BY <2>0, <2>1, <2>2
  <1>10. ASSUME NEW x, NEW i, NEW k, Place(x, i, k)
         PROVE  \E y, j, m : Place(y, j, m)' /\ PieceAt(y, j, m)' = PieceAt(x, i, k)
    <2>1. x \in Holders /\ i \in DOMAIN LinesOf(x) /\ k \in DOMAIN LinesOf(x)[i]
      BY <1>10 DEF Place
    <2>2. CASE x = "pending"
      <3>1. i = 1 /\ k \in 1..Len(pending) /\ k \in 1..n
        BY <1>2, <1>3, <2>1, <2>2
      <3>2. Place(h, 1, k)' /\ PieceAt(h, 1, k)' = PieceAt(x, i, k)
        BY <1>2, <1>7, <1>8, <2>2, <3>1
      <3> QED
        BY <3>2
    <2>3. CASE x = w
      BY <1>3, <2>1, <2>3
    <2>4. CASE x # "pending" /\ x # w
      BY <1>4, <2>1, <2>4 DEF Place, PieceAt
    <2> QED
      BY <2>2, <2>3, <2>4
  <1>11. AllHeld'
    <2> SUFFICES ASSUME NEW p \in printed' PROVE \E x, i, k : Place(x, i, k)' /\ PieceAt(x, i, k)' = p
      BY DEF AllHeld
    <2>1. CASE p \in printed
      BY <1>10, <2>1 DEF HeldInv, AllHeld
    <2>2. CASE p = a
      BY <1>2, <1>8, <2>2
    <2>3. CASE p = b /\ printed' # printed \cup {a}
      BY <1>9, <2>3
    <2> QED
      BY <1>1, <2>1, <2>2, <2>3
  <1>12. HeldOnce'
    <2> SUFFICES ASSUME NEW x, NEW i, NEW k, NEW y, NEW j, NEW m, Place(x, i, k)', Place(y, j, m)',
                        PieceAt(x, i, k)' = PieceAt(y, j, m)'
                 PROVE  x = y /\ i = j /\ k = m
      BY DEF HeldOnce
    <2> PICK p : p = PieceAt(x, i, k)' /\ p = PieceAt(y, j, m)'
      OBVIOUS
    <2> DEFINE Stays(X, I, K) == Place(X, I, K) /\ X # "pending" /\ X # w /\ PieceAt(X, I, K) = p
               InFirst(X, I, K) == X = h /\ I = 1 /\ K \in 1..Len(pending) /\ p = pending[K]
               IsA(X, I, K) == X = h /\ I = 1 /\ K = n /\ p = a
               IsB(X, I, K) == K = 1 /\ p = b /\
                  \/ X = "pending" /\ I = 1 /\ pending' = <<b>> /\ h = w
                  \/ X = w /\ I = 2 /\ split'[w] = <<first, <<b>>>> /\ h = w
    <2>1. /\ Stays(x, i, k) \/ InFirst(x, i, k) \/ IsA(x, i, k) \/ IsB(x, i, k)
          /\ Stays(y, j, m) \/ InFirst(y, j, m) \/ IsA(y, j, m) \/ IsB(y, j, m)
      BY <1>6
    <2>2. CASE Stays(x, i, k) /\ Stays(y, j, m)
      BY <2>2 DEF HeldInv, HeldOnce
    <2>3. CASE InFirst(x, i, k) /\ InFirst(y, j, m)
      <3>1. /\ Place("pending", 1, k) /\ Place("pending", 1, m)
            /\ PieceAt("pending", 1, k) = PieceAt("pending", 1, m)
        BY <1>7, <2>3
      <3>2. k = m
        BY <3>1 DEF HeldInv, HeldOnce
      <3> QED
        BY <2>3, <3>2
    <2>4. CASE Stays(x, i, k) /\ InFirst(y, j, m)
      BY <1>7, <2>4 DEF HeldInv, HeldOnce
    <2>5. CASE InFirst(x, i, k) /\ Stays(y, j, m)
      BY <1>7, <2>5 DEF HeldInv, HeldOnce
    <2>6. CASE IsA(x, i, k) /\ IsA(y, j, m)
      BY <2>6
    <2>7. CASE IsB(x, i, k) /\ IsB(y, j, m)
      <3>1. ~(pending' = <<b>> /\ split'[w] = <<first, <<b>>>>)
        BY <1>1
      <3> QED
        BY <2>7, <3>1
    <2>8. CASE IsA(x, i, k) /\ IsB(y, j, m)
      BY <1>1, <2>8
    <2>9. CASE IsB(x, i, k) /\ IsA(y, j, m)
      BY <1>1, <2>9
    <2>10. CASE (Stays(x, i, k) \/ InFirst(x, i, k)) /\ (IsA(y, j, m) \/ IsB(y, j, m))
      BY <1>7, <2>10
    <2>11. CASE (IsA(x, i, k) \/ IsB(x, i, k)) /\ (Stays(y, j, m) \/ InFirst(y, j, m))
      BY <1>7, <2>11
    <2>12. CASE Stays(x, i, k)
      <3>1. CASE Stays(y, j, m)
        BY <2>2, <2>12, <3>1
      <3>2. CASE InFirst(y, j, m)
        BY <2>4, <2>12, <3>2
      <3>3. CASE IsA(y, j, m) \/ IsB(y, j, m)
        BY <2>10, <2>12, <3>3
      <3> QED
        BY <2>1, <3>1, <3>2, <3>3
    <2>13. CASE InFirst(x, i, k)
      BY <2>1, <2>3, <2>5, <2>10, <2>13
    <2>14. CASE IsA(x, i, k)
      <3>1. CASE IsA(y, j, m)
        BY <2>6, <2>14, <3>1
      <3>2. CASE IsB(y, j, m)
        BY <2>8, <2>14, <3>2
      <3>3. CASE Stays(y, j, m) \/ InFirst(y, j, m)
        BY <2>11, <2>14, <3>3
      <3> QED
        BY <2>1, <3>1, <3>2, <3>3
    <2>15. CASE IsB(x, i, k)
      BY <2>1, <2>7, <2>9, <2>11, <2>15
    <2> QED
      BY <2>1, <2>12, <2>13, <2>14, <2>15
  <1>13. HeldAreOfThePast'
    <2> SUFFICES ASSUME NEW x, NEW i, NEW k, Place(x, i, k)' PROVE PieceAt(x, i, k)'.feed \in 1..fed'
      BY DEF HeldAreOfThePast
    <2>1. /\ a.feed \in 1..fed' /\ b.feed \in 1..fed'
          /\ \A r, s, t : Place(r, s, t) => PieceAt(r, s, t).feed \in 1..fed'
      <3>1. \A r, s, t : Place(r, s, t) => PieceAt(r, s, t).feed \in 1..fed
        BY DEF HeldInv, HeldAreOfThePast
      <3> QED
        BY <1>1, <1>5, <3>1
    <2> QED
      BY <1>6, <1>7, <2>1
  <1> QED
    BY <1>11, <1>12, <1>13 DEF HeldInv

LEMMA HeldStep ==
  ASSUME PrintType, HeldInv, [ConsoleNext]_consoleVars
  PROVE  HeldInv'
  <1>1. ASSUME NEW w \in Writers, EmitLine(w) PROVE HeldInv'
    BY <1>1, HeldStays DEF EmitLine
  <1>2. CASE DeliverLine \/ SendLine \/ PollStep
    BY <1>2, HeldStays DEF DeliverLine, SendLine, PollStep, PollMessages, PollCompare, PollUid, writeVars
  <1>3. CASE UNCHANGED consoleVars
    BY <1>3, HeldStays DEF consoleVars, writeVars
  <1> QED
    BY <1>1, <1>2, <1>3, AppendKeepsHeld, FeedKeepsHeld, PrintSteps

\* Whatever the threads that print do, every piece of a text is in one line, or pending, and in one only:
\* none is lost between the critical sections of feed and _append (console.py), and none is doubled.
THEOREM PrintedIsKept == MonitoringSpec => []NothingLostOrDoubled
  <1>1. MonitoringInit => PrintType /\ HeldInv
    BY PrintTypeBegins, HeldBegins DEF MonitoringInit
  <1>2. [MonitoringNext]_monitoringVars => [ConsoleNext]_consoleVars
    BY DEF MonitoringNext, monitoringVars, consoleVars
  <1>3. PrintType /\ HeldInv /\ [ConsoleNext]_consoleVars => PrintType' /\ HeldInv'
    BY PrintTypeStep, HeldStep
  <1> QED
    BY <1>1, <1>2, <1>3, HeldIsEnough, PTL DEF MonitoringSpec
=============================================================================
