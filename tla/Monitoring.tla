------------------------------- MODULE Monitoring -------------------------------
(***************************************************************************)
(* What the service tells its clients about the running plan: what is      *)
(* printed, how far its devices are, and whether it has stalled.  Console  *)
(* and progress use one event bus, which hands each event to the           *)
(* subscribers on the thread that emits it; the three share nothing else.  *)
(***************************************************************************)
EXTENDS ConsoleCapture, ProgressWatcher, StallAlarm

monitoringVars == <<consoleVars, progressVars, stallVars>>

MonitoringTypeOK == ConsoleTypeOK /\ ProgressTypeOK /\ StallTypeOK

MonitoringInit == ConsoleInit /\ ProgressInit /\ StallInit

MonitoringNext ==
    \/ ConsoleNext /\ UNCHANGED <<progressVars, stallVars>>
    \/ ProgressNext /\ UNCHANGED <<consoleVars, stallVars>>
    \/ StallNext /\ UNCHANGED <<consoleVars, progressVars>>

MonitoringSpec == MonitoringInit /\ [][MonitoringNext]_monitoringVars
=================================================================================
