------------------------------ MODULE MCMonitoring ------------------------------
(* Instances of Monitoring for TLC.  Its parts share no variable, so it is      *)
(* enough to run each while the others have nothing to do.                      *)
EXTENDS Monitoring, TLC

MCInit ==
    /\ MonitoringInit
    /\ \/ feedsLeft = 0 /\ unused = {}
       \/ feedsLeft = 0 /\ plansLeft = 0
       \/ unused = {} /\ plansLeft = 0

MCSpec == MCInit /\ [][MonitoringNext]_monitoringVars

MCSymmetry == Permutations(Writers) \cup Permutations(Statuses)
=================================================================================
