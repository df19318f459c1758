---------------------------- MODULE MC_DriverTasks ----------------------------
(* DriverTasks.tla on small instances.                                       *)
EXTENDS DriverTasks
Threads3    == {"mlme", "timer", "cmd"}
TwoTimers   == {"mlmePeriodic", "assoc"}
OnePeriodic == {"mlmePeriodic"}
TwoKinds    == {"tick", "setKey"}
=============================================================================
