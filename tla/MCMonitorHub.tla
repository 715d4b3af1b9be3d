---------------------------- MODULE MCMonitorHub ----------------------------
(* Instances of MonitorHub for TLC: one browser that reads, m1, and        *)
(* perhaps one that may stall, m2.                                         *)
EXTENDS MonitorHub

CONSTANTS m1, m2
=============================================================================
