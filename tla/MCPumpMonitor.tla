---------------------------- MODULE MCPumpMonitor ----------------------------
(* Instances of PumpMonitor for TLC. *)
EXTENDS PumpMonitor
Two == 1..2
==============================================================================
