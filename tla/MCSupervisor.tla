---------------------------- MODULE MCSupervisor ----------------------------
(* The thresholds of pidctl.c, and errors on both sides of each of them.   *)
EXTENDS Supervisor

MCErrors == {0, 399, 400, 600, 601, 899, 900, 1200, 1201, 4095}
=============================================================================
