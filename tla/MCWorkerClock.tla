---------------------------- MODULE MCWorkerClock ----------------------------
(* A second of three microseconds; the period main passes, one with a carry,  *)
(* and clocks set to any of the first seconds.                                *)
EXTENDS WorkerClock

CONSTANT MaxSetting

MCPeriods == {[tv_sec |-> 1, tv_usec |-> 0], [tv_sec |-> 0, tv_usec |-> 2]}

MCSettings == [tv_sec : 0 .. MaxSetting, tv_usec : 0 .. Million - 1]
=============================================================================
