------------------------------ MODULE MCFastRun ------------------------------
(***************************************************************************)
(* FastRun for TLC: input points at 4 and 8, a halt in the middle of a     *)
(* burst at 3, a snapshot at 7, an end at 9 that is no input point.  Of    *)
(* the two counters only minstret is followed here; the theorems are about *)
(* both.                                                                   *)
(***************************************************************************)
EXTENDS FastRun

MCTimeValues == {1, 3}
MCDoes == Ops
MCCounters == {"instret"}
=============================================================================
