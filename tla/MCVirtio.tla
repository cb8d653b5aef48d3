------------------------------- MODULE MCVirtio -------------------------------
(***************************************************************************)
(* Virtio for TLC: each of the three devices in turn, the sound card with  *)
(* its output only -- the input's code differs in the samples it writes.   *)
(* Queues of two, or of one where the driver has one request at a time;    *)
(* positions wrap at twice that.  More come for the guest than there is    *)
(* room for.                                                               *)
(***************************************************************************)
EXTENDS Virtio

MCSize == [q \in Queue |-> IF q \in {"receive", "event", "tx"} THEN 2 ELSE 1]
MCWrap == [q \in Queue |-> 2 * MCSize[q]]
MCStreams == {"tx"}
===============================================================================
