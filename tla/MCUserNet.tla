------------------------------- MODULE MCUserNet -------------------------------
(***************************************************************************)
(* UserNet for TLC: windows of two bytes or of one, so that both sides     *)
(* close theirs; sequence numbers that wrap within each stream; room for   *)
(* two frames each way, which is sometimes not enough.                     *)
(***************************************************************************)
EXTENDS UserNet
=================================================================================
