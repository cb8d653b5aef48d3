----------------------------- MODULE MCInputReplay -----------------------------
(***************************************************************************)
(* InputReplay for TLC: rounds of two harts and input points every three   *)
(* steps, so that one round steps over a point, the next lands on one and  *)
(* the next passes none; a ring of one byte and a net of one frame, so     *)
(* that both fill; a snapshot after the first input.                       *)
(***************************************************************************)
EXTENDS InputReplay

MCStrides == {2}
MCDeeds == [gpu \in BOOLEAN |->
  IF gpu THEN {"command", "open", "close", "venus", "write"}
           ELSE {"prompt", "read", "frame", "post", "release"}]
=============================================================================
