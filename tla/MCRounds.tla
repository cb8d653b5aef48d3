------------------------------- MODULE MCRounds -------------------------------
(* Two harts for the liveness of the rounds: hart 1 waits in WFI, hart 2   *)
(* on reservations, and hart 1's slot may halt the machine.                *)
EXTENDS CachedRounds

LiveDoes == <<{"mie", "wfi", "halt"}, {"wrs", "lr"}>>
LiveMie == {{"other"}}
=============================================================================
