-------------------------------- MODULE MCTraps --------------------------------
(* One interrupt of each level, two of HS's; exceptions delegated nowhere, *)
(* to HS and to VS; landing pads enforced in VS, whose traps go to all     *)
(* three levels.                                                           *)
EXTENDS Traps

MCLines == <<"MTI", "SEI", "STI", "VSTI">>
===============================================================================
