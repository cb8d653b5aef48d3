---------------------------- MODULE MCReservations ----------------------------
(* Three harts and two reservation sets: the counter can be wrong by one   *)
(* in either direction with a third hart's reservation at stake, and a     *)
(* store can hit one hart's set and miss another's.                        *)
EXTENDS Reservations, TLC

CONSTANTS h1, h2, h3, s1, s2

MCHarts == {h1, h2, h3}
MCSets == {s1, s2}

(* The harts and the sets are interchangeable: no action orders them.      *)
Perms == Permutations(MCHarts) \cup Permutations(MCSets)
=============================================================================
