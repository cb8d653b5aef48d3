--------------------------------- MODULE MCAia ---------------------------------
(* Two harts, one of them programming its file or its IDC: a source can    *)
(* move from one to the other.  Two sources and two identities make one    *)
(* claim wait for another.                                                 *)
EXTENDS Aia

MCTargets == {[hart |-> 1, num |-> 1], [hart |-> 1, num |-> 2], [hart |-> 2, num |-> 1],
              [hart |-> 3, num |-> 1]}
MCUses == [b \in BOOLEAN |-> IF b THEN {1} ELSE {1, 2}]
===============================================================================
