--------------------------------- MODULE MCPmp ---------------------------------
(***************************************************************************)
(* Three entries of which two can be written, eight granules, pages of     *)
(* four.  One hart writes every mode; another, which shares the list,      *)
(* opens everything.                                                       *)
(***************************************************************************)
EXTENDS Pmp, TLC

CONSTANTS h1, h2

MCHarts == {h1, h2}
RWX == {"r", "w", "x"}
Byte(a, perm, l) == [a |-> a, perm |-> perm, l |-> l]

MCCfgWrites ==
  (h1 :> [0..1 -> {Byte("TOR", {"r", "w"}, FALSE), Byte("TOR", {"w", "x"}, TRUE),
                   Byte("NA4", {"r"}, TRUE), Byte("NAPOT", {"x"}, FALSE)}])
  @@ (h2 :> {[j \in 0..1 |-> Byte("NAPOT", RWX, FALSE)]})
MCAddrWrites == (h1 :> {3, 4, 10}) @@ (h2 :> {7})

(* A snapshot with what h1 locked unlocked, and one with a lock of h2's.   *)
MCSnapshots ==
  LET cfgOf(c) == [i \in Entry |-> IF i = 0 THEN c ELSE Off]
      addrOf(v) == [i \in Entry |-> IF i = 0 THEN v ELSE 0]
  IN  {[cfg |-> (h1 :> cfgOf(Byte("NAPOT", RWX, FALSE))) @@ (h2 :> cfgOf(Byte("TOR", {"r"}, TRUE))),
        addr |-> (h1 :> addrOf(7)) @@ (h2 :> addrOf(4))]}
===============================================================================
