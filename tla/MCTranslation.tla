----------------------------- MODULE MCTranslation -----------------------------
(* One hart over one table, of a superpage and two pages.  Software puts   *)
(* the superpage in and takes it out, and page 1's own entry; page 2 has   *)
(* the superpage or nothing.  They are frames 1 and 2 untranslated and 3   *)
(* and 4 under the superpage; 1 holds tohost, 2 is a framebuffer, 4 is a   *)
(* device.  The caches have one set, so that the two pages evict each      *)
(* other.                                                                  *)
EXTENDS Translation, TLC

MCPte(f, perm, u, a, d, b) ==
  [frame |-> f, perm |-> perm, u |-> u, a |-> a, d |-> d, pbmt |-> b]

Absent == MCPte(0, {}, FALSE, FALSE, FALSE, FALSE)

MCPtes == <<{Absent, MCPte(2, {"r", "w"}, TRUE, TRUE, FALSE, TRUE)}, {}>>
          @@ (Mega :> {Absent, MCPte(2, {"r", "w", "x"}, FALSE, TRUE, TRUE, FALSE)})
MCPmp == {[f \in Frames |-> Kinds],
          [f \in Frames |-> IF f = 2 THEN {"fetch"} ELSE Kinds]}
MCFlags == {<<FALSE, FALSE>>, <<TRUE, FALSE>>}
=============================================================================
