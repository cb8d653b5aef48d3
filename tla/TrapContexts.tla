------------------------------ MODULE TrapContexts ------------------------------
(***************************************************************************)
(* What a trap and the return from it promise the software, whatever       *)
(* registers they are kept in: each of the three levels that handle traps, *)
(* M, HS and VS, holds the context its last trap interrupted, and a return *)
(* at that level resumes it.  Module Traps has the registers, and is shown *)
(* to implement this.                                                      *)
(***************************************************************************)

CONSTANT LpModes   \* the modes that enforce landing pads (the LPE enables)

Modes == {"M", "HS", "U", "VS", "VU"}
Levels == {"M", "HS", "VS"}
Context == [mode : Modes, ie : BOOLEAN, elp : BOOLEAN]

VARIABLES
  mode,     \* the mode the hart is in
  ie,       \* the interrupt enable of each level
  elp,      \* a landing pad is expected
  saved,    \* the context each level would return to
  guest     \* the mode of the guest HS last took a trap from (hstatus.SPVP)

cvars == <<mode, ie, elp, saved, guest>>

Guest == {"VS", "VU"}

(* Mode m runs below level l: its software cannot keep l's traps away.     *)
Below(m, l) == \/ l = "M" /\ m # "M"
               \/ l = "HS" /\ m \in {"U", "VS", "VU"}
               \/ l = "VS" /\ m = "VU"

(* The context a level is left with after a return.                        *)
Least(l) == [mode |-> IF l = "VS" THEN "VU" ELSE "U", ie |-> TRUE, elp |-> FALSE]

ContextsInit ==
  /\ mode = "M"
  /\ ie = [l \in Levels |-> FALSE]
  /\ elp = FALSE
  /\ saved = [l \in Levels |-> [Least(l) EXCEPT !.ie = FALSE]]
  /\ guest = "VU"

(* A trap to level l: the context is saved there, interrupts are disabled  *)
(* there, and no other level is disturbed.                                 *)
Trap(l) ==
  /\ Below(mode, l) \/ mode = l
  /\ saved' = [saved EXCEPT ![l] = [mode |-> mode, ie |-> ie[l], elp |-> elp]]
  /\ ie' = [ie EXCEPT ![l] = FALSE]
  /\ elp' = FALSE
  /\ mode' = l
  /\ guest' = IF l = "HS" /\ mode \in Guest THEN mode ELSE guest

(* The return of level l.  MRET is left open to every mode, as it is in    *)
(* the code.                                                               *)
MayReturn(l) == \/ l = "M"
                \/ l = "HS" /\ mode \in {"M", "HS"}
                \/ l = "VS" /\ mode = "VS"

Return(l) ==
  /\ MayReturn(l) /\ ~elp
  /\ mode' = saved[l].mode
  /\ ie' = [ie EXCEPT ![l] = saved[l].ie]
  /\ elp' = (saved[l].elp /\ saved[l].mode \in LpModes)
  /\ saved' = [saved EXCEPT ![l] = Least(l)]
  /\ UNCHANGED guest

(* Software at a level or above it writes what the level holds.            *)
MayWrite(l) == mode = l \/ mode = "M" \/ (mode = "HS" /\ l = "VS")

Write(l) ==
  /\ MayWrite(l) /\ ~elp
  /\ \E b \in BOOLEAN : ie' = [ie EXCEPT ![l] = b]
  /\ \E c \in Context : saved' = [saved EXCEPT ![l] = c]
  /\ guest' \in Guest /\ (l = "VS" => guest' = guest)
  /\ UNCHANGED <<mode, elp>>

(* An indirect jump and the landing pad it must reach.                     *)
Jump == ~elp /\ mode \in LpModes /\ elp' = TRUE /\ UNCHANGED <<mode, ie, saved, guest>>
Land == elp /\ elp' = FALSE /\ UNCHANGED <<mode, ie, saved, guest>>

ContextsNext == (\E l \in Levels : Trap(l) \/ Return(l) \/ Write(l)) \/ Jump \/ Land

ContextsSpec == ContextsInit /\ [][ContextsNext]_cvars
===============================================================================
