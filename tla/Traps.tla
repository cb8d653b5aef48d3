--------------------------------- MODULE Traps ---------------------------------
(***************************************************************************)
(* Trap entry, return and interrupt choice of one hart with the hypervisor *)
(* extension (src/extensions/ext_zicsr.cpp: enter_trap,                    *)
(* check_and_take_interrupt, exec_32ZICSR; src/extensions/ext_zicfilp.hpp).*)
(*                                                                         *)
(* The context of a trap is spread over registers that levels share: M's   *)
(* and HS's stacks are fields of one mstatus, whether HS was entered from  *)
(* a guest is in hstatus, and VS has a status register of its own that the *)
(* guest reaches by HS's names.  pc and its xepc, xcause and xtval are     *)
(* written by the same branches and left out.  The delegation registers    *)
(* and the LPE enables are parameters: nothing here depends on their being *)
(* written while a trap is being handled.  Which interrupts are pending    *)
(* and enabled (compute_mip and mie, modules HartRounds and Aia) is an     *)
(* input of each check.  misa.H and Zicfilp are present.                   *)
(***************************************************************************)
EXTENDS Integers, Sequences

CONSTANTS
  Lines,             \* the interrupts, in priority_order
  VsLines,           \* those of them that belong to VS
  Mideleg, Hideleg,  \* the interrupts M delegates, and HS in turn
  Causes,            \* the exceptions
  Medeleg, Hedeleg,  \* those M delegates, and HS in turn
  LpModes,           \* the modes whose LPE is set; "U" is U and VU
  Written            \* the status fields software writes

Line == {Lines[i] : i \in 1..Len(Lines)}
None == "none"
Privs == {"M", "S", "U"}
MFields == {"mie", "mpie", "mpp", "mpv", "mpelp"}
SFields == {"sie", "spie", "spp", "spelp"}
HFields == {"spv", "spvp"}

(* hideleg and hedeleg keep only what their write masks let through.       *)
ASSUME LinesAssumption ==
  /\ Lines \in Seq(STRING) /\ None \notin Line
  /\ VsLines \subseteq Mideleg /\ Mideleg \subseteq Line /\ Hideleg \subseteq VsLines
ASSUME CausesAssumption == Medeleg \subseteq Causes /\ Hedeleg \subseteq Causes
ASSUME ModesAssumption == LpModes \subseteq {"M", "HS", "U", "VS"}
ASSUME WrittenAssumption == Written \subseteq MFields \cup SFields \cup HFields

VARIABLES
  priv, virt,  \* the mode: (priv, virt) is one of M, HS, U, VS, VU
  elp,         \* a landing pad is expected
  mstatus,     \* the M and S fields
  hstatus,     \* spv, spvp
  vsstatus     \* the S fields again, VS's own

vars == <<priv, virt, elp, mstatus, hstatus, vsstatus>>

-------------------------------------------------------------------------------
Init ==
  /\ priv = "M" /\ virt = FALSE /\ elp = FALSE
  /\ mstatus = [mie |-> FALSE, mpie |-> FALSE, mpp |-> "U", mpv |-> FALSE, mpelp |-> FALSE,
                sie |-> FALSE, spie |-> FALSE, spp |-> FALSE, spelp |-> FALSE]
  /\ hstatus = [spv |-> FALSE, spvp |-> FALSE]
  /\ vsstatus = [sie |-> FALSE, spie |-> FALSE, spp |-> FALSE, spelp |-> FALSE]

(* enabled: landing pads are enforced in a mode.  senvcfg serves U and VU. *)
LpEnabled(p, v) ==
  \/ p # "S" /\ p \in LpModes
  \/ p = "S" /\ v /\ "VS" \in LpModes
  \/ p = "S" /\ ~v /\ "HS" \in LpModes

(* enter_trap: the level a trap is taken at, delegated by M (deleg) and by *)
(* HS (hdeleg).                                                            *)
TrapLevel(deleg, hdeleg) ==
  IF priv = "M" \/ ~deleg THEN "M"
  ELSE IF virt /\ hdeleg THEN "VS"
  ELSE "HS"

(* enter_trap to VS: everything is stacked in vsstatus.                    *)
EnterVs ==
  /\ vsstatus' = [sie |-> FALSE, spie |-> vsstatus.sie, spp |-> priv = "S", spelp |-> elp]
  /\ priv' = "S"
  /\ UNCHANGED <<virt, mstatus, hstatus>>

(* A mutant of EnterHs: SPV is set for a guest and never cleared.          *)
EnterHsSpvSticks ==
  /\ mstatus' = [mstatus EXCEPT !.sie = FALSE, !.spie = mstatus.sie,
                                !.spp = (priv = "S"), !.spelp = elp]
  /\ hstatus' = [spv |-> hstatus.spv \/ virt, spvp |-> IF virt THEN priv = "S" ELSE hstatus.spvp]
  /\ virt' = FALSE
  /\ priv' = "S"
  /\ UNCHANGED vsstatus

(* enter_trap to HS.  SPVP stands if the trap is not from a guest.         *)
EnterHs ==
  /\ mstatus' = [mstatus EXCEPT !.sie = FALSE, !.spie = mstatus.sie,
                                !.spp = (priv = "S"), !.spelp = elp]
  /\ hstatus' = [spv |-> virt, spvp |-> IF virt THEN priv = "S" ELSE hstatus.spvp]
  /\ virt' = FALSE
  /\ priv' = "S"
  /\ UNCHANGED vsstatus

(* enter_trap to M.                                                        *)
EnterM ==
  /\ mstatus' = [mstatus EXCEPT !.mie = FALSE, !.mpie = mstatus.mie,
                                !.mpp = priv, !.mpv = virt, !.mpelp = elp]
  /\ virt' = FALSE
  /\ priv' = "M"
  /\ UNCHANGED <<hstatus, vsstatus>>

EnterTrap(deleg, hdeleg) ==
  LET level == TrapLevel(deleg, hdeleg)
  IN  /\ elp' = FALSE
      /\ \/ level = "VS" /\ EnterVs
         \/ level = "HS" /\ EnterHs
         \/ level = "M" /\ EnterM

-------------------------------------------------------------------------------
(* check_and_take_interrupt.                                               *)

(* The first of the pending and enabled interrupts p in priority_order.    *)
First(p) == LET i == CHOOSE i \in 1..Len(Lines) :
                       Lines[i] \in p /\ \A j \in 1..(i - 1) : Lines[j] \notin p
            IN  Lines[i]

(* A mutant of Unmasked: HS's SIE masks HS's interrupts in VS too.         *)
UnmaskedReadsSie(b) ==
  IF b \in Mideleg /\ b \in Hideleg
  THEN virt /\ (priv = "S" => vsstatus.sie)
  ELSE IF b \notin Mideleg
  THEN priv = "M" => mstatus.mie
  ELSE priv # "M" /\ (priv = "S" => mstatus.sie)

(* The hart's state lets interrupt b be taken.                             *)
Unmasked(b) ==
  IF b \in Mideleg /\ b \in Hideleg
  THEN virt /\ (priv = "S" => vsstatus.sie)
  ELSE IF b \notin Mideleg
  THEN priv = "M" => mstatus.mie
  ELSE priv # "M" /\ (priv = "S" /\ ~virt => mstatus.sie)

(* The interrupt taken of p, or None: the first, if it can be; no other is *)
(* tried.                                                                  *)
Taken(p) == IF p # {} /\ Unmasked(First(p)) THEN First(p) ELSE None

Interrupt(p) ==
  /\ Taken(p) # None
  /\ EnterTrap(Taken(p) \in Mideleg, Taken(p) \in Hideleg)

-------------------------------------------------------------------------------
(* An exception: an ECALL, a fault, an illegal or virtual instruction, an  *)
(* SRET that TSR or VTSR traps, an instruction that is not the landing pad *)
(* that was expected.                                                      *)
Exception(c) == EnterTrap(c \in Medeleg, c \in Hedeleg)

(* LPAD.  With the wrong label an Exception follows in the same step.      *)
Lpad == elp /\ elp' = FALSE /\ UNCHANGED <<priv, virt, mstatus, hstatus, vsstatus>>

(* JALR, but for a return: a landing pad must follow.                      *)
Jalr ==
  /\ ~elp
  /\ LpEnabled(priv, virt)
  /\ elp' = TRUE
  /\ UNCHANGED <<priv, virt, mstatus, hstatus, vsstatus>>

(* SRET in VS: the guest's own return.                                     *)
SretVs ==
  /\ ~elp /\ priv = "S" /\ virt
  /\ vsstatus' = [sie |-> vsstatus.spie, spie |-> TRUE, spp |-> FALSE, spelp |-> FALSE]
  /\ priv' = IF vsstatus.spp THEN "S" ELSE "U"
  /\ elp' = (vsstatus.spelp /\ LpEnabled(priv', virt))
  /\ UNCHANGED <<virt, mstatus, hstatus>>

(* SRET in HS, or in M: into the guest if SPV says so, which is cleared.   *)
Sret ==
  /\ ~elp /\ priv # "U" /\ ~virt
  /\ mstatus' = [mstatus EXCEPT !.sie = mstatus.spie, !.spie = TRUE,
                                !.spp = FALSE, !.spelp = FALSE]
  /\ virt' = hstatus.spv
  /\ hstatus' = [hstatus EXCEPT !.spv = FALSE]
  /\ priv' = IF mstatus.spp THEN "S" ELSE "U"
  /\ elp' = (mstatus.spelp /\ LpEnabled(priv', virt'))
  /\ UNCHANGED vsstatus

(* A mutant of MretVirt: MPV is believed whatever MPP is.                  *)
MretVirtAlways == mstatus.mpv

(* MRET goes to a guest: MPV means something below M only.                 *)
MretVirt == mstatus.mpv /\ mstatus.mpp # "M"

Mret ==
  /\ ~elp
  /\ mstatus' = [mstatus EXCEPT !.mie = mstatus.mpie, !.mpie = TRUE,
                                !.mpp = "U", !.mpv = FALSE, !.mpelp = FALSE]
  /\ virt' = MretVirt
  /\ priv' = mstatus.mpp
  /\ elp' = (mstatus.mpelp /\ LpEnabled(priv', virt'))
  /\ UNCHANGED <<hstatus, vsstatus>>

(* CSR writes, a field at a time: mstatus by M, its S fields as sstatus by *)
(* HS and hstatus and vsstatus by both, vsstatus as sstatus by VS.         *)
WriteMstatus ==
  /\ ~elp /\ ~virt /\ priv # "U"
  /\ \/ \E f \in Written \cap (SFields \cup (IF priv = "M" THEN MFields \ {"mpp"} ELSE {})),
           b \in BOOLEAN : mstatus' = [mstatus EXCEPT ![f] = b]
     \/ priv = "M" /\ "mpp" \in Written
        /\ \E p \in Privs : mstatus' = [mstatus EXCEPT !.mpp = p]
  /\ UNCHANGED <<priv, virt, elp, hstatus, vsstatus>>

WriteHstatus ==
  /\ ~elp /\ ~virt /\ priv # "U"
  /\ \E f \in Written \cap HFields, b \in BOOLEAN : hstatus' = [hstatus EXCEPT ![f] = b]
  /\ UNCHANGED <<priv, virt, elp, mstatus, vsstatus>>

WriteVsstatus ==
  /\ ~elp /\ priv # "U"
  /\ \E f \in Written \cap SFields, b \in BOOLEAN : vsstatus' = [vsstatus EXCEPT ![f] = b]
  /\ UNCHANGED <<priv, virt, elp, mstatus, hstatus>>

Next ==
  \/ \E p \in SUBSET Line : Interrupt(p)
  \/ \E c \in Causes : Exception(c)
  \/ Jalr \/ Lpad
  \/ SretVs \/ Sret \/ Mret
  \/ WriteMstatus \/ WriteHstatus \/ WriteVsstatus

Spec == Init /\ [][Next]_vars

-------------------------------------------------------------------------------
SStatus == [sie : BOOLEAN, spie : BOOLEAN, spp : BOOLEAN, spelp : BOOLEAN]
MStatus == [mie : BOOLEAN, mpie : BOOLEAN, mpp : Privs, mpv : BOOLEAN, mpelp : BOOLEAN,
            sie : BOOLEAN, spie : BOOLEAN, spp : BOOLEAN, spelp : BOOLEAN]

(* M-mode is never virtual ("set_virt(true) is only ever meaningful        *)
(* alongside S or U", registers.hpp), and no trap or return makes it so.   *)
TypeOK ==
  /\ priv \in Privs /\ virt \in BOOLEAN /\ elp \in BOOLEAN
  /\ virt => priv # "M"
  /\ mstatus \in MStatus
  /\ hstatus \in [spv : BOOLEAN, spvp : BOOLEAN]
  /\ vsstatus \in SStatus

(* The registers as TrapContexts' contexts.                                *)
ModeOf(p, v) == IF p = "M" THEN "M"
                ELSE IF p = "S" THEN (IF v THEN "VS" ELSE "HS")
                ELSE (IF v THEN "VU" ELSE "U")

SPriv(s) == IF s.spp THEN "S" ELSE "U"

Mode == ModeOf(priv, virt)

Enable == [l \in {"M", "HS", "VS"} |->
             IF l = "M" THEN mstatus.mie ELSE IF l = "HS" THEN mstatus.sie ELSE vsstatus.sie]

Saved == [l \in {"M", "HS", "VS"} |->
  IF l = "M" THEN [mode |-> ModeOf(mstatus.mpp, mstatus.mpv),
                   ie |-> mstatus.mpie, elp |-> mstatus.mpelp]
  ELSE IF l = "HS" THEN [mode |-> ModeOf(SPriv(mstatus), hstatus.spv),
                         ie |-> mstatus.spie, elp |-> mstatus.spelp]
  ELSE [mode |-> ModeOf(SPriv(vsstatus), TRUE), ie |-> vsstatus.spie, elp |-> vsstatus.spelp]]

GuestMode == IF hstatus.spvp THEN "VS" ELSE "VU"

PadModes == LpModes \cup (IF "U" \in LpModes THEN {"VU"} ELSE {})

C == INSTANCE TrapContexts WITH
       LpModes <- PadModes,
       mode <- Mode, ie <- Enable, saved <- Saved,
       guest <- GuestMode

(* Each level returns to exactly the context its last trap interrupted,    *)
(* its own enable and landing-pad expectation restored, whatever traps and *)
(* returns of other levels came between: the guest's never disturb its     *)
(* hypervisor's or the firmware's, nor theirs each other's.                *)
ImplementsContexts == C!ContextsSpec

-------------------------------------------------------------------------------
(* The level interrupt b is for.                                           *)
LevelOf(b) == IF b \notin Mideleg THEN "M" ELSE IF b \in Hideleg THEN "VS" ELSE "HS"

(* The hart may be interrupted at level l now: it runs below it, where l's *)
(* interrupts cannot be masked, or at it with the enable set.              *)
Open(l) == C!Below(Mode, l) \/ (Mode = l /\ Enable[l])

(* Every interrupt of a less privileged level comes later in               *)
(* priority_order.                                                         *)
Rank(l) == IF l = "M" THEN 3 ELSE IF l = "HS" THEN 2 ELSE 1

PriorityFollowsLevels ==
  \A i, j \in 1..Len(Lines) : i < j => Rank(LevelOf(Lines[i])) >= Rank(LevelOf(Lines[j]))

(* An interrupt is taken only where it may be, and enter_trap takes it to  *)
(* the level the check decided on; and if priority follows the levels, one *)
(* is left pending only if none of them may be taken.                      *)
InterruptsRight ==
  \A p \in SUBSET Line :
    IF Taken(p) = None
    THEN PriorityFollowsLevels => \A b \in p : ~Open(LevelOf(b))
    ELSE /\ Taken(p) \in p
         /\ Open(LevelOf(Taken(p)))
         /\ TrapLevel(Taken(p) \in Mideleg, Taken(p) \in Hideleg) = LevelOf(Taken(p))
===============================================================================
