------------------------------ MODULE TrapsProofs ------------------------------
(***************************************************************************)
(* Proofs about Traps, for any set of interrupts and exceptions delegated  *)
(* in any way and any set of modes with landing pads: the types, the       *)
(* choice of interrupts, and that it implements TrapContexts.              *)
(***************************************************************************)
EXTENDS Traps, TLAPS, WellFoundedInduction

LEMMA EnterTrapTypeOK ==
  ASSUME TypeOK, NEW deleg, NEW hdeleg, EnterTrap(deleg, hdeleg)
  PROVE  TypeOK'
<1>1. elp' = FALSE
  BY DEF EnterTrap
<1>2. CASE EnterVs
  BY <1>1, <1>2 DEF EnterVs, TypeOK, SStatus, Privs
<1>3. CASE EnterHs
  BY <1>1, <1>3 DEF EnterHs, TypeOK, MStatus, Privs
<1>4. CASE EnterM
  <2>1. mstatus' \in MStatus
    BY <1>4 DEF EnterM, TypeOK, MStatus
  <2>2. priv' = "M" /\ virt' = FALSE /\ hstatus' = hstatus /\ vsstatus' = vsstatus
    BY <1>4 DEF EnterM
  <2> QED
    BY <1>1, <2>1, <2>2 DEF TypeOK, Privs
<1> QED
  BY <1>2, <1>3, <1>4 DEF EnterTrap

LEMMA LpEnabledBool ==
  ASSUME NEW p, NEW v
  PROVE  LpEnabled(p, v) \in BOOLEAN
BY DEF LpEnabled

LEMMA ReturnTypeOK ==
  ASSUME TypeOK, SretVs \/ Sret \/ Mret
  PROVE  TypeOK'
<1>1. CASE SretVs
  BY <1>1, LpEnabledBool DEF SretVs, TypeOK, SStatus, Privs
<1>2. CASE Sret
  BY <1>2, LpEnabledBool DEF Sret, TypeOK, MStatus, Privs
<1>3. CASE Mret
  BY <1>3, LpEnabledBool DEF Mret, MretVirt, TypeOK, MStatus, Privs
<1> QED
  BY <1>1, <1>2, <1>3

LEMMA WriteTypeOK ==
  ASSUME TypeOK, WriteMstatus \/ WriteHstatus \/ WriteVsstatus
  PROVE  TypeOK'
<1>1. CASE WriteMstatus
  BY <1>1, WrittenAssumption DEF WriteMstatus, TypeOK, MStatus, Privs, SFields, MFields
<1>2. CASE WriteHstatus
  BY <1>2 DEF WriteHstatus, TypeOK, HFields
<1>3. CASE WriteVsstatus
  BY <1>3 DEF WriteVsstatus, TypeOK, SStatus, SFields
<1> QED
  BY <1>1, <1>2, <1>3

LEMMA StepTypeOK == TypeOK /\ [Next]_vars => TypeOK'
<1> SUFFICES ASSUME TypeOK, [Next]_vars PROVE TypeOK'
  OBVIOUS
<1>1. CASE \E p \in SUBSET Line : Interrupt(p)
  <2> PICK p \in SUBSET Line : Interrupt(p)
    BY <1>1
  <2>1. EnterTrap(Taken(p) \in Mideleg, Taken(p) \in Hideleg)
    BY DEF Interrupt
  <2> QED
    BY <2>1, EnterTrapTypeOK
<1>2. CASE \E c \in Causes : Exception(c)
  <2> PICK c \in Causes : EnterTrap(c \in Medeleg, c \in Hedeleg)
    BY <1>2 DEF Exception
  <2> QED
    BY EnterTrapTypeOK
<1>3. CASE Jalr \/ Lpad
  <2>1. elp' \in BOOLEAN /\ UNCHANGED <<priv, virt, mstatus, hstatus, vsstatus>>
    BY <1>3, Zenon DEF Jalr, Lpad
  <2> QED
    BY <2>1 DEF TypeOK
<1>4. CASE SretVs \/ Sret \/ Mret
  BY <1>4, ReturnTypeOK
<1>5. CASE WriteMstatus \/ WriteHstatus \/ WriteVsstatus
  BY <1>5, WriteTypeOK
<1>6. CASE UNCHANGED vars
  BY <1>6 DEF vars, TypeOK
<1> QED
  BY <1>1, <1>2, <1>3, <1>4, <1>5, <1>6 DEF Next

LEMMA InitTypeOK == Init => TypeOK
<1> SUFFICES ASSUME Init PROVE TypeOK
  OBVIOUS
<1>1. mstatus \in MStatus
  BY DEF Init, MStatus, Privs
<1>2. vsstatus \in SStatus /\ hstatus \in [spv : BOOLEAN, spvp : BOOLEAN]
  BY DEF Init, SStatus
<1>3. priv \in Privs /\ virt \in BOOLEAN /\ elp \in BOOLEAN /\ (virt => priv # "M")
  BY DEF Init, Privs
<1> QED
  BY <1>1, <1>2, <1>3 DEF TypeOK

(* The types, and with them that no trap or return leaves M virtual.       *)
THEOREM TypeCorrect == Spec => []TypeOK
BY InitTypeOK, StepTypeOK, PTL DEF Spec

-------------------------------------------------------------------------------
(* The choice of an interrupt.                                             *)

(* First finds the first.                                                  *)
LEMMA FirstRight ==
  ASSUME NEW p \in SUBSET Line, p # {}
  PROVE  \E i \in 1..Len(Lines) :
           /\ First(p) = Lines[i] /\ Lines[i] \in p
           /\ \A j \in 1..(i - 1) : Lines[j] \notin p
<1> DEFINE R == {ss \in Nat \X Nat : ss[1] < ss[2]}
           S == {i \in 1..Len(Lines) : Lines[i] \in p}
<1>1. S # {} /\ S \subseteq Nat
  BY DEF Line
<1>2. IsWellFoundedOn(R, Nat)
  BY NatLessThanWellFounded DEF OpToRel
<1>3. PICK x \in S : \A y \in S : ~(<<y, x>> \in R)
  <2> HIDE DEF R, S
  <2> QED
    BY <1>1, <1>2, WFMin
<1>4. Len(Lines) \in Nat
  BY LinesAssumption
<1>5. ASSUME NEW j \in 1..(x - 1) PROVE Lines[j] \notin p
  <2>1. j \in 1..Len(Lines) /\ j < x /\ j \in Nat /\ x \in Nat
    BY <1>4
  <2> QED
    BY <1>3, <2>1
<1>6. x \in 1..Len(Lines) /\ Lines[x] \in p /\ \A j \in 1..(x - 1) : Lines[j] \notin p
  BY <1>5
<1> QED
  BY <1>6 DEF First

LEMMA ModeValues ==
  ASSUME TypeOK
  PROVE  /\ Mode = "M" <=> priv = "M"
         /\ Mode = "HS" <=> priv = "S" /\ ~virt
         /\ Mode = "U" <=> priv = "U" /\ ~virt
         /\ Mode = "VS" <=> priv = "S" /\ virt
         /\ Mode = "VU" <=> priv = "U" /\ virt
         /\ Mode \in {"M", "HS", "U", "VS", "VU"}
BY DEF TypeOK, Mode, ModeOf, Privs

LEMMA EnableValues ==
  Enable["M"] = mstatus.mie /\ Enable["HS"] = mstatus.sie /\ Enable["VS"] = vsstatus.sie
BY DEF Enable

(* What the check looks at is what the level of the interrupt allows.      *)
LEMMA UnmaskedIsOpen ==
  ASSUME TypeOK, NEW b \in Line
  PROVE  Unmasked(b) <=> Open(LevelOf(b))
<1>1. CASE b \notin Mideleg
  <2>1. Unmasked(b) <=> (priv = "M" => mstatus.mie)
    BY <1>1 DEF Unmasked
  <2>2. LevelOf(b) = "M" /\ (Open(LevelOf(b)) <=> Open("M"))
    BY <1>1 DEF LevelOf
  <2>3. Open("M") <=> (Mode # "M" \/ (Mode = "M" /\ mstatus.mie))
    <3>1. C!Below(Mode, "M") <=> Mode # "M"
      BY DEF C!Below
    <3> QED
      BY <3>1, EnableValues DEF Open
  <2>4. Mode = "M" <=> priv = "M"
    BY ModeValues
  <2> QED
    BY <2>1, <2>2, <2>3, <2>4, Zenon
<1>2. CASE b \in Mideleg /\ b \in Hideleg
  <2>1. Unmasked(b) <=> virt /\ (priv = "S" => vsstatus.sie)
    BY <1>2 DEF Unmasked
  <2>2. LevelOf(b) = "VS" /\ (Open(LevelOf(b)) <=> Open("VS"))
    BY <1>2 DEF LevelOf
  <2>3. Open("VS") <=> (Mode = "VU" \/ (Mode = "VS" /\ vsstatus.sie))
    <3>1. C!Below(Mode, "VS") <=> Mode = "VU"
      BY DEF C!Below
    <3> QED
      BY <3>1, EnableValues DEF Open
  <2>4. /\ Mode = "VU" <=> virt /\ priv # "S"
        /\ Mode = "VS" <=> virt /\ priv = "S"
    BY ModeValues DEF TypeOK, Privs
  <2> QED
    BY <2>1, <2>2, <2>3, <2>4, Zenon
<1>3. CASE b \in Mideleg /\ b \notin Hideleg
  <2>1. Unmasked(b) <=> priv # "M" /\ (priv = "S" /\ ~virt => mstatus.sie)
    BY <1>3 DEF Unmasked
  <2>2. LevelOf(b) = "HS" /\ (Open(LevelOf(b)) <=> Open("HS"))
    BY <1>3 DEF LevelOf
  <2>3. Open("HS") <=> (Mode \in {"U", "VS", "VU"} \/ (Mode = "HS" /\ mstatus.sie))
    <3>1. C!Below(Mode, "HS") <=> Mode \in {"U", "VS", "VU"}
      BY DEF C!Below
    <3> QED
      BY <3>1, EnableValues DEF Open
  <2>4. /\ Mode \in {"U", "VS", "VU"} <=> priv # "M" /\ ~(priv = "S" /\ ~virt)
        /\ Mode = "HS" <=> priv = "S" /\ ~virt
    BY ModeValues DEF TypeOK, Privs
  <2>5. priv = "S" => priv # "M"
    OBVIOUS
  <2> QED
    BY <2>1, <2>2, <2>3, <2>4, <2>5, Zenon
<1> QED
  BY <1>1, <1>2, <1>3

(* A level that may not be interrupted closes every level below it.        *)
LEMMA OpenDown ==
  ASSUME TypeOK, NEW l \in {"M", "HS", "VS"}, NEW k \in {"M", "HS", "VS"},
         Rank(l) >= Rank(k), Open(k)
  PROVE  Open(l)
<1>1. C!Below(Mode, k) \/ Mode = k
  BY DEF Open
<1>2. k # l => C!Below(Mode, l)
  BY <1>1, ModeValues DEF C!Below, Rank
<1> QED
  BY <1>2 DEF Open

LEMMA LevelOfTrap ==
  ASSUME TypeOK, NEW b \in Line, Open(LevelOf(b))
  PROVE  TrapLevel(b \in Mideleg, b \in Hideleg) = LevelOf(b)
<1>1. CASE b \notin Mideleg
  BY <1>1 DEF TrapLevel, LevelOf
<1>2. CASE b \in Mideleg
  <2>1. Mode # "M" /\ (b \in Hideleg => Mode \in {"VS", "VU"})
    BY <1>2, ModeValues DEF Open, LevelOf, C!Below
  <2>2. priv # "M" /\ (b \in Hideleg => virt)
    BY <2>1, ModeValues
  <2>3. b \notin Hideleg \/ (virt /\ b \in Hideleg)
    BY <2>2
  <2> QED
    BY <1>2, <2>2, <2>3 DEF TrapLevel, LevelOf
<1> QED
  BY <1>1, <1>2

LEMMA TypeOKInterruptsRight == TypeOK => InterruptsRight
<1> SUFFICES ASSUME TypeOK, NEW p \in SUBSET Line
             PROVE  IF Taken(p) = None
                    THEN PriorityFollowsLevels => \A b \in p : ~Open(LevelOf(b))
                    ELSE /\ Taken(p) \in p
                         /\ Open(LevelOf(Taken(p)))
                         /\ TrapLevel(Taken(p) \in Mideleg, Taken(p) \in Hideleg)
                              = LevelOf(Taken(p))
  BY DEF InterruptsRight
<1>1. CASE p = {}
  BY <1>1 DEF Taken
<1>2. CASE p # {}
  <2>1. PICK i \in 1..Len(Lines) : /\ First(p) = Lines[i] /\ Lines[i] \in p
                                   /\ \A j \in 1..(i - 1) : Lines[j] \notin p
    BY <1>2, FirstRight
  <2>2. First(p) \in p /\ First(p) \in Line /\ First(p) # None
    BY <2>1, LinesAssumption
  <2>3. CASE Unmasked(First(p))
    <3>1. Taken(p) = First(p)
      BY <1>2, <2>3 DEF Taken
    <3>2. Open(LevelOf(First(p)))
      BY <2>2, <2>3, UnmaskedIsOpen
    <3> QED
      BY <2>2, <3>1, <3>2, LevelOfTrap
  <2>4. CASE ~Unmasked(First(p))
    <3>1. Taken(p) = None
      BY <2>4 DEF Taken
    <3>2. ~Open(LevelOf(First(p)))
      BY <2>2, <2>4, UnmaskedIsOpen
    <3>3. ASSUME PriorityFollowsLevels, NEW b \in p PROVE ~Open(LevelOf(b))
      <4>1. PICK j \in 1..Len(Lines) : b = Lines[j]
        BY DEF Line
      <4>2. i \in Nat /\ j \in Nat /\ Len(Lines) \in Nat
        BY LinesAssumption
      <4>3. ~(j < i)
        BY <2>1, <4>1, <4>2
      <4>4. Rank(LevelOf(Lines[i])) >= Rank(LevelOf(Lines[j]))
        <5>1. CASE i = j
          BY <5>1 DEF Rank, LevelOf
        <5>2. CASE i < j
          BY <3>3, <5>2 DEF PriorityFollowsLevels
        <5> QED
          BY <4>2, <4>3, <5>1, <5>2
      <4>5. LevelOf(b) \in {"M", "HS", "VS"} /\ LevelOf(First(p)) \in {"M", "HS", "VS"}
        BY DEF LevelOf
      <4> QED
        BY <2>1, <3>2, <4>1, <4>4, <4>5, OpenDown
    <3> QED
      BY <3>1, <3>3
  <2> QED
    BY <2>3, <2>4
<1> QED
  BY <1>1, <1>2

(* No interrupt is taken where it may not be, none to another level than   *)
(* the check decided on; none is overlooked if priority follows the levels.*)
THEOREM InterruptsSound == Spec => []InterruptsRight
BY InitTypeOK, StepTypeOK, TypeOKInterruptsRight, PTL DEF Spec
-------------------------------------------------------------------------------
(* The registers implement the contexts.                                   *)
CLevels == {"M", "HS", "VS"}

(* One entry of Enable or Saved changed.                                   *)
LEMMA EnableExcept ==
  ASSUME NEW l \in CLevels, NEW x,
         Enable'[l] = x, \A k \in CLevels \ {l} : Enable'[k] = Enable[k]
  PROVE  Enable' = [Enable EXCEPT ![l] = x]
BY DEF Enable, CLevels

LEMMA SavedExcept ==
  ASSUME NEW l \in CLevels, NEW x,
         Saved'[l] = x, \A k \in CLevels \ {l} : Saved'[k] = Saved[k]
  PROVE  Saved' = [Saved EXCEPT ![l] = x]
BY DEF Saved, CLevels

LEMMA SavedValues ==
  /\ Saved["M"] = [mode |-> ModeOf(mstatus.mpp, mstatus.mpv),
                   ie |-> mstatus.mpie, elp |-> mstatus.mpelp]
  /\ Saved["HS"] = [mode |-> ModeOf(SPriv(mstatus), hstatus.spv),
                    ie |-> mstatus.spie, elp |-> mstatus.spelp]
  /\ Saved["VS"] = [mode |-> ModeOf(SPriv(vsstatus), TRUE),
                    ie |-> vsstatus.spie, elp |-> vsstatus.spelp]
BY DEF Saved

LEMMA InitImplements == Init => C!ContextsInit
<1> SUFFICES ASSUME Init PROVE C!ContextsInit
  OBVIOUS
<1>1. Mode = "M" /\ elp = FALSE /\ GuestMode = "VU"
  BY DEF Init, Mode, ModeOf, GuestMode
<1>2. Enable = [l \in CLevels |-> FALSE]
  BY DEF Init, Enable, CLevels
<1>3. Saved = [l \in CLevels |-> [C!Least(l) EXCEPT !.ie = FALSE]]
  BY DEF Init, Saved, CLevels, C!Least, ModeOf, SPriv
<1> QED
  BY <1>1, <1>2, <1>3 DEF C!ContextsInit, C!Levels, CLevels

(* A trap is the level's own.                                              *)
LEMMA TrapImplements ==
  ASSUME TypeOK, NEW d, NEW h, EnterTrap(d, h)
  PROVE  \E l \in CLevels : C!Trap(l)
<1>1. elp' = FALSE
  BY DEF EnterTrap
<1>2. CASE TrapLevel(d, h) = "VS"
  <2>1. EnterVs
    BY <1>2 DEF EnterTrap
  <2>2. Mode \in {"VS", "VU"} /\ (Mode = IF priv = "S" THEN "VS" ELSE "VU")
    BY <1>2 DEF TrapLevel, TypeOK, Privs, Mode, ModeOf
  <2>3. Mode' = "VS" /\ GuestMode' = GuestMode
    <3>1. priv' = "S" /\ virt' = virt /\ hstatus' = hstatus /\ virt = TRUE
      BY <1>2, <2>1 DEF EnterVs, TrapLevel, TypeOK
    <3> QED
      BY <3>1 DEF Mode, ModeOf, GuestMode
  <2>4. Enable' = [Enable EXCEPT !["VS"] = FALSE]
    BY <2>1, EnableExcept DEF EnterVs, Enable, CLevels
  <2>5. Saved' = [Saved EXCEPT !["VS"] = [mode |-> Mode, ie |-> Enable["VS"], elp |-> elp]]
    <3>1. Saved'["VS"] = [mode |-> Mode, ie |-> Enable["VS"], elp |-> elp]
      BY <2>1, <2>2, SavedValues DEF EnterVs, Saved, ModeOf, SPriv, Enable
    <3>2. Saved'["M"] = Saved["M"] /\ Saved'["HS"] = Saved["HS"]
      BY <2>1 DEF EnterVs, Saved
    <3> QED
      BY <3>1, <3>2, SavedExcept DEF CLevels
  <2>6. C!Trap("VS")
    BY <1>1, <2>2, <2>3, <2>4, <2>5 DEF C!Trap, C!Below
  <2> QED
    BY <2>6 DEF CLevels
<1>3. CASE TrapLevel(d, h) = "HS"
  <2>1. EnterHs
    BY <1>3 DEF EnterTrap
  <2>2. Mode # "M" /\ Mode \in C!Modes /\ priv # "M"
    BY <1>3, ModeValues DEF TrapLevel, C!Modes
  <2>3. Mode' = "HS"
    BY <2>1 DEF EnterHs, Mode, ModeOf
  <2>4. GuestMode' = IF Mode \in C!Guest THEN Mode ELSE GuestMode
    BY <2>1, <2>2 DEF EnterHs, GuestMode, Mode, ModeOf, C!Guest, TypeOK, Privs
  <2>5. Enable' = [Enable EXCEPT !["HS"] = FALSE]
    <3>1. mstatus'.sie = FALSE /\ mstatus'.mie = mstatus.mie /\ vsstatus' = vsstatus
      BY <2>1 DEF EnterHs, TypeOK, MStatus
    <3> QED
      BY <3>1, EnableExcept DEF Enable, CLevels
  <2>6. Saved' = [Saved EXCEPT !["HS"] = [mode |-> Mode, ie |-> Enable["HS"], elp |-> elp]]
    <3>1. /\ mstatus'.spie = mstatus.sie /\ mstatus'.spp = (priv = "S")
          /\ mstatus'.spelp = elp /\ hstatus'.spv = virt
      BY <2>1 DEF EnterHs, TypeOK, MStatus
    <3>2. Mode = ModeOf(SPriv(mstatus'), hstatus'.spv)
      BY <2>2, <3>1 DEF Mode, ModeOf, SPriv, TypeOK, Privs
    <3>3. Saved'["HS"] = [mode |-> Mode, ie |-> Enable["HS"], elp |-> elp]
      BY <3>1, <3>2, EnableValues DEF Saved
    <3>4. /\ mstatus'.mpp = mstatus.mpp /\ mstatus'.mpv = mstatus.mpv
          /\ mstatus'.mpie = mstatus.mpie /\ mstatus'.mpelp = mstatus.mpelp
          /\ vsstatus' = vsstatus
      BY <2>1 DEF EnterHs, TypeOK, MStatus
    <3>5. Saved'["M"] = Saved["M"] /\ Saved'["VS"] = Saved["VS"]
      BY <3>4 DEF Saved
    <3> QED
      BY <3>3, <3>5, SavedExcept DEF CLevels
  <2>7. C!Trap("HS")
    BY <1>1, <2>2, <2>3, <2>4, <2>5, <2>6 DEF C!Trap, C!Below, C!Modes
  <2> QED
    BY <2>7 DEF CLevels
<1>4. CASE TrapLevel(d, h) = "M"
  <2>1. EnterM
    BY <1>4 DEF EnterTrap
  <2>2. Mode \in C!Modes
    BY ModeValues DEF C!Modes
  <2>3. Mode' = "M" /\ GuestMode' = GuestMode
    BY <2>1 DEF EnterM, Mode, ModeOf, GuestMode
  <2>4. Enable' = [Enable EXCEPT !["M"] = FALSE]
    <3>1. mstatus'.mie = FALSE /\ mstatus'.sie = mstatus.sie /\ vsstatus' = vsstatus
      BY <2>1 DEF EnterM, TypeOK, MStatus
    <3> QED
      BY <3>1, EnableExcept DEF Enable, CLevels
  <2>5. Saved' = [Saved EXCEPT !["M"] = [mode |-> Mode, ie |-> Enable["M"], elp |-> elp]]
    <3>1. /\ mstatus'.mpie = mstatus.mie /\ mstatus'.mpp = priv /\ mstatus'.mpv = virt
          /\ mstatus'.mpelp = elp
      BY <2>1 DEF EnterM, TypeOK, MStatus
    <3>2. Saved'["M"] = [mode |-> Mode, ie |-> Enable["M"], elp |-> elp]
      BY <3>1, EnableValues DEF Saved, Mode
    <3>3. /\ mstatus'.spp = mstatus.spp /\ mstatus'.spie = mstatus.spie
          /\ mstatus'.spelp = mstatus.spelp /\ UNCHANGED <<hstatus, vsstatus>>
      BY <2>1 DEF EnterM, TypeOK, MStatus
    <3>4. Saved'["HS"] = Saved["HS"] /\ Saved'["VS"] = Saved["VS"]
      BY <3>3 DEF Saved, SPriv
    <3> QED
      BY <3>2, <3>4, SavedExcept DEF CLevels
  <2>6. C!Trap("M")
    BY <1>1, <2>2, <2>3, <2>4, <2>5 DEF C!Trap, C!Below, C!Modes
  <2> QED
    BY <2>6 DEF CLevels
<1> QED
  BY <1>2, <1>3, <1>4 DEF TrapLevel

(* enabled, by privilege and virtualization, is by mode.                   *)
LEMMA PadsByMode ==
  ASSUME NEW p \in Privs, NEW v \in BOOLEAN, v => p # "M"
  PROVE  LpEnabled(p, v) = (ModeOf(p, v) \in PadModes)
<1>1. LpEnabled(p, v) <=> ModeOf(p, v) \in PadModes
  BY ModesAssumption DEF LpEnabled, ModeOf, PadModes, Privs
<1> QED
  BY <1>1, LpEnabledBool

LEMMA ReturnImplements ==
  ASSUME TypeOK, SretVs \/ Sret \/ Mret
  PROVE  \E l \in CLevels : C!Return(l)
<1>1. CASE SretVs
  <2>1. /\ Mode = "VS" /\ ~elp /\ GuestMode' = GuestMode
        /\ virt' = TRUE /\ mstatus' = mstatus /\ hstatus' = hstatus
    BY <1>1 DEF SretVs, TypeOK, Mode, ModeOf, GuestMode
  <2>2. /\ vsstatus' = [sie |-> vsstatus.spie, spie |-> TRUE, spp |-> FALSE, spelp |-> FALSE]
        /\ priv' = SPriv(vsstatus) /\ priv' \in Privs
    BY <1>1 DEF SretVs, SPriv, Privs
  <2>3. Mode' = Saved["VS"].mode
    BY <2>1, <2>2, SavedValues DEF Mode
  <2>4. elp' = (Saved["VS"].elp /\ Saved["VS"].mode \in PadModes)
    <3>1. elp' = (vsstatus.spelp /\ LpEnabled(priv', virt'))
      BY <1>1, <2>1 DEF SretVs
    <3>2. LpEnabled(priv', virt') = (ModeOf(priv', virt') \in PadModes)
      BY <2>1, <2>2, PadsByMode DEF SPriv
    <3>3. Saved["VS"].mode = ModeOf(priv', virt') /\ Saved["VS"].elp = vsstatus.spelp
      BY <2>1, <2>2, SavedValues
    <3> QED
      BY <3>1, <3>2, <3>3
  <2>5. Enable' = [Enable EXCEPT !["VS"] = Saved["VS"].ie]
    BY <2>1, <2>2, SavedValues, EnableExcept DEF Enable, CLevels
  <2>6. Saved' = [Saved EXCEPT !["VS"] = C!Least("VS")]
    <3>1. Saved'["VS"] = C!Least("VS")
      BY <2>2 DEF Saved, C!Least, ModeOf, SPriv
    <3>2. Saved'["M"] = Saved["M"] /\ Saved'["HS"] = Saved["HS"]
      BY <2>1 DEF Saved
    <3> QED
      BY <3>1, <3>2, SavedExcept DEF CLevels
  <2>7. C!Return("VS")
    BY <2>1, <2>3, <2>4, <2>5, <2>6 DEF C!Return, C!MayReturn
  <2> QED
    BY <2>7 DEF CLevels
<1>2. CASE Sret
  <2>1. /\ Mode \in {"M", "HS"} /\ ~elp /\ vsstatus' = vsstatus
        /\ virt' = hstatus.spv /\ virt' \in BOOLEAN
    BY <1>2 DEF Sret, TypeOK, Mode, ModeOf, Privs
  <2>2. /\ mstatus'.sie = mstatus.spie /\ mstatus'.spie = TRUE
        /\ mstatus'.spp = FALSE /\ mstatus'.spelp = FALSE
        /\ hstatus'.spv = FALSE /\ hstatus'.spvp = hstatus.spvp
        /\ priv' = SPriv(mstatus) /\ priv' \in {"S", "U"}
    BY <1>2 DEF Sret, SPriv, TypeOK, MStatus
  <2>3. /\ mstatus'.mpp = mstatus.mpp /\ mstatus'.mpv = mstatus.mpv
        /\ mstatus'.mpie = mstatus.mpie /\ mstatus'.mpelp = mstatus.mpelp
        /\ mstatus'.mie = mstatus.mie
    BY <1>2 DEF Sret, TypeOK, MStatus
  <2>4. Mode' = Saved["HS"].mode /\ GuestMode' = GuestMode
    BY <2>1, <2>2, SavedValues DEF Mode, GuestMode
  <2>5. elp' = (Saved["HS"].elp /\ Saved["HS"].mode \in PadModes)
    <3>1. elp' = (mstatus.spelp /\ LpEnabled(priv', virt'))
      BY <1>2 DEF Sret
    <3>2. LpEnabled(priv', virt') = (ModeOf(priv', virt') \in PadModes)
      BY <2>1, <2>2, PadsByMode DEF Privs
    <3>3. Saved["HS"].mode = ModeOf(priv', virt') /\ Saved["HS"].elp = mstatus.spelp
      BY <2>1, <2>2, SavedValues
    <3> QED
      BY <3>1, <3>2, <3>3
  <2>6. Enable' = [Enable EXCEPT !["HS"] = Saved["HS"].ie]
    BY <2>1, <2>2, <2>3, SavedValues, EnableExcept DEF Enable, CLevels
  <2>7. Saved' = [Saved EXCEPT !["HS"] = C!Least("HS")]
    <3>1. Saved'["HS"] = C!Least("HS")
      BY <2>2 DEF Saved, C!Least, ModeOf, SPriv
    <3>2. Saved'["M"] = Saved["M"] /\ Saved'["VS"] = Saved["VS"]
      BY <2>1, <2>3 DEF Saved
    <3> QED
      BY <3>1, <3>2, SavedExcept DEF CLevels
  <2>8. C!Return("HS")
    BY <2>1, <2>4, <2>5, <2>6, <2>7 DEF C!Return, C!MayReturn
  <2> QED
    BY <2>8 DEF CLevels
<1>3. CASE Mret
  <2>1. ~elp /\ UNCHANGED <<hstatus, vsstatus>>
    BY <1>3 DEF Mret
  <2>2. /\ mstatus'.mie = mstatus.mpie /\ mstatus'.mpie = TRUE
        /\ mstatus'.mpp = "U" /\ mstatus'.mpv = FALSE /\ mstatus'.mpelp = FALSE
    BY <1>3 DEF Mret, TypeOK, MStatus
  <2>3. /\ mstatus'.spp = mstatus.spp /\ mstatus'.spie = mstatus.spie
        /\ mstatus'.spelp = mstatus.spelp /\ mstatus'.sie = mstatus.sie
    BY <1>3 DEF Mret, TypeOK, MStatus
  <2>4. /\ priv' = mstatus.mpp /\ priv' \in Privs
        /\ virt' = (mstatus.mpv /\ mstatus.mpp # "M") /\ virt' \in BOOLEAN
        /\ mstatus.mpv \in BOOLEAN
    BY <1>3 DEF Mret, MretVirt, TypeOK, MStatus
  <2>5. Saved["M"].mode = ModeOf(priv', virt') /\ Saved["M"].elp = mstatus.mpelp
    BY <2>4, SavedValues DEF ModeOf
  <2>6. Mode' = Saved["M"].mode /\ GuestMode' = GuestMode
    BY <2>1, <2>5 DEF Mode, GuestMode
  <2>7. elp' = (Saved["M"].elp /\ Saved["M"].mode \in PadModes)
    <3>1. elp' = (mstatus.mpelp /\ LpEnabled(priv', virt'))
      BY <1>3 DEF Mret
    <3>2. LpEnabled(priv', virt') = (ModeOf(priv', virt') \in PadModes)
      BY <2>4, PadsByMode
    <3> QED
      BY <2>5, <3>1, <3>2
  <2>8. Enable' = [Enable EXCEPT !["M"] = Saved["M"].ie]
    BY <2>1, <2>2, <2>3, SavedValues, EnableExcept DEF Enable, CLevels
  <2>9. Saved' = [Saved EXCEPT !["M"] = C!Least("M")]
    <3>1. Saved'["M"] = C!Least("M")
      BY <2>2 DEF Saved, C!Least, ModeOf
    <3>2. Saved'["HS"] = Saved["HS"] /\ Saved'["VS"] = Saved["VS"]
      BY <2>1, <2>3 DEF Saved, SPriv
    <3> QED
      BY <3>1, <3>2, SavedExcept DEF CLevels
  <2>10. C!Return("M")
    BY <2>1, <2>6, <2>7, <2>8, <2>9 DEF C!Return, C!MayReturn
  <2> QED
    BY <2>10 DEF CLevels
<1> QED
  BY <1>1, <1>2, <1>3

(* A field written is one of what its level holds.                         *)
LEMMA WriteOne ==
  ASSUME TypeOK', NEW l \in CLevels, C!MayWrite(l), ~elp, elp' = elp, Mode' = Mode,
         \A k \in CLevels \ {l} : Enable'[k] = Enable[k] /\ Saved'[k] = Saved[k],
         l = "HS" \/ GuestMode' = GuestMode
  PROVE  C!Write(l)
<1>1. Enable'[l] \in BOOLEAN
  BY DEF Enable, CLevels, TypeOK, MStatus, SStatus
<1>2. Saved'[l] \in C!Context
  BY DEF Saved, CLevels, TypeOK, MStatus, SStatus, C!Context, C!Modes, ModeOf, SPriv, Privs
<1>3. GuestMode' \in C!Guest
  BY DEF GuestMode, C!Guest
<1>4. \E b \in BOOLEAN : Enable' = [Enable EXCEPT ![l] = b]
  BY <1>1, EnableExcept
<1>5. \E c \in C!Context : Saved' = [Saved EXCEPT ![l] = c]
  BY <1>2, SavedExcept
<1> QED
  BY <1>3, <1>4, <1>5 DEF C!Write

LEMMA WriteImplements ==
  ASSUME TypeOK, WriteMstatus \/ WriteHstatus \/ WriteVsstatus
  PROVE  \E l \in CLevels : C!Write(l)
<1>1. TypeOK'
  BY WriteTypeOK
<1>2. CASE WriteMstatus
  <2>1. /\ ~elp /\ elp' = elp /\ Mode' = Mode /\ GuestMode' = GuestMode
        /\ UNCHANGED <<hstatus, vsstatus>> /\ priv # "U" /\ ~virt
    BY <1>2 DEF WriteMstatus, Mode, GuestMode
  <2>2. CASE \E f \in SFields, b \in BOOLEAN : mstatus' = [mstatus EXCEPT ![f] = b]
    <3>1. /\ mstatus'.mpp = mstatus.mpp /\ mstatus'.mpv = mstatus.mpv
          /\ mstatus'.mpie = mstatus.mpie /\ mstatus'.mpelp = mstatus.mpelp
          /\ mstatus'.mie = mstatus.mie
      BY <2>2 DEF SFields, TypeOK, MStatus
    <3>2. \A k \in CLevels \ {"HS"} : Enable'[k] = Enable[k] /\ Saved'[k] = Saved[k]
      BY <2>1, <3>1 DEF CLevels, Enable, Saved
    <3>3. C!MayWrite("HS")
      BY <2>1, ModeValues DEF C!MayWrite, TypeOK, Privs
    <3> QED
      BY <1>1, <2>1, <3>2, <3>3, WriteOne DEF CLevels
  <2>3. CASE /\ priv = "M"
             /\ \/ \E f \in MFields \ {"mpp"}, b \in BOOLEAN : mstatus' = [mstatus EXCEPT ![f] = b]
                \/ \E q \in Privs : mstatus' = [mstatus EXCEPT !.mpp = q]
    <3>1. /\ mstatus'.spp = mstatus.spp /\ mstatus'.spie = mstatus.spie
          /\ mstatus'.spelp = mstatus.spelp /\ mstatus'.sie = mstatus.sie
      BY <2>3 DEF MFields, TypeOK, MStatus
    <3>2. \A k \in CLevels \ {"M"} : Enable'[k] = Enable[k] /\ Saved'[k] = Saved[k]
      BY <2>1, <3>1 DEF CLevels, Enable, Saved, SPriv
    <3>3. C!MayWrite("M")
      BY <2>3, ModeValues DEF C!MayWrite
    <3> QED
      BY <1>1, <2>1, <3>2, <3>3, WriteOne DEF CLevels
  <2> QED
    BY <1>2, <2>2, <2>3 DEF WriteMstatus
<1>3. CASE WriteHstatus
  <2>1. /\ ~elp /\ elp' = elp /\ Mode' = Mode
        /\ UNCHANGED <<mstatus, vsstatus>> /\ priv # "U" /\ ~virt
    BY <1>3 DEF WriteHstatus, Mode
  <2>2. \A k \in CLevels \ {"HS"} : Enable'[k] = Enable[k] /\ Saved'[k] = Saved[k]
    BY <2>1 DEF CLevels, Enable, Saved
  <2>3. C!MayWrite("HS")
    BY <2>1, ModeValues DEF C!MayWrite, TypeOK, Privs
  <2> QED
    BY <1>1, <2>1, <2>2, <2>3, WriteOne DEF CLevels
<1>4. CASE WriteVsstatus
  <2>1. /\ ~elp /\ elp' = elp /\ Mode' = Mode /\ GuestMode' = GuestMode
        /\ UNCHANGED <<mstatus, hstatus>> /\ priv # "U"
    BY <1>4 DEF WriteVsstatus, Mode, GuestMode
  <2>2. \A k \in CLevels \ {"VS"} : Enable'[k] = Enable[k] /\ Saved'[k] = Saved[k]
    BY <2>1 DEF CLevels, Enable, Saved
  <2>3. C!MayWrite("VS")
    BY <2>1, ModeValues DEF C!MayWrite, TypeOK, Privs
  <2> QED
    BY <1>1, <2>1, <2>2, <2>3, WriteOne DEF CLevels
<1> QED
  BY <1>2, <1>3, <1>4

LEMMA PadsImplement ==
  /\ TypeOK /\ Jalr => C!Jump
  /\ Lpad => C!Land
<1>1. ASSUME UNCHANGED <<priv, virt, mstatus, hstatus, vsstatus>>
      PROVE  UNCHANGED <<Mode, Enable, Saved, GuestMode>>
  BY <1>1 DEF Mode, Enable, Saved, GuestMode
<1>2. ASSUME TypeOK, Jalr PROVE C!Jump
  <2>1. ~elp /\ LpEnabled(priv, virt) /\ elp' = TRUE
    BY <1>2 DEF Jalr
  <2>2. UNCHANGED <<priv, virt, mstatus, hstatus, vsstatus>>
    BY <1>2 DEF Jalr
  <2>3. Mode \in PadModes
    BY <1>2, <2>1, PadsByMode DEF TypeOK, Mode
  <2> QED
    BY <1>1, <2>1, <2>2, <2>3 DEF C!Jump
<1>3. ASSUME Lpad PROVE C!Land
  <2>1. elp /\ elp' = FALSE
    BY <1>3 DEF Lpad
  <2>2. UNCHANGED <<priv, virt, mstatus, hstatus, vsstatus>>
    BY <1>3 DEF Lpad
  <2> QED
    BY <1>1, <2>1, <2>2 DEF C!Land
<1> QED
  BY <1>2, <1>3

LEMMA StepImplements == TypeOK /\ [Next]_vars => [C!ContextsNext]_(C!cvars)
<1> SUFFICES ASSUME TypeOK, [Next]_vars PROVE [C!ContextsNext]_(C!cvars)
  OBVIOUS
<1>0. C!Levels = CLevels
  BY DEF C!Levels, CLevels
<1>1. CASE \E p \in SUBSET Line : Interrupt(p)
  <2> PICK p \in SUBSET Line : Interrupt(p)
    BY <1>1
  <2>1. EnterTrap(Taken(p) \in Mideleg, Taken(p) \in Hideleg)
    BY DEF Interrupt
  <2> QED
    BY <1>0, <2>1, TrapImplements DEF C!ContextsNext
<1>2. CASE \E c \in Causes : Exception(c)
  <2> PICK c \in Causes : EnterTrap(c \in Medeleg, c \in Hedeleg)
    BY <1>2 DEF Exception
  <2> QED
    BY <1>0, TrapImplements DEF C!ContextsNext
<1>3. CASE Jalr \/ Lpad
  BY <1>3, PadsImplement DEF C!ContextsNext
<1>4. CASE SretVs \/ Sret \/ Mret
  BY <1>0, <1>4, ReturnImplements DEF C!ContextsNext
<1>5. CASE WriteMstatus \/ WriteHstatus \/ WriteVsstatus
  BY <1>0, <1>5, WriteImplements DEF C!ContextsNext
<1>6. CASE UNCHANGED vars
  BY <1>6 DEF vars, C!cvars, Mode, Enable, Saved, GuestMode
<1> QED
  BY <1>1, <1>2, <1>3, <1>4, <1>5, <1>6 DEF Next

(* Each level returns to the context its last trap interrupted.            *)
THEOREM ContextsImplemented == Spec => ImplementsContexts
<1>1. Init /\ [][Next]_vars => [][C!ContextsNext]_(C!cvars)
  BY InitTypeOK, StepTypeOK, StepImplements, PTL
<1> QED
  BY <1>1, InitImplements, PTL DEF Spec, ImplementsContexts, C!ContextsSpec
===============================================================================
