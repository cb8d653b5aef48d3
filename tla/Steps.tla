-------------------------------- MODULE Steps --------------------------------
(***************************************************************************)
(* One hart run a step at a time (src/doom_system.cpp: step, step_execute, *)
(* end_step, clock_tick, run_wait, and the checks cpu_loop makes after     *)
(* each step).  This is the machine of DOOMV_FAST=0: every step looks for  *)
(* an interrupt, counts itself and moves the clock before the next starts. *)
(* FastRun is the loop that runs, and is shown to implement this one.      *)
(*                                                                         *)
(* A step takes a due interrupt, or runs one instruction, or traps.  It    *)
(* adds one to the step count, one to minstret if it retired an            *)
(* instruction and minstret counts, and every InsnsPerTick steps the clock *)
(* ticks: mtime, and mcycle if it counts.                                  *)
(*                                                                         *)
(* At some step counts the machine does something between two steps: at    *)
(* the multiples of Period (INPUT_PERIOD) it takes input, at SnapshotAt it *)
(* is saved, at StopAt the run ends, at HaltAt it halts for the debugger.  *)
(* That these happen between those two steps and no others is what makes a *)
(* run reproducible.                                                       *)
(*                                                                         *)
(* Data: mtime does not reach 2^64.  "other" is every interrupt source but *)
(* the timer's compare register, masked what privilege, mstatus and mie    *)
(* add (module Traps).  What an instruction computes is left out: one that *)
(* reads the clock or a counter is Plain, and reads what stands there.     *)
(***************************************************************************)
EXTENDS Integers

CONSTANTS
  Period,      \* INPUT_PERIOD
  SnapshotAt,  \* -snapshot-at, 0 for none
  HaltAt,      \* the step count at which the machine halts for the user, 0 for none
  StopAt,      \* -stopat
  MaxWait,     \* MAX_WAIT_TICKS
  Does,        \* what the software does: a subset of Ops
  Counters,    \* the counters the model follows, of "instret" and "cycle"
  TimeValues   \* what it writes to mtime and to the compare register

InsnsPerTick == 2
Ops == {"mtime", "cmp", "mask", "raise", "inhibit", "minstret",
        "wfi", "exception"}
Points == {"snapshot", "stop", "halt"}
At == [p \in Points |-> IF p = "snapshot" THEN SnapshotAt ELSE IF p = "stop" THEN StopAt ELSE HaltAt]

ASSUME CountsAssumption == /\ Period \in Nat \ {0} /\ MaxWait \in Nat \ {0}
                           /\ StopAt \in Nat \ {0} /\ SnapshotAt \in Nat /\ HaltAt \in Nat
ASSUME SoftwareAssumption == Does \subseteq Ops /\ TimeValues \subseteq Nat
                             /\ Counters \subseteq {"instret", "cycle"}

VARIABLES
  mtime,       \* the CLINT's clock
  cmp,         \* the compare register, of an interrupt mie enables
  other,       \* another interrupt is pending and enabled
  masked,      \* the hart's state keeps interrupts from being taken
  counting,    \* the counters that neither mcountinhibit nor the mode stops
  minstret, mcycle,
  phase,       \* tick_phase
  count,       \* Memory::instr_count
  served,      \* the step count of the last input point
  ahead,       \* the points the run has not reached
  watched,     \* Debugger::may_halt, or a watched tohost
  skip,        \* skip_bp_armed: resumed from a breakpoint, still on it
  halted       \* "no", "yes", or "ended" at StopAt

clock == <<mtime, phase, mcycle>>
irqs  == <<cmp, other, masked>>
loop  == <<served, ahead, watched, skip, halted>>
svars == <<clock, irqs, counting, minstret, count, loop>>

-------------------------------------------------------------------------------
(* wake_for_interrupt, were mtime t: a source is pending and enabled.      *)
WakeAt(t) == other \/ t >= cmp

(* check_and_take_interrupt would take one.                                *)
Due == ~masked /\ WakeAt(mtime)

Init ==
  /\ mtime = 0 /\ cmp \in TimeValues /\ other = FALSE /\ masked = TRUE
  /\ counting = Counters /\ minstret = 0 /\ mcycle = 0
  /\ phase = 0 /\ count = 0 /\ served = 0
  /\ ahead = {p \in Points : At[p] > 0}
  /\ watched \in BOOLEAN
  /\ skip = FALSE /\ halted = "no"

(* A step is counted and moves the clock, from where its instruction left  *)
(* it: mtime at t, mcycle at c (step_instructions, end_step, clock_tick).  *)
Moves(t, c) ==
  LET tick == phase + 1 = InsnsPerTick
  IN  /\ count' = count + 1
      /\ phase' = IF tick THEN 0 ELSE phase + 1
      /\ mtime' = IF tick THEN t + 1 ELSE t
      /\ mcycle' = IF tick /\ "cycle" \in counting' THEN c + 1 ELSE c
      /\ skip' = FALSE

(* The end of a step that retired an instruction, or did not.  Whether     *)
(* minstret counts was decided when the step began.                        *)
Ends(retired, t, c) ==
  /\ Moves(t, c)
  /\ minstret' = IF retired /\ "instret" \in counting THEN minstret + 1 ELSE minstret

(* enter_trap: the mode changes, and with it what is masked and, under     *)
(* Smcntrpmf, what counts.                                                 *)
TrapFrom(t, c) ==
  /\ masked' \in BOOLEAN
  /\ counting' \in SUBSET Counters
  /\ UNCHANGED <<cmp, other>>
  /\ Ends(FALSE, t, c)

Trap == TrapFrom(mtime, mcycle)
Exception == "exception" \in Does /\ Trap

(* Instructions that neither write nor read anything the checks, the       *)
(* counters or the clock are about.                                        *)
Plain == UNCHANGED <<irqs, counting>> /\ Ends(TRUE, mtime, mcycle)

(* Writes to what an interrupt check reads: memory and stimecmp, mstatus,  *)
(* and the other CSRs.                                                     *)
WritesTime ==
  /\ "mtime" \in Does
  /\ UNCHANGED <<irqs, counting>>
  /\ \E t \in TimeValues : Ends(TRUE, t, mcycle)

WritesIrq ==
  /\ \/ "cmp" \in Does /\ cmp' \in TimeValues /\ UNCHANGED <<other, masked>>
     \/ "raise" \in Does /\ other' \in BOOLEAN /\ UNCHANGED <<cmp, masked>>
     \/ "mask" \in Does /\ masked' \in BOOLEAN /\ UNCHANGED <<cmp, other>>
  /\ UNCHANGED <<counting>>
  /\ Ends(TRUE, mtime, mcycle)

(* A write to mcountinhibit or minstretcfg.                                *)
Inhibits ==
  /\ "inhibit" \in Does
  /\ counting' \in SUBSET Counters
  /\ Ends(TRUE, mtime, mcycle)
  /\ UNCHANGED <<irqs>>

(* A write of 0 to minstret, an instruction minstret does not count.       *)
WritesMinstret ==
  /\ "minstret" \in Does
  /\ minstret' = 0
  /\ UNCHANGED <<irqs, counting>>
  /\ Moves(mtime, mcycle)

(* run_wait: a WFI ticks the clock until an interrupt is pending and       *)
(* enabled, at most MaxWait times, all in one step.  When it times out it  *)
(* may trap (mstatus.TW).                                                  *)
WaitsFor(k) ==
  /\ WakeAt(mtime + k) \/ k = MaxWait
  /\ \A j \in 1..(k - 1) : ~WakeAt(mtime + j)

CyclesAfter(k) == IF "cycle" \in counting THEN mcycle + k ELSE mcycle

Waits ==
  /\ "wfi" \in Does
  /\ UNCHANGED <<irqs, counting>>
  /\ \E k \in 1..MaxWait : WaitsFor(k) /\ Ends(TRUE, mtime + k, CyclesAfter(k))

WaitTraps ==
  /\ "wfi" \in Does
  /\ ~WakeAt(mtime + MaxWait)
  /\ TrapFrom(mtime + MaxWait, CyclesAfter(MaxWait))

Instruction == \/ Plain \/ WritesTime \/ WritesIrq \/ Inhibits
               \/ WritesMinstret \/ Waits \/ WaitTraps \/ Exception

-------------------------------------------------------------------------------
(* What is due between two steps, in the order cpu_loop does it.           *)
InputDue == count % Period = 0 /\ served # count
PointDue(p) == p \in ahead /\ At[p] = count
MayStep == halted = "no" /\ ~InputDue /\ \A p \in Points : ~PointDue(p)

(* One step: the interrupt, or the instruction.                            *)
Step ==
  /\ MayStep
  /\ \/ Due /\ Trap
     \/ ~Due /\ Instruction
  /\ UNCHANGED <<served, ahead, watched, halted>>

(* A breakpoint halts the machine before the instruction, unless it has    *)
(* just been resumed from there (should_halt).                             *)
Breakpoint ==
  /\ MayStep /\ ~Due /\ watched /\ ~skip
  /\ halted' = "yes"
  /\ UNCHANGED <<clock, irqs, counting, minstret, count, served, ahead, watched, skip>>

(* The program writes tohost: the machine halts after the step.            *)
StepHalts ==
  /\ MayStep /\ ~Due /\ watched
  /\ Plain
  /\ halted' = "yes"
  /\ UNCHANGED <<served, ahead, watched>>

(* service_input: devices may raise or drop an interrupt.                  *)
Input ==
  /\ InputDue
  /\ served' = count
  /\ other' \in BOOLEAN
  /\ UNCHANGED <<clock, cmp, masked, counting, minstret, count, ahead, watched, skip, halted>>

Snapshot ==
  /\ ~InputDue /\ PointDue("snapshot")
  /\ ahead' = ahead \ {"snapshot"}
  /\ UNCHANGED <<clock, irqs, counting, minstret, count, served, watched, skip, halted>>

(* stop_at_limit.                                                          *)
Stop ==
  /\ ~InputDue /\ ~PointDue("snapshot") /\ PointDue("stop")
  /\ ahead' = ahead \ {"stop"}
  /\ halted' = "ended"
  /\ UNCHANGED <<clock, irqs, counting, minstret, count, served, watched, skip>>

Halt ==
  /\ ~InputDue /\ ~PointDue("snapshot") /\ ~PointDue("stop") /\ PointDue("halt")
  /\ ahead' = ahead \ {"halt"}
  /\ halted' = "yes"
  /\ UNCHANGED <<clock, irqs, counting, minstret, count, served, watched, skip>>

(* gdb interrupts the machine; the user resumes it, with breakpoints set   *)
(* or removed meanwhile.                                                   *)
Pause ==
  /\ MayStep
  /\ halted' = "yes"
  /\ UNCHANGED <<clock, irqs, counting, minstret, count, served, ahead, watched, skip>>

(* A mutant of Resume: the breakpoint is not skipped.                      *)
ResumeOnBreakpoint ==
  /\ halted = "yes" /\ ~InputDue /\ \A p \in Points : ~PointDue(p)
  /\ halted' = "no"
  /\ watched' \in BOOLEAN
  /\ UNCHANGED <<clock, irqs, counting, minstret, count, served, ahead, skip>>

Resume ==
  /\ halted = "yes" /\ ~InputDue /\ \A p \in Points : ~PointDue(p)
  /\ halted' = "no"
  /\ skip' = TRUE
  /\ watched' \in BOOLEAN
  /\ UNCHANGED <<clock, irqs, counting, minstret, count, served, ahead>>

Next == \/ Step \/ Breakpoint \/ StepHalts
        \/ Input \/ Snapshot \/ Stop \/ Halt
        \/ Pause \/ Resume

Spec == Init /\ [][Next]_svars

-------------------------------------------------------------------------------
StepsTypeOK ==
  /\ mtime \in Nat /\ phase \in 0..(InsnsPerTick - 1) /\ mcycle \in Nat
  /\ cmp \in Nat /\ other \in BOOLEAN /\ masked \in BOOLEAN
  /\ counting \in SUBSET Counters /\ minstret \in Nat
  /\ count \in Nat /\ served \in Nat /\ ahead \in SUBSET Points
  /\ watched \in BOOLEAN /\ skip \in BOOLEAN /\ halted \in {"no", "yes", "ended"}
=============================================================================
