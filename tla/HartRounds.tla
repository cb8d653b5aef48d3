------------------------------ MODULE HartRounds ------------------------------
(***************************************************************************)
(* Several harts stepped in rounds (src/doom_system.cpp, run_round,        *)
(* hart_slot, begin_wait, wait_slot, tick_all_harts), as they would run if *)
(* nothing were remembered between steps: every slot looks at every        *)
(* interrupt source, every waiting hart looks in every round.  This is the *)
(* machine of DOOMV_WAITSKIP=0 and DOOMV's interrupt check made at every   *)
(* step; CachedRounds is the machine that runs, and is shown to implement  *)
(* this one.                                                               *)
(*                                                                         *)
(* One round gives each hart one slot, in order.  A slot takes a pending   *)
(* interrupt, or runs one instruction, or is one round of a WFI or WRS the *)
(* hart waits in.  The clock ticks at the end of a round: every            *)
(* INSNS_PER_TICK rounds in which some hart completed a step, and every    *)
(* round in which all harts wait.                                          *)
(*                                                                         *)
(* Data: time is 0..MaxTime for 0..2^64-1.  An interrupt source is a timer *)
(* compare register or "other", standing for every source that is a level  *)
(* someone writes (msip, the IMSIC files, the mip and hvip software bits). *)
(* mie stands for mie and the STCE bits, masked for what privilege,        *)
(* mstatus and delegation add to it (module Traps has those).              *)
(***************************************************************************)
EXTENDS Integers

CONSTANTS
  N,             \* number of harts
  MaxTime,       \* the largest mtime
  MaxWait,       \* MAX_WAIT_TICKS
  ClockMayWrap,  \* whether mtime can pass MaxTime; when it cannot, a run ends there
  Does,          \* [Hart -> SUBSET Ops]: what the software on each hart does
  CmpValues,     \* what it writes to a compare register and to mtime,
  DeltaValues,   \* to htimedelta,
  MieValues      \* and to mie

Hart == 1..N
Time == 0..MaxTime
Timers == {"mtimecmp", "stimecmp", "vstimecmp"}
Sources == Timers \cup {"other"}
Ops == Timers \cup {"mtime", "htimedelta", "mie", "mask", "raise", "lr", "wfi", "wrs", "halt"}
Waits == {"Wfi", "WrsSto", "WrsNto"}
InsnsPerTick == 2

ASSUME SizesAssumption == N \in Nat \ {0} /\ MaxTime \in Nat \ {0} /\ MaxWait \in Nat \ {0}
ASSUME WrapAssumption == ClockMayWrap \in BOOLEAN
ASSUME ValuesAssumption == /\ Does \in [Hart -> SUBSET Ops]
                           /\ CmpValues \subseteq Time
                           /\ DeltaValues \subseteq Time
                           /\ MieValues \subseteq SUBSET Sources

VARIABLES
  mtime,        \* the CLINT's clock
  cmp,          \* mtimecmp, stimecmp and vstimecmp of each hart
  htimedelta,   \* the guest's clock is mtime + htimedelta
  mie,          \* the sources that count, per hart
  level,        \* whether the "other" source of a hart is asserted
  masked,       \* whether the hart's state keeps interrupts from being taken
  held,         \* whether the hart holds a reservation (module Reservations)
  wait,         \* "None", or the wait the hart is in
  remaining,    \* wait_remaining
  slot,         \* the hart whose slot is next; N + 1 at the end of a round
  retired,      \* some hart completed a step in this round
  allWaiting,   \* every hart so far waits, and not for its last round
  tickPhase,    \* rounds counted towards the next tick
  halted        \* debugger.halted

events == <<mtime, cmp, htimedelta, mie, level, masked>>
round  == <<slot, retired, allWaiting>>
rvars  == <<mtime, cmp, htimedelta, mie, level, masked, held, wait, remaining,
            slot, retired, allWaiting, tickPhase, halted>>

-------------------------------------------------------------------------------
(* stip_from_sstc, vstip_from_sstc, mtip_pending: a timer is pending while *)
(* its clock has reached the compare value.  The guest's clock wraps.      *)
GuestTime(h, t) == LET sum == t + htimedelta[h]
                   IN  IF sum > MaxTime THEN sum - (MaxTime + 1) ELSE sum

TimerPendingAt(h, c, t) ==
  IF c = "vstimecmp" THEN GuestTime(h, t) >= cmp[h][c] ELSE t >= cmp[h][c]

(* wake_for_interrupt: some source is pending and enabled in mie.          *)
WakeAt(h, t) == \/ \E c \in Timers : c \in mie[h] /\ TimerPendingAt(h, c, t)
                \/ "other" \in mie[h] /\ level[h]

Wake(h) == WakeAt(h, mtime)

(* check_and_take_interrupt would take one.                                *)
Due(h) == Wake(h) /\ ~masked[h]

-------------------------------------------------------------------------------
Init ==
  /\ mtime = 0
  /\ cmp = [h \in Hart |-> [c \in Timers |-> 0]]
  /\ htimedelta = [h \in Hart |-> 0]
  /\ mie = [h \in Hart |-> {}]
  /\ level = [h \in Hart |-> FALSE]
  /\ masked = [h \in Hart |-> TRUE]
  /\ held = [h \in Hart |-> FALSE]
  /\ wait = [h \in Hart |-> "None"]
  /\ remaining = [h \in Hart |-> 0]
  /\ slot = 1
  /\ retired = FALSE
  /\ allWaiting = TRUE
  /\ tickPhase = 0
  /\ halted = FALSE

(* The end of hart h's slot, in which it did (step) or did not complete a  *)
(* step.                                                                   *)
SlotEnds(h, step) ==
  /\ slot' = h + 1
  /\ retired' = (retired \/ step)
  /\ allWaiting' = (allWaiting /\ wait'[h] # "None" /\ remaining'[h] > 0)
  /\ UNCHANGED tickPhase

(* run_round reaches hart h, which is not waiting / waits.                 *)
Runs(h) == slot = h /\ ~halted /\ wait[h] = "None"
Waiting(h) == slot = h /\ ~halted /\ wait[h] # "None"

(* enter_trap: the interrupt enables, the privilege or both change.        *)
Trap(h) ==
  /\ \E m \in BOOLEAN : masked' = [masked EXCEPT ![h] = m]
  /\ UNCHANGED <<mtime, cmp, htimedelta, mie, level>>

(* What hart h does in its slot once it is known that it takes the         *)
(* interrupt.                                                              *)
Interrupted(h) ==
  /\ Runs(h)
  /\ Trap(h)
  /\ UNCHANGED <<held, wait, remaining, halted>>
  /\ SlotEnds(h, TRUE)

(* The instructions that change what interrupt checks read.  The CLINT and *)
(* the interrupt files are memory: a hart reaches every hart's.            *)
WriteCmp(h) ==
  \E c \in Timers \cap Does[h], v \in CmpValues, g \in Hart :
    /\ c = "mtimecmp" \/ g = h
    /\ cmp' = [cmp EXCEPT ![g][c] = v]
    /\ UNCHANGED <<mtime, htimedelta, mie, level, masked>>

WriteMtime(h) ==
  /\ "mtime" \in Does[h]
  /\ mtime' \in CmpValues
  /\ UNCHANGED <<cmp, htimedelta, mie, level, masked>>

WriteHtimedelta(h) ==
  /\ "htimedelta" \in Does[h]
  /\ \E v \in DeltaValues : htimedelta' = [htimedelta EXCEPT ![h] = v]
  /\ UNCHANGED <<mtime, cmp, mie, level, masked>>

WriteMie(h) ==
  /\ "mie" \in Does[h]
  /\ \E s \in MieValues : mie' = [mie EXCEPT ![h] = s]
  /\ UNCHANGED <<mtime, cmp, htimedelta, level, masked>>

RaiseOrClear(h) ==
  /\ "raise" \in Does[h]
  /\ \E g \in Hart, b \in BOOLEAN : level' = [level EXCEPT ![g] = b]
  /\ UNCHANGED <<mtime, cmp, htimedelta, mie, masked>>

WriteMask(h) == "mask" \in Does[h] /\ Trap(h)

EventWrite(h) == \/ WriteCmp(h) \/ WriteMtime(h) \/ WriteHtimedelta(h)
                 \/ WriteMie(h) \/ RaiseOrClear(h) \/ WriteMask(h)

(* Hart h runs an instruction that changes one of those: a CSR or CLINT    *)
(* write, an MSI, an xRET, an exception.                                   *)
RunsEvent(h) ==
  /\ Runs(h)
  /\ EventWrite(h)
  /\ UNCHANGED <<held, wait, remaining, halted>>
  /\ SlotEnds(h, TRUE)

(* Hart h runs any other instruction: LR takes a reservation, SC drops it, *)
(* a store ends those of other harts.                                      *)
RunsPlain(h) ==
  /\ Runs(h)
  /\ \/ UNCHANGED held
     \/ \E b \in BOOLEAN : "lr" \in Does[h] /\ held' = [held EXCEPT ![h] = b]
     \/ \E g \in Hart \ {h} : held' = [held EXCEPT ![g] = FALSE]
  /\ UNCHANGED <<events, wait, remaining, halted>>
  /\ SlotEnds(h, TRUE)

(* begin_wait: no step is counted; the wait starts with the next round.    *)
BeginsWait(h, kind) ==
  /\ Runs(h)
  /\ (IF kind = "Wfi" THEN "wfi" ELSE "wrs") \in Does[h]
  /\ wait' = [wait EXCEPT ![h] = kind]
  /\ remaining' = [remaining EXCEPT ![h] = MaxWait]
  /\ UNCHANGED <<events, held, halted>>
  /\ SlotEnds(h, FALSE)

(* The debugger stops the machine in hart h's slot: at a breakpoint,       *)
(* before the instruction, or after it ran (tohost, -halt-on-illegal).     *)
Halts(h) ==
  /\ Runs(h)
  /\ "halt" \in Does[h]
  /\ halted' = TRUE
  /\ UNCHANGED <<events, held, wait, remaining>>
  /\ \E step \in BOOLEAN : SlotEnds(h, step)

(* wait_slot: whether the wait is over, other than by an interrupt.        *)
WaitOver(h) == \/ wait[h] # "Wfi" /\ ~held[h]
               \/ remaining[h] = 0

(* A mutant of WaitGoesOn: the rounds of a wait are not counted.           *)
WaitGoesOnUncounted(h) ==
  /\ Waiting(h)
  /\ remaining[h] > 0
  /\ UNCHANGED <<events, held, wait, remaining, halted>>
  /\ SlotEnds(h, FALSE)

(* One more round of the wait.                                             *)
WaitGoesOn(h) ==
  /\ Waiting(h)
  /\ remaining[h] > 0
  /\ remaining' = [remaining EXCEPT ![h] = @ - 1]
  /\ UNCHANGED <<events, held, wait, halted>>
  /\ SlotEnds(h, FALSE)

(* The wait is over and the instruction is a step: it completes, or, if it *)
(* timed out, it may trap (mstatus.TW, hstatus.VTW; never a wrs.sto).      *)
WaitEnds(h) ==
  /\ Waiting(h)
  /\ Wake(h) \/ WaitOver(h)
  /\ wait' = [wait EXCEPT ![h] = "None"]
  /\ remaining' = [remaining EXCEPT ![h] = 0]
  /\ \/ UNCHANGED events
     \/ ~Wake(h) /\ remaining[h] = 0 /\ wait[h] # "WrsSto" /\ Trap(h)
  /\ UNCHANGED <<held, halted>>
  /\ SlotEnds(h, TRUE)

(* memory.tick_clock.                                                      *)
Tick == /\ ClockMayWrap \/ mtime < MaxTime
        /\ mtime' = IF mtime = MaxTime THEN 0 ELSE mtime + 1

StartRound == slot' = 1 /\ retired' = FALSE /\ allWaiting' = TRUE

(* Mutants of PhaseAfter: the count towards the next tick is never reset,  *)
(* or by every round.                                                      *)
PhaseNeverReset(phase) == phase
PhaseAlwaysReset(phase) == 0

(* tick_phase after a round that brought it to phase.                      *)
PhaseAfter(phase) == IF phase = InsnsPerTick THEN 0 ELSE phase

(* The end of run_round: the clock, by the steps completed or by everyone  *)
(* waiting.                                                                *)
EndRound ==
  LET phase == IF retired THEN tickPhase + 1 ELSE tickPhase
  IN  /\ slot = N + 1
      /\ tickPhase' = PhaseAfter(phase)
      /\ IF phase = InsnsPerTick \/ allWaiting THEN Tick ELSE UNCHANGED mtime
      /\ StartRound
      /\ UNCHANGED <<cmp, htimedelta, mie, level, masked, held, wait, remaining, halted>>

(* run_round returns where it finds the machine halted: the harts left in  *)
(* the round lose their slot, and the round its part in the clock.         *)
AbandonRound ==
  /\ halted
  /\ slot \in 2..N
  /\ StartRound
  /\ UNCHANGED <<events, held, wait, remaining, tickPhase, halted>>

(* The machine is halted between rounds: -haltat, gdb, the Pause button.   *)
Pause ==
  /\ slot = 1 /\ ~halted
  /\ \E h \in Hart : "halt" \in Does[h]
  /\ halted' = TRUE
  /\ UNCHANGED <<events, held, wait, remaining, round, tickPhase>>

(* The user resumes (resume_from_halt); an illegal instruction it was      *)
(* halted on traps now.                                                    *)
Resume ==
  /\ halted /\ slot = 1
  /\ halted' = FALSE
  /\ UNCHANGED events \/ \E h \in Hart : Trap(h)
  /\ UNCHANGED <<held, wait, remaining, round, tickPhase>>

(* service_input between rounds: a device raises or drops an interrupt.    *)
DeviceEvent ==
  /\ slot = 1 /\ ~halted
  /\ \E h \in Hart, b \in BOOLEAN : level' = [level EXCEPT ![h] = b]
  /\ UNCHANGED <<mtime, cmp, htimedelta, mie, masked, held, wait, remaining,
                 round, tickPhase, halted>>

Slot(h) ==
  \/ Due(h) /\ Interrupted(h)
  \/ ~Due(h) /\ (RunsEvent(h) \/ RunsPlain(h) \/ Halts(h) \/ \E k \in Waits : BeginsWait(h, k))
  \/ ~Wake(h) /\ ~WaitOver(h) /\ WaitGoesOn(h)
  \/ WaitEnds(h)

Next == \/ \E h \in Hart : Slot(h)
        \/ EndRound \/ AbandonRound \/ Pause \/ Resume \/ DeviceEvent

Spec == Init /\ [][Next]_rvars

-------------------------------------------------------------------------------
RoundsTypeOK ==
  /\ mtime \in Time
  /\ cmp \in [Hart -> [Timers -> Time]]
  /\ htimedelta \in [Hart -> Time]
  /\ mie \in [Hart -> SUBSET Sources]
  /\ level \in [Hart -> BOOLEAN]
  /\ masked \in [Hart -> BOOLEAN]
  /\ held \in [Hart -> BOOLEAN]
  /\ wait \in [Hart -> Waits \cup {"None"}]
  /\ remaining \in [Hart -> 0..MaxWait]
  /\ slot \in 1..(N + 1)
  /\ retired \in BOOLEAN
  /\ allWaiting \in BOOLEAN
  /\ tickPhase \in 0..(InsnsPerTick - 1)
  /\ halted \in BOOLEAN
=============================================================================
