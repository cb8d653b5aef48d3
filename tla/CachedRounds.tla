----------------------------- MODULE CachedRounds -----------------------------
(***************************************************************************)
(* The rounds of HartRounds as they really run: with what an earlier look  *)
(* found remembered.                                                       *)
(*                                                                         *)
(* Two things are remembered per hart.  interrupt_may_be_due keeps, with   *)
(* the value of EventGen, the mtime before which no interrupt can have     *)
(* become due, and a step before it with EventGen unmoved does not look    *)
(* (src/doom_system.cpp, 551-583 and 1095-1099).  wait_slot keeps the same *)
(* for a hart in WFI, and run_round then spends the hart's slot without    *)
(* even selecting it (113-133).  Every write that can change the answer    *)
(* moves EventGen (src/event_gen.hpp), except the clock's own tick, which  *)
(* the remembered mtime is for.                                            *)
(*                                                                         *)
(* EventGen only grows, so a remembered mtime is good while EventGen is    *)
(* the one it was found under, and is never read again once it is not.     *)
(* irqUntil and waitUntil hold the mtimes found under the present EventGen *)
(* and 0, below which there is no mtime, for the others: a bump zeroes     *)
(* them all.                                                               *)
(***************************************************************************)
EXTENDS HartRounds

VARIABLES
  irqUntil,   \* irq_deadline of each hart if its irq_key is EventGen, or 0
  waitUntil,  \* wait_until of each hart if its wait_event is EventGen, or 0
  now         \* mtime as run_round read it at the start of the round

caches == <<irqUntil, waitUntil>>
vars   == <<rvars, caches, now>>

Forgotten == [h \in Hart |-> 0]

-------------------------------------------------------------------------------
CachedInit ==
  /\ Init
  /\ irqUntil = Forgotten
  /\ waitUntil = Forgotten
  /\ now = mtime

(* The lambda consider: next, or at if it is ahead of mtime and earlier.   *)
Consider(at, next) == IF at > mtime /\ at < next THEN at ELSE next

(* The earlier of hart h's mtimecmp and stimecmp ahead of mtime; all-ones  *)
(* if neither is.                                                          *)
NextHostTimer(h) == Consider(cmp[h]["stimecmp"], Consider(cmp[h]["mtimecmp"], MaxTime))

(* The value of mtime after a tick.                                        *)
NextTick == IF mtime = MaxTime THEN 0 ELSE mtime + 1

(* A mutant of NextDeadline: vstimecmp is compared with mtime whatever     *)
(* htimedelta is.                                                          *)
NextDeadlineIgnoresDelta(h) == Consider(cmp[h]["vstimecmp"], NextHostTimer(h))

(* interrupt_may_be_due: when to look again.  With an htimedelta, at the   *)
(* next tick.                                                              *)
NextDeadline(h) ==
  Consider(IF htimedelta[h] = 0 THEN cmp[h]["vstimecmp"] ELSE NextTick, NextHostTimer(h))

(* wait_slot: the same, but the next tick is taken without comparing.      *)
NextLook(h) ==
  IF htimedelta[h] = 0 THEN Consider(cmp[h]["vstimecmp"], NextHostTimer(h)) ELSE NextTick

-------------------------------------------------------------------------------
(* EventGen moves.                                                         *)
Bump == irqUntil' = Forgotten /\ waitUntil' = Forgotten

(* select_hart: EventGen moves if the hart stepped before has other        *)
(* extensions left by misa (differ).                                       *)
Selected(until, differ) == IF differ THEN Forgotten ELSE until

(* The interrupt check of hart h is skipped: nothing has changed since it  *)
(* last found nothing.                                                     *)
IrqUnchanged(h, until) == mtime < until[h]

(* What interrupt_may_be_due leaves behind: its new answer if it looked.   *)
AfterCheck(h, until) ==
  IF IrqUnchanged(h, until) THEN until ELSE [until EXCEPT ![h] = NextDeadline(h)]

(* A mutant of BumpAfterEvent: a write to mtime does not move EventGen.    *)
BumpUnlessMtime(h, until, looks) ==
  IF mtime' # mtime THEN irqUntil' = AfterCheck(h, until) /\ waitUntil' = looks ELSE Bump

(* An instruction that changes what the checks read moves EventGen         *)
(* (Registers::write_csr, set_priv, Timer::write32, Imsic::refresh).       *)
BumpAfterEvent(h, until, looks) == Bump

(* A slot of hart h, selected.                                             *)
CachedSlot(h, differ) ==
  LET until == Selected(irqUntil, differ)
      looks == Selected(waitUntil, differ)
  IN  /\ UNCHANGED now
      /\ \/ /\ ~IrqUnchanged(h, until) /\ Due(h)
            /\ Interrupted(h)
            /\ Bump
         \/ /\ IrqUnchanged(h, until) \/ ~Due(h)
            /\ RunsEvent(h)
            /\ BumpAfterEvent(h, until, looks)
         \/ /\ IrqUnchanged(h, until) \/ ~Due(h)
            /\ RunsPlain(h) \/ Halts(h)
            /\ irqUntil' = AfterCheck(h, until)
            /\ waitUntil' = looks
         \/ /\ IrqUnchanged(h, until) \/ ~Due(h)
            /\ \E k \in Waits : BeginsWait(h, k)
            /\ irqUntil' = AfterCheck(h, until)
            /\ waitUntil' = [looks EXCEPT ![h] = 0]

(* wait_slot of hart h, selected: it looks, and remembers when nothing     *)
(* wakes it.  What it remembered is dropped with the wait: begin_wait      *)
(* would drop it before the next.                                          *)
CachedWait(h, differ) ==
  LET until == Selected(irqUntil, differ)
      looks == Selected(waitUntil, differ)
  IN  /\ UNCHANGED now
      /\ \/ /\ ~Wake(h) /\ ~WaitOver(h)
            /\ WaitGoesOn(h)
            /\ irqUntil' = until
            /\ waitUntil' = [looks EXCEPT ![h] = NextLook(h)]
         \/ /\ WaitEnds(h)
            /\ \/ events' = events /\ irqUntil' = until /\ waitUntil' = [looks EXCEPT ![h] = 0]
               \/ Bump

(* run_round's shortcut for hart h can be taken.                           *)
CanSkip(h) ==
  /\ wait[h] = "Wfi"
  /\ remaining[h] > 0
  /\ now < waitUntil[h]

(* A mutant of SkipWait: the skipped round does not count.                 *)
SkipWithoutCounting(h) ==
  /\ Waiting(h) /\ CanSkip(h)
  /\ UNCHANGED <<events, held, wait, remaining, halted, caches, now>>
  /\ SlotEnds(h, FALSE)

(* The shortcut: the round is spent as wait_slot would spend it.           *)
SkipWait(h) ==
  /\ CanSkip(h)
  /\ WaitGoesOn(h)
  /\ UNCHANGED <<caches, now>>

CachedEndRound == EndRound /\ now' = mtime' /\ UNCHANGED caches

CachedAbandon == AbandonRound /\ now' = mtime /\ UNCHANGED caches

CachedPause == Pause /\ UNCHANGED <<caches, now>>

CachedResume ==
  /\ Resume
  /\ (events' = events /\ UNCHANGED caches) \/ Bump
  /\ UNCHANGED now

(* Imsic::set_pending, Aplic::assert_source: a device's interrupt moves    *)
(* EventGen.                                                               *)
CachedDeviceEvent == DeviceEvent /\ Bump /\ UNCHANGED now

(* A snapshot between rounds, and the process that restores it: what was   *)
(* remembered is not in the snapshot (SaveState::restore).                 *)
SnapshotRestored ==
  /\ slot = 1 /\ ~halted
  /\ Bump
  /\ UNCHANGED <<rvars, now>>

SlotStep(h) ==
  \/ SkipWait(h)
  \/ /\ ~CanSkip(h)
     /\ \E differ \in BOOLEAN : CachedSlot(h, differ) \/ CachedWait(h, differ)

RoundStep == (\E h \in Hart : SlotStep(h)) \/ CachedEndRound \/ CachedAbandon

CachedNext == \/ RoundStep
              \/ CachedPause \/ CachedResume \/ CachedDeviceEvent \/ SnapshotRestored

CachedSpec == CachedInit /\ [][CachedNext]_vars

(* The CPU thread runs rounds for as long as the machine is not halted;    *)
(* nothing makes the user resume it, or a device do anything.              *)
FairSpec == CachedSpec /\ WF_vars(RoundStep)

-------------------------------------------------------------------------------
TypeOK ==
  /\ RoundsTypeOK
  /\ irqUntil \in [Hart -> Time]
  /\ waitUntil \in [Hart -> Time]
  /\ now \in Time

(* What a remembered mtime says of hart h, in terms of the registers and   *)
(* not of the clock: no enabled level is up, and every enabled timer is    *)
(* set no earlier.  With an htimedelta it says so of one tick only.        *)
Quiet(h, until) ==
  /\ "other" \in mie[h] => ~level[h]
  /\ \A c \in Timers :
       c \in mie[h] =>
         IF c = "vstimecmp" /\ htimedelta[h] # 0
         THEN mtime < until => ~TimerPendingAt(h, c, mtime)
         ELSE until <= cmp[h][c]

OneTick(h, until) == htimedelta[h] # 0 => until <= mtime + 1

(* Every remembered answer of interrupt_may_be_due still means that, where *)
(* interrupts are not masked.                                              *)
IrqInv == \A h \in Hart : irqUntil[h] > 0 =>
            OneTick(h, irqUntil[h]) /\ (masked[h] \/ Quiet(h, irqUntil[h]))

(* So does every remembered answer of wait_slot; and for a hart whose slot *)
(* is still to come in this round, the clock has not been written since    *)
(* run_round read it.                                                      *)
WaitInv == \A h \in Hart : waitUntil[h] > 0 =>
             /\ OneTick(h, waitUntil[h]) /\ Quiet(h, waitUntil[h])
             /\ slot <= h => now = mtime

DeltaInv == \A h \in Hart : htimedelta[h] \in DeltaValues \cup {0}

IInv == TypeOK /\ IrqInv /\ WaitInv /\ DeltaInv

(* A step whose interrupt check is skipped would have taken no interrupt   *)
(* ("the check would come out the same", doom_system.cpp, 551-561).        *)
IrqCacheSound == \A h \in Hart : IrqUnchanged(h, irqUntil) => ~Due(h)

(* A hart whose WFI round is skipped would not have woken ("cannot have    *)
(* been woken since it last looked", doom_system.cpp, 118-124).            *)
SkipSound == \A h \in Hart : slot = h /\ CanSkip(h) => ~Wake(h)

(* Remembering changes nothing: the machine is the one that looks at every *)
(* source in every slot ("to check that a run is the same without it").    *)
ImplementsRounds == Spec

(* Every wait ends, skipped rounds or not, unless the user halts the       *)
(* machine again and again ("after MAX_WAIT_TICKS further rounds").        *)
WaitsEnd == <>[]~halted => \A h \in Hart : wait[h] # "None" ~> wait[h] = "None"

(* The clock never stops: with harts completing steps it ticks by the      *)
(* steps, with all of them waiting by the rounds, and no mix of the two    *)
(* starves it.                                                             *)
ClockTicks == <>[]~halted => []<><<EndRound /\ Tick>>_vars
=============================================================================
