-------------------------------- MODULE FastRun --------------------------------
(***************************************************************************)
(* The loop that runs one hart (src/doom_system.cpp, cpu_loop and          *)
(* run_fast).  cpu_loop works out how many steps there are to the next     *)
(* step count at which something happens and asks run_fast for that many.  *)
(* run_fast takes runs of simple instructions without counting them,       *)
(* moving the clock or looking for interrupts, turns the mtime at which an *)
(* interrupt may next be due into a number of steps, and makes up for all  *)
(* of it at the end of the run.  Every other step is a step() of Steps,    *)
(* but for the interrupt check, which is skipped while a remembered answer *)
(* stands.                                                                 *)
(*                                                                         *)
(* Within a run the variables of Steps hold what the code's variables do,  *)
(* which is behind by `done` steps.  The refinement mapping adds those.    *)
(*                                                                         *)
(* EventGen and state_gen only grow, so what was remembered under another  *)
(* value is never read again: a bump is irqUntil = Unknown, or countsOk    *)
(* FALSE.                                                                  *)
(***************************************************************************)
EXTENDS Steps

CONSTANT Burst   \* steps between two looks at gdb and the user (200000)

ASSUME BurstAssumption == Burst \in Nat \ {0}

VARIABLES
  irqUntil,          \* irq_deadline if irq_key is EventGen, or Unknown
  counts, countsOk,  \* counts_instret and counts_cycle; counter_key is current
  at,                \* where the thread is in cpu_loop and run_fast
  budget,            \* cpu_loop's steps left of the burst,
  before,            \* and the step count before it called run_fast
  left,              \* run_fast's n
  limit, done        \* the run's steps: at most, so far

thread == <<at, budget, before, left, limit, done>>
vars   == <<svars, irqUntil, counts, countsOk, thread>>

Never == -1    \* ~0: no interrupt becomes due by the clock alone
Unknown == 0   \* no mtime is below it

(* The interrupt check has been made, and its answer still stands.         *)
Quiet == irqUntil = Never \/ mtime < irqUntil

(* interrupt_may_be_due: the mtime to look again at.                       *)
NextDeadline == IF cmp > mtime THEN cmp ELSE Never
AfterCheck == IF Quiet THEN irqUntil ELSE NextDeadline

-------------------------------------------------------------------------------
FastInit ==
  /\ Init
  /\ irqUntil = Unknown /\ counts = {} /\ countsOk = FALSE
  /\ at = "top" /\ budget = 0 /\ before = 0 /\ left = 0 /\ limit = 0 /\ done = 0

(* The counter enables after a step: refreshed as it began, and again when *)
(* the clock ticked (clock_tick); stale if a CSR write or the mode moved   *)
(* the key since.                                                          *)
KeyMoves(moves) ==
  IF phase' = 0 THEN counts' = counting' /\ countsOk' = TRUE
                ELSE counts' = counting /\ countsOk' = ~moves

(* step(), with the interrupt check's answer remembered.                   *)
StepTaken ==
  \/ /\ ~Quiet /\ Due /\ Trap
     /\ irqUntil' = Unknown /\ KeyMoves(TRUE)
     /\ UNCHANGED halted
  \/ /\ Quiet \/ ~Due
     /\ \/ /\ Plain \/ Waits
           /\ irqUntil' = AfterCheck /\ KeyMoves(FALSE)
        \/ /\ WritesTime \/ WritesIrq
           /\ irqUntil' = Unknown /\ KeyMoves(FALSE)
        \/ /\ Inhibits \/ WritesMinstret \/ WaitTraps \/ Exception
           /\ irqUntil' = Unknown /\ KeyMoves(TRUE)
     /\ UNCHANGED halted
  \/ /\ Quiet \/ ~Due
     /\ watched /\ Plain /\ halted' = "yes"
     /\ irqUntil' = AfterCheck /\ KeyMoves(FALSE)

StepBreaks ==
  /\ Quiet \/ ~Due
  /\ watched /\ ~skip
  /\ halted' = "yes"
  /\ irqUntil' = AfterCheck
  /\ counts' = counting /\ countsOk' = TRUE
  /\ UNCHANGED <<clock, irqs, counting, minstret, count, skip>>

SlowStep == (StepTaken \/ StepBreaks) /\ UNCHANGED <<served, ahead, watched>>

-------------------------------------------------------------------------------
Least(a, b) == IF a < b THEN a ELSE b

(* A mutant of StepsToGo: the burst may step over what comes between.      *)
StepsToGoPastInput == Least(Period, budget)

StepsToGo ==
  LET input == Period - (count % Period)
      Until(n, p) == IF p \in ahead THEN Least(n, At[p] - count) ELSE n
  IN  Least(Until(Until(Until(input, "stop"), "snapshot"), "halt"), budget)

(* cpu_loop: the outer loop's burst, and the inner loop's call.            *)
BeginBurst ==
  /\ at = "top" /\ halted = "no"
  /\ at' = "inner" /\ budget' = Burst
  /\ UNCHANGED <<svars, irqUntil, counts, countsOk, before, left, limit, done>>

EndBurst ==
  /\ at = "inner" /\ (budget = 0 \/ halted # "no")
  /\ at' = "top" /\ budget' = 0
  /\ UNCHANGED <<svars, irqUntil, counts, countsOk, before, left, limit, done>>

CallRunFast ==
  /\ at = "inner" /\ budget > 0 /\ halted = "no"
  /\ at' = "fast" /\ before' = count /\ left' = StepsToGo /\ budget' = budget - left'
  /\ UNCHANGED <<svars, irqUntil, counts, countsOk, limit, done>>

(* run_fast: conditions under which no step can be simple.                 *)
SlowOnly == watched \/ ~countsOk \/ ~Quiet

SlowAtEntry ==
  /\ at = "fast" /\ left > 0 /\ halted = "no" /\ SlowOnly
  /\ SlowStep
  /\ left' = left - 1
  /\ UNCHANGED <<at, budget, before, limit, done>>

(* A mutant of Limit: the phase the clock stands at is left out.           *)
LimitWithoutPhase ==
  IF irqUntil = Never THEN left ELSE Least(left, InsnsPerTick * (irqUntil - mtime))

(* Another: not cut to what run_fast was asked for.                        *)
LimitUncut == IF irqUntil = Never THEN left ELSE InsnsPerTick * (irqUntil - mtime) - phase

(* How many steps before mtime reaches irq_deadline.                       *)
Limit == IF irqUntil = Never THEN left ELSE Least(left, InsnsPerTick * (irqUntil - mtime) - phase)

BeginRun ==
  /\ at = "fast" /\ left > 0 /\ halted = "no" /\ ~SlowOnly
  /\ at' = "run" /\ limit' = Limit /\ done' = 0
  /\ UNCHANGED <<svars, irqUntil, counts, countsOk, budget, before, left>>

(* A simple instruction, which changes registers and RAM alone.            *)
FastStep ==
  /\ at = "run" /\ done < limit
  /\ done' = done + 1
  /\ UNCHANGED <<svars, irqUntil, counts, countsOk, at, budget, before, left, limit>>

(* A mutant of TicksOf: the phase the run began at is left out.            *)
TicksWithoutPhase(n) == n \div InsnsPerTick

(* The clock ticks that n steps of a run are worth.                        *)
TicksOf(n) == (phase + n) \div InsnsPerTick

(* The run is over: at its limit, or before an instruction that is not     *)
(* simple, which is then a step of its own.                                *)
EndRun ==
  /\ at = "run"
  /\ at' = IF done < limit THEN "tail" ELSE "fast"
  /\ count' = count + done
  /\ minstret' = IF "instret" \in counts THEN minstret + done ELSE minstret
  /\ mtime' = mtime + TicksOf(done)
  /\ mcycle' = IF "cycle" \in counts THEN mcycle + TicksOf(done) ELSE mcycle
  /\ phase' = (phase + done) % InsnsPerTick
  /\ skip' = (skip /\ done = 0)
  /\ left' = left - done /\ done' = 0 /\ limit' = 0
  /\ UNCHANGED <<irqs, counting, served, ahead, watched, halted,
                 irqUntil, counts, countsOk, budget, before>>

TailStep ==
  /\ at = "tail"
  /\ SlowStep
  /\ left' = left - 1 /\ at' = "fast"
  /\ UNCHANGED <<budget, before, limit, done>>

Return ==
  /\ at = "fast" /\ (left = 0 \/ halted # "no")
  /\ at' = "after" /\ left' = 0
  /\ UNCHANGED <<svars, irqUntil, counts, countsOk, budget, before, limit, done>>

(* cpu_loop, after run_fast: nothing if no step was taken, else what is    *)
(* due at this step count.  The first multiple of Period reached is the    *)
(* one served: StepsToGo ends there.                                       *)
ServeInput ==
  /\ at = "after" /\ count # before
  /\ Input
  /\ irqUntil' = IF other' = other THEN irqUntil ELSE Unknown
  /\ UNCHANGED <<counts, countsOk, thread>>

SaveSnapshot ==
  /\ at = "after" /\ count # before
  /\ Snapshot
  /\ UNCHANGED <<irqUntil, counts, countsOk, thread>>

StopOrHalt ==
  /\ at = "after" /\ count # before
  /\ Stop \/ Halt
  /\ at' = "top"
  /\ UNCHANGED <<irqUntil, counts, countsOk, budget, before, left, limit, done>>

GoOn ==
  /\ at = "after"
  /\ count # before => ~InputDue /\ \A p \in Points : ~PointDue(p)
  /\ at' = IF count = before THEN "top" ELSE "inner"
  /\ UNCHANGED <<svars, irqUntil, counts, countsOk, budget, before, left, limit, done>>

(* gdb is looked at between bursts.  A resume goes straight on to one.     *)
GdbPauses ==
  /\ at = "top" /\ Pause
  /\ UNCHANGED <<irqUntil, counts, countsOk, thread>>

UserResumes ==
  /\ at = "top" /\ Resume
  /\ at' = "inner" /\ budget' = Burst
  /\ UNCHANGED <<irqUntil, counts, countsOk, before, left, limit, done>>

Loop == \/ BeginBurst \/ EndBurst \/ CallRunFast
        \/ SlowAtEntry \/ BeginRun \/ FastStep \/ EndRun \/ TailStep \/ Return
        \/ ServeInput \/ SaveSnapshot \/ StopOrHalt \/ GoOn

FastNext == Loop \/ GdbPauses \/ UserResumes

FastSpec == FastInit /\ [][FastNext]_vars
FairSpec == FastSpec /\ WF_vars(Loop)

-------------------------------------------------------------------------------
TypeOK ==
  /\ StepsTypeOK
  /\ irqUntil \in Nat \cup {Never} /\ counts \in SUBSET Counters /\ countsOk \in BOOLEAN
  /\ at \in {"top", "inner", "fast", "run", "tail", "after"}
  /\ budget \in 0..Burst /\ before \in Nat /\ left \in 0..Period
  /\ limit \in 0..Period /\ done \in 0..Period

(* The machine as it would be had every step of the run so far been taken  *)
(* by step(): what the bookkeeping at its end will make it.                *)
mtimeNow    == mtime + TicksOf(done)
phaseNow    == (phase + done) % InsnsPerTick
mcycleNow   == IF "cycle" \in counting THEN mcycle + TicksOf(done) ELSE mcycle
minstretNow == IF "instret" \in counting THEN minstret + done ELSE minstret
countNow    == count + done
skipNow     == skip /\ done = 0

Exact == INSTANCE Steps WITH
  mtime <- mtimeNow, phase <- phaseNow, mcycle <- mcycleNow,
  minstret <- minstretNow, count <- countNow, skip <- skipNow

(* The fast loop is the step-by-step machine: every instruction runs at    *)
(* the step count, with the clock and the counters it would have run with, *)
(* every interrupt is taken at the step it would have been taken at, and   *)
(* input, snapshots, the end of the run and halts come between the same    *)
(* two steps ("Exactly what n calls to step() do, faster", run_fast).      *)
ImplementsSteps == Exact!Spec

(* The answer remembered from an interrupt check is right: while it        *)
(* stands, a check would find nothing, now and at every step of the run up *)
(* to its limit (interrupt_may_be_due, and the limit in run_fast).         *)
NoneMissed ==
  /\ Quiet => ~Due
  /\ at = "run" => \A j \in 0..(limit - 1) : masked \/ ~WakeAt(mtime + TicksOf(j))

(* run_fast, in a run or not, never has more steps to go than there are to *)
(* the next point at which cpu_loop has something to do, so none is        *)
(* stepped over ("at the same counts as checking after every       *)
(* step", cpu_loop).                                                       *)
NoPointPassed ==
  /\ \A p \in ahead : count + left <= At[p]
  /\ left > 0 => (count % Period) + left <= Period

(* A run with -stopat ends there, as long as nobody leaves the machine     *)
(* halted: halts and bursts do not keep it from it, and no resume from a   *)
(* breakpoint halts at the same breakpoint again without a step.           *)
RunEnds == <>(halted = "ended") \/ <>[](halted = "yes")
=============================================================================
