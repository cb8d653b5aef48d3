----------------------------- MODULE FastRunProofs -----------------------------
(***************************************************************************)
(* Proofs about the loop of FastRun: the type invariant, that a remembered *)
(* answer to the interrupt check never hides an interrupt that is due,     *)
(* that no point is stepped over, and that the loop implements the machine *)
(* of Steps.                                                               *)
(***************************************************************************)
EXTENDS FastRun, TLAPS

-------------------------------------------------------------------------------
(* Arithmetic: the remainder of a division by Period.                      *)
LEMMA DivMod ==
  ASSUME NEW P \in Nat \ {0}, NEW c \in Nat
  PROVE  /\ c % P \in 0..(P - 1) /\ c \div P \in Nat
         /\ c = P * (c \div P) + (c % P)
BY SMT

LEMMA ModUnique ==
  ASSUME NEW P \in Nat \ {0}, NEW q \in Nat, NEW r \in 0..(P - 1),
         NEW q2 \in Nat, NEW r2 \in 0..(P - 1),
         P * q + r = P * q2 + r2
  PROVE  r = r2
<1>1. CASE q < q2
  <2>1. PICK d \in Nat : q2 = q + 1 + d
    <3>1. q2 - q - 1 \in Nat /\ q2 = q + 1 + (q2 - q - 1)
      BY <1>1
    <3> QED
      BY <3>1
  <2>2. P * q2 = P * q + P + P * d /\ P * d >= 0
    BY <2>1
  <2> QED
    BY <2>2
<1>2. CASE q2 < q
  <2>1. PICK d \in Nat : q = q2 + 1 + d
    <3>1. q - q2 - 1 \in Nat /\ q = q2 + 1 + (q - q2 - 1)
      BY <1>2
    <3> QED
      BY <3>1
  <2>2. P * q = P * q2 + P + P * d /\ P * d >= 0
    BY <2>1
  <2> QED
    BY <2>2
<1> QED
  BY <1>1, <1>2

(* Counting on within a period adds to the remainder.                      *)
LEMMA ModAdd ==
  ASSUME NEW P \in Nat \ {0}, NEW c \in Nat, NEW k \in Nat, (c % P) + k < P
  PROVE  (c + k) % P = (c % P) + k
<1> DEFINE q == c \div P
           r == (c % P) + k
           q2 == (c + k) \div P
           r2 == (c + k) % P
<1>1. c + k \in Nat
  OBVIOUS
<1>2. c = P * q + (c % P) /\ c % P \in 0..(P - 1) /\ q \in Nat
  BY DivMod
<1>3. c + k = P * q2 + r2 /\ r2 \in 0..(P - 1) /\ q2 \in Nat
  BY <1>1, DivMod
<1>4. r \in 0..(P - 1)
  BY <1>2
<1> HIDE DEF q, q2, r2
<1>5. P * q + r = P * q2 + r2
  BY <1>2, <1>3
<1> HIDE DEF r
<1>6. r = r2
  BY <1>2, <1>3, <1>4, <1>5, ModUnique
<1> QED
  BY <1>6 DEF r, r2

-------------------------------------------------------------------------------
(* The inductive invariant.                                                *)

Clean == ~InputDue /\ \A p \in Points : ~PointDue(p)

(* counter_key is current only with the enables it was computed with.      *)
KeyInv == countsOk => counts = counting

(* What an interrupt check that found nothing leaves behind.               *)
AnswerInv ==
  /\ irqUntil = Never => masked
  /\ irqUntil # Never /\ mtime < irqUntil => masked \/ (~other /\ irqUntil <= cmp)

(* A run began with everything known, and is not longer than it may be.    *)
RunInv ==
  /\ at # "run" => done = 0
  /\ at \in {"run", "tail"} => halted = "no" /\ left > 0
  /\ at = "run" => /\ Quiet /\ countsOk
                   /\ done <= limit /\ limit <= left
                   /\ irqUntil # Never => limit <= InsnsPerTick * (irqUntil - mtime) - phase

(* Where cpu_loop and run_fast stand between two points.                   *)
CountInv ==
  /\ \A p \in ahead : count + left <= At[p]
  /\ left > 0 => (count % Period) + left <= Period /\ Clean
  /\ at \in {"top", "inner", "after"} => left = 0
  /\ at \in {"top", "inner"} /\ halted # "ended" => Clean
  /\ at \in {"inner", "fast", "run", "tail", "after"} => halted # "ended"
  /\ at \in {"fast", "run", "tail", "after"} => before <= count /\ (count = before => Clean)

IInv == TypeOK /\ KeyInv /\ AnswerInv /\ RunInv /\ CountInv

LEMMA AtType == At \in [Points -> Nat]
BY CountsAssumption DEF At, Points

LEMMA InitInv == FastInit => IInv
<1> SUFFICES ASSUME FastInit PROVE IInv
  OBVIOUS
<1> USE CountsAssumption, SoftwareAssumption, BurstAssumption, AtType
<1>1. TypeOK
  <2>1. other \in BOOLEAN /\ masked \in BOOLEAN /\ watched \in BOOLEAN /\ skip \in BOOLEAN /\ countsOk \in BOOLEAN
    BY Zenon DEF FastInit, Init
  <2>2. StepsTypeOK
    BY <2>1 DEF FastInit, Init, StepsTypeOK, InsnsPerTick
  <2> QED
    BY <2>1, <2>2 DEF FastInit, TypeOK, Unknown
<1>2. KeyInv /\ AnswerInv /\ RunInv
  BY DEF FastInit, Init, KeyInv, AnswerInv, RunInv, Unknown, Never
<1>3. Clean
  BY DEF FastInit, Init, Clean, InputDue, PointDue
<1>4. CountInv
  BY <1>3 DEF FastInit, Init, CountInv
<1> QED
  BY <1>1, <1>2, <1>4 DEF IInv

-------------------------------------------------------------------------------
(* What every step does to the types, the count and the clock.             *)

Moved == /\ count' = count + 1 /\ phase' \in 0..1
         /\ mtime' \in Nat /\ mcycle' \in Nat /\ minstret' \in Nat
         /\ cmp' \in Nat /\ counting' \in SUBSET Counters

Flags == other \in BOOLEAN /\ masked \in BOOLEAN /\ watched \in BOOLEAN /\ skip \in BOOLEAN /\ countsOk \in BOOLEAN

LEMMA TypeFlags == TypeOK => Flags
BY DEF TypeOK, StepsTypeOK, Flags

LEMMA TrapMoves ==
  ASSUME TypeOK, Trap \/ WaitTraps \/ Exception
  PROVE  Moved /\ other' = other /\ masked' \in BOOLEAN /\ skip' = FALSE
<1> USE CountsAssumption DEF TypeOK, StepsTypeOK, InsnsPerTick
<1>1. CASE Trap \/ Exception
  <2>1. Trap
    BY <1>1 DEF Exception
  <2>2. Moved
    BY <2>1 DEF Moved, Trap, TrapFrom, Ends, Moves
  <2> QED
    BY <2>1, <2>2, Zenon DEF Trap, TrapFrom, Ends, Moves
<1>2. CASE WaitTraps
  <2>1. Moved
    BY <1>2 DEF Moved, WaitTraps, CyclesAfter, TrapFrom, Ends, Moves
  <2> QED
    BY <1>2, <2>1, Zenon DEF WaitTraps, TrapFrom, Ends, Moves
<1> QED
  BY <1>1, <1>2

LEMMA PlainMoves ==
  ASSUME TypeOK, Plain \/ Waits
  PROVE  /\ Moved /\ mtime' >= mtime /\ counting' = counting
         /\ cmp' = cmp /\ other' = other /\ masked' = masked /\ skip' = FALSE
<1> USE CountsAssumption DEF TypeOK, StepsTypeOK, InsnsPerTick
<1>1. CASE Plain
  <2>1. Moved /\ mtime' >= mtime /\ counting' = counting /\ cmp' = cmp
    BY <1>1 DEF Moved, Plain, irqs, Ends, Moves
  <2> QED
    BY <1>1, <2>1, Zenon DEF Plain, irqs, Ends, Moves
<1>2. CASE Waits
  <2>1. PICK k \in 1..MaxWait : Ends(TRUE, mtime + k, CyclesAfter(k))
    BY <1>2 DEF Waits
  <2>2. Moved /\ mtime' >= mtime /\ counting' = counting /\ cmp' = cmp
    BY <1>2, <2>1 DEF Moved, Waits, irqs, CyclesAfter, Ends, Moves
  <2> QED
    BY <1>2, <2>1, <2>2, Zenon DEF Waits, irqs, Ends, Moves
<1> QED
  BY <1>1, <1>2

LEMMA WriteMoves ==
  ASSUME TypeOK, WritesTime \/ WritesIrq
  PROVE  /\ Moved /\ counting' = counting
         /\ other' \in BOOLEAN /\ masked' \in BOOLEAN /\ skip' = FALSE
<1> USE CountsAssumption, SoftwareAssumption DEF TypeOK, StepsTypeOK, InsnsPerTick
<1>1. CASE WritesTime
  <2>1. PICK t \in TimeValues : Ends(TRUE, t, mcycle)
    BY <1>1 DEF WritesTime
  <2>2. Moved /\ counting' = counting
    BY <1>1, <2>1 DEF Moved, WritesTime, irqs, Ends, Moves
  <2>3. other' = other /\ masked' = masked /\ skip' = FALSE
    BY <1>1, <2>1, Zenon DEF WritesTime, irqs, Ends, Moves
  <2> QED
    BY <2>2, <2>3
<1>2. CASE WritesIrq
  <2>0. cmp' \in Nat
    <3>1. cmp' \in TimeValues \/ cmp' = cmp
      BY <1>2, Zenon DEF WritesIrq
    <3> QED
      BY <3>1
  <2>1. counting' = counting /\ Ends(TRUE, mtime, mcycle)
    BY <1>2, Zenon DEF WritesIrq
  <2>2. Moved
    BY <2>0, <2>1 DEF Moved, Ends, Moves
  <2> QED
    BY <1>2, <2>1, <2>2, Zenon DEF WritesIrq, Ends, Moves
<1> QED
  BY <1>1, <1>2

LEMMA CsrMoves ==
  ASSUME TypeOK, Inhibits \/ WritesMinstret
  PROVE  /\ Moved /\ other' = other /\ masked' = masked /\ skip' = FALSE
<1> USE CountsAssumption DEF TypeOK, StepsTypeOK, InsnsPerTick
<1>1. Moved
  BY DEF Moved, Inhibits, WritesMinstret, irqs, Ends, Moves
<1> QED
  BY <1>1, Zenon DEF Inhibits, WritesMinstret, irqs, Ends, Moves

-------------------------------------------------------------------------------
(* A slow step keeps the invariant.                                        *)

(* What it leaves of the answer to the interrupt check, and of the key.    *)
LEMMA AnswerKept ==
  ASSUME TypeOK, AnswerInv, Quiet \/ ~Due, irqUntil' = AfterCheck,
         mtime' \in Nat, mtime' >= mtime,
         cmp' = cmp, other' = other, masked' = masked
  PROVE  AnswerInv' /\ irqUntil' \in Nat \cup {Never}
<1> USE DEF TypeOK, StepsTypeOK, AnswerInv, AfterCheck, NextDeadline, Never
<1>1. CASE Quiet
  BY <1>1 DEF Quiet
<1>2. CASE ~Quiet /\ masked
  BY <1>2
<1>3. CASE ~Quiet /\ ~masked /\ ~WakeAt(mtime)
  BY <1>3 DEF WakeAt
<1> QED
  BY <1>1, <1>2, <1>3 DEF Due

LEMMA SlowAnswer ==
  ASSUME TypeOK, AnswerInv, KeyInv, StepTaken
  PROVE  /\ Moved /\ AnswerInv' /\ irqUntil' \in Nat \cup {Never}
         /\ KeyInv' /\ counts' \in SUBSET Counters
         /\ other' \in BOOLEAN /\ masked' \in BOOLEAN /\ skip' \in BOOLEAN /\ countsOk' \in BOOLEAN
         /\ halted' \in {halted, "yes"}
<1>0. Flags /\ counting \in SUBSET Counters
  BY TypeFlags DEF TypeOK, StepsTypeOK
<1>1. ASSUME Moved, irqUntil' = Unknown
      PROVE  AnswerInv' /\ irqUntil' \in Nat \cup {Never}
  BY <1>1 DEF Moved, AnswerInv, Unknown, Never
<1>2. ASSUME Moved, KeyMoves(TRUE)
      PROVE  KeyInv' /\ counts' \in SUBSET Counters /\ countsOk' \in BOOLEAN
  BY <1>0, <1>2, Zenon DEF Moved, KeyMoves, KeyInv
<1>3. ASSUME Moved, KeyMoves(FALSE), counting' = counting
      PROVE  KeyInv' /\ counts' \in SUBSET Counters /\ countsOk' \in BOOLEAN
  BY <1>0, <1>3, Zenon DEF Moved, KeyMoves, KeyInv
<1>4. CASE (Trap \/ WaitTraps \/ Exception) /\ irqUntil' = Unknown /\ KeyMoves(TRUE) /\ UNCHANGED halted
  BY <1>0, <1>1, <1>2, <1>4, TrapMoves, Zenon DEF Flags
<1>5. CASE (Inhibits \/ WritesMinstret) /\ irqUntil' = Unknown /\ KeyMoves(TRUE) /\ UNCHANGED halted
  BY <1>0, <1>1, <1>2, <1>5, CsrMoves, Zenon DEF Flags
<1>6. CASE (WritesTime \/ WritesIrq) /\ irqUntil' = Unknown /\ KeyMoves(FALSE) /\ UNCHANGED halted
  BY <1>0, <1>1, <1>3, <1>6, WriteMoves, Zenon DEF Flags
<1>7. CASE (Quiet \/ ~Due) /\ (Plain \/ Waits) /\ irqUntil' = AfterCheck /\ KeyMoves(FALSE)
           /\ halted' \in {halted, "yes"}
  <2>1. /\ Moved /\ mtime' >= mtime /\ counting' = counting
        /\ cmp' = cmp /\ other' = other /\ masked' = masked /\ skip' = FALSE
    BY <1>7, PlainMoves
  <2>2. AnswerInv' /\ irqUntil' \in Nat \cup {Never}
    <3>1. mtime' \in Nat
      BY <2>1 DEF Moved
    <3> QED
      BY <1>7, <2>1, <3>1, AnswerKept
  <2> QED
    BY <1>0, <1>3, <1>7, <2>1, <2>2, Zenon DEF Flags
<1> QED
  BY <1>4, <1>5, <1>6, <1>7, Zenon DEF StepTaken

(* The bounds of the points, one step on.                                  *)
LEMMA CleanAhead ==
  ASSUME TypeOK, NEW k \in Nat, k > 0,
         \A p \in ahead : count + left <= At[p],
         (count % Period) + left <= Period, k < left
  PROVE  /\ (count + k) % Period = (count % Period) + k
         /\ (count + k) % Period # 0
         /\ \A p \in ahead : At[p] # count + k
<1> USE CountsAssumption, AtType DEF TypeOK, StepsTypeOK
<1>1. count \in Nat /\ left \in Nat /\ Period \in Nat \ {0}
  OBVIOUS
<1>2. count % Period \in 0..(Period - 1)
  BY <1>1, DivMod
<1>3. (count + k) % Period = (count % Period) + k
  <2>1. (count % Period) + k < Period
    BY <1>1, <1>2
  <2> HIDE DEF TypeOK, StepsTypeOK
  <2> QED
    BY <1>1, <2>1, ModAdd
<1>4. (count + k) % Period # 0
  BY <1>2, <1>3
<1>5. ASSUME NEW p \in ahead PROVE At[p] # count + k
  <2>1. At[p] \in Nat
    BY DEF Points
  <2> QED
    BY <1>1, <2>1
<1> QED
  BY <1>3, <1>4, <1>5

LEMMA SlowStepInv ==
  ASSUME IInv, at \in {"fast", "tail"}, left > 0, halted = "no",
         SlowStep, left' = left - 1, at' = "fast", UNCHANGED <<budget, before, limit, done>>
  PROVE  IInv'
<1> USE CountsAssumption, AtType
<1>0. TypeOK /\ KeyInv /\ AnswerInv /\ RunInv /\ CountInv /\ Flags
  BY TypeFlags DEF IInv
<1>1. UNCHANGED <<served, ahead, watched>>
  BY DEF SlowStep
<1>2. left' \in 0..Period /\ done' = 0
  BY <1>0 DEF TypeOK, RunInv
<1>3. CASE StepTaken
  <2>1. /\ Moved /\ AnswerInv' /\ irqUntil' \in Nat \cup {Never}
        /\ KeyInv' /\ counts' \in SUBSET Counters
        /\ other' \in BOOLEAN /\ masked' \in BOOLEAN /\ skip' \in BOOLEAN /\ countsOk' \in BOOLEAN
        /\ halted' \in {halted, "yes"}
    BY <1>0, <1>3, SlowAnswer
  <2>2. watched' \in BOOLEAN
    BY <1>0, <1>1, Zenon DEF Flags
  <2>3. TypeOK'
    <3>1. StepsTypeOK'
      BY <1>0, <1>1, <2>1, <2>2 DEF TypeOK, StepsTypeOK, Moved, InsnsPerTick
    <3> QED
      BY <1>0, <1>2, <2>1, <3>1 DEF TypeOK
  <2>4. RunInv'
    BY <1>2 DEF RunInv
  <2>5. CountInv'
    <3>1. \A p \in ahead : count + 1 + left' <= At[p]
      BY <1>0 DEF CountInv, TypeOK, StepsTypeOK, Points
    <3>2. left' > 0 => /\ ((count + 1) % Period) + left' <= Period
                       /\ (count + 1) % Period # 0
                       /\ \A p \in ahead : At[p] # count + 1
      <4> SUFFICES ASSUME left' > 0
                   PROVE  /\ ((count + 1) % Period) + left' <= Period
                          /\ (count + 1) % Period # 0
                          /\ \A p \in ahead : At[p] # count + 1
        OBVIOUS
      <4>1. (count % Period) + left <= Period /\ \A p \in ahead : count + left <= At[p] /\ 1 < left
        BY <1>0 DEF CountInv, TypeOK
      <4>2. /\ (count + 1) % Period = (count % Period) + 1
            /\ (count + 1) % Period # 0
            /\ \A p \in ahead : At[p] # count + 1
        <5>1. 1 < left
          BY <1>0 DEF TypeOK
        <5> QED
          BY <1>0, <4>1, <5>1, CleanAhead
      <4>3. count % Period \in Nat /\ left \in Nat
        BY <1>0, DivMod DEF TypeOK, StepsTypeOK
      <4> QED
        BY <4>1, <4>2, <4>3
    <3>3. left' > 0 => Clean'
      BY <1>1, <2>1, <3>2 DEF Clean, InputDue, PointDue, Moved
    <3>4. before <= count /\ count \in Nat /\ before \in Nat
      BY <1>0 DEF CountInv, TypeOK, StepsTypeOK
    <3> QED
      BY <1>1, <2>1, <3>1, <3>2, <3>3, <3>4 DEF CountInv, Moved
  <2> QED
    BY <2>1, <2>3, <2>4, <2>5 DEF IInv
<1>4. CASE StepBreaks
  <2>1. /\ UNCHANGED <<mtime, phase, mcycle, cmp, other, masked, counting, minstret, count, skip>>
        /\ irqUntil' = AfterCheck /\ (Quiet \/ ~Due)
        /\ counts' = counting /\ countsOk' = TRUE /\ halted' = "yes"
    BY <1>4 DEF StepBreaks, clock, irqs
  <2>2. AnswerInv' /\ irqUntil' \in Nat \cup {Never}
    <3>1. mtime' \in Nat /\ mtime' >= mtime
      BY <1>0, <2>1 DEF TypeOK, StepsTypeOK
    <3> QED
      BY <1>0, <2>1, <3>1, AnswerKept
  <2>3. KeyInv' /\ other' \in BOOLEAN /\ masked' \in BOOLEAN /\ watched' \in BOOLEAN /\ skip' \in BOOLEAN /\ countsOk' \in BOOLEAN
    BY <1>0, <1>1, <2>1, Zenon DEF Flags, KeyInv
  <2>4. TypeOK'
    <3>1. StepsTypeOK'
      BY <1>0, <1>1, <2>1, <2>3 DEF TypeOK, StepsTypeOK, InsnsPerTick
    <3> QED
      BY <1>0, <1>2, <2>1, <2>2, <2>3, <3>1 DEF TypeOK, StepsTypeOK
  <2>5. RunInv'
    BY <1>2 DEF RunInv
  <2>6. CountInv'
    <3>1. Clean'
      BY <1>0, <1>1, <2>1 DEF CountInv, Clean, InputDue, PointDue
    <3>2. \A p \in ahead : count + left' <= At[p]
      BY <1>0 DEF CountInv, TypeOK, StepsTypeOK, Points
    <3>3. count % Period \in Nat /\ left \in Nat
      BY <1>0, DivMod DEF TypeOK, StepsTypeOK
    <3>4. (count % Period) + left <= Period
      BY <1>0 DEF CountInv
    <3>5. (count % Period) + left' <= Period
      BY <3>3, <3>4
    <3> QED
      BY <1>0, <1>1, <2>1, <3>1, <3>2, <3>5 DEF CountInv
  <2> QED
    BY <2>2, <2>3, <2>4, <2>5, <2>6 DEF IInv
<1> QED
  BY <1>3, <1>4 DEF SlowStep

-------------------------------------------------------------------------------
(* The other actions keep it.                                              *)

(* Those that only move the thread.                                        *)
LEMMA ThreadMoves ==
  ASSUME IInv, UNCHANGED <<svars, irqUntil, counts, countsOk>>
  PROVE  /\ UNCHANGED <<mtime, phase, cmp, masked, other, counting, count, served, ahead, watched, halted>>
         /\ StepsTypeOK' /\ KeyInv' /\ AnswerInv' /\ Clean' = Clean
         /\ irqUntil' \in Nat \cup {Never} /\ counts' \in SUBSET Counters /\ countsOk' \in BOOLEAN
<1>0. TypeOK /\ KeyInv /\ AnswerInv
  BY DEF IInv
<1>1. UNCHANGED <<mtime, phase, cmp, masked, other, counting, count, served, ahead, watched, halted, mcycle, minstret, skip>>
  BY DEF svars, clock, irqs, loop
<1>2. StepsTypeOK'
  <2>1. StepsTypeOK
    BY <1>0 DEF TypeOK
  <2> QED
    BY <1>1, <2>1, Zenon DEF StepsTypeOK
<1>3. KeyInv'
  BY <1>0, <1>1, Zenon DEF KeyInv
<1>4. AnswerInv'
  BY <1>0, <1>1 DEF AnswerInv
<1>5. Clean' = Clean
  BY <1>1, Zenon DEF Clean, InputDue, PointDue
<1>6. irqUntil' \in Nat \cup {Never} /\ counts' \in SUBSET Counters /\ countsOk' \in BOOLEAN
  BY <1>0, Zenon DEF TypeOK
<1> QED
  BY <1>1, <1>2, <1>3, <1>4, <1>5, <1>6

LEMMA StepsToGoType ==
  ASSUME IInv, at = "inner", budget > 0, halted = "no"
  PROVE  /\ StepsToGo \in 1..Period /\ StepsToGo <= budget
         /\ (count % Period) + StepsToGo <= Period
         /\ \A p \in ahead : count + StepsToGo <= At[p]
<1> USE CountsAssumption, BurstAssumption, AtType
<1>0. TypeOK /\ Clean /\ left = 0 /\ (\A p \in ahead : count + left <= At[p])
  BY DEF IInv, CountInv
<1>1. count \in Nat /\ budget \in Nat /\ ahead \subseteq Points
  BY <1>0 DEF TypeOK, StepsTypeOK
<1>2. count % Period \in 0..(Period - 1)
  BY <1>1, DivMod
<1>3. \A p \in ahead : At[p] \in Nat /\ At[p] > count
  <2> SUFFICES ASSUME NEW p \in ahead PROVE At[p] \in Nat /\ At[p] > count
    OBVIOUS
  <2>1. At[p] \in Nat /\ p \in Points
    BY <1>1
  <2>2. ~PointDue(p)
    BY <1>0, <2>1 DEF Clean
  <2>3. At[p] # count
    BY <2>2 DEF PointDue
  <2>4. count + left <= At[p]
    BY <1>0
  <2> QED
    BY <1>0, <1>1, <2>1, <2>3, <2>4
<1> DEFINE input == Period - (count % Period)
           Until(n, p) == IF p \in ahead THEN Least(n, At[p] - count) ELSE n
<1>4. \A n \in 1..Period, p \in Points :
        /\ Until(n, p) \in 1..Period /\ Until(n, p) <= n
        /\ p \in ahead => count + Until(n, p) <= At[p]
  BY <1>1, <1>3 DEF Least
<1>5. input \in 1..Period
  BY <1>2
<1> DEFINE a == Until(input, "stop")
           b == Until(a, "snapshot")
           c == Until(b, "halt")
<1>6. "stop" \in Points /\ "snapshot" \in Points /\ "halt" \in Points
  BY DEF Points
<1>7. a \in 1..Period /\ a <= input /\ ("stop" \in ahead => count + a <= At["stop"])
  BY <1>4, <1>5, <1>6
<1>8. b \in 1..Period /\ b <= a /\ ("snapshot" \in ahead => count + b <= At["snapshot"])
  <2> HIDE DEF a, Until
  <2> QED
    BY <1>4, <1>7, <1>6 DEF b
<1>9. c \in 1..Period /\ c <= b /\ ("halt" \in ahead => count + c <= At["halt"])
  <2> HIDE DEF b, Until
  <2> QED
    BY <1>4, <1>8, <1>6 DEF c
<1>10. StepsToGo = Least(c, budget)
  BY DEF StepsToGo
<1> HIDE DEF a, b, c, Until
<1>11. StepsToGo \in 1..Period /\ StepsToGo <= budget /\ StepsToGo <= c
  BY <1>1, <1>9, <1>10 DEF Least
<1>12. (count % Period) + StepsToGo <= Period
  BY <1>2, <1>5, <1>7, <1>8, <1>9, <1>11
<1>13. \A p \in ahead : count + StepsToGo <= At[p]
  <2> SUFFICES ASSUME NEW p \in ahead PROVE count + StepsToGo <= At[p]
    OBVIOUS
  <2>1. p \in {"stop", "snapshot", "halt"} /\ At[p] \in Nat
    BY <1>1, <1>3 DEF Points
  <2>2. CASE p = "stop"
    BY <1>1, <1>7, <1>8, <1>9, <1>11, <2>1, <2>2
  <2>3. CASE p = "snapshot"
    BY <1>1, <1>8, <1>9, <1>11, <2>1, <2>3
  <2>4. CASE p = "halt"
    BY <1>1, <1>9, <1>11, <2>1, <2>4
  <2> QED
    BY <2>1, <2>2, <2>3, <2>4
<1> QED
  BY <1>11, <1>12, <1>13

LEMMA LoopOnlyInv ==
  ASSUME IInv, BeginBurst \/ EndBurst \/ CallRunFast \/ BeginRun \/ FastStep \/ Return \/ GoOn
  PROVE  IInv'
<1> USE CountsAssumption, BurstAssumption
<1>0. TypeOK /\ KeyInv /\ AnswerInv /\ RunInv /\ CountInv
  BY DEF IInv
<1>1. UNCHANGED <<svars, irqUntil, counts, countsOk>>
  BY Zenon DEF BeginBurst, EndBurst, CallRunFast, BeginRun, FastStep, Return, GoOn
<1>2. /\ UNCHANGED <<mtime, phase, cmp, masked, other, counting, count, served, ahead, watched, halted>>
      /\ StepsTypeOK' /\ KeyInv' /\ AnswerInv' /\ Clean' = Clean
      /\ irqUntil' \in Nat \cup {Never} /\ counts' \in SUBSET Counters /\ countsOk' \in BOOLEAN
  BY <1>1, ThreadMoves
<1>3. count \in Nat /\ left \in 0..Period /\ budget \in 0..Burst /\ mtime \in Nat /\ phase \in 0..1
  BY <1>0 DEF TypeOK, StepsTypeOK, InsnsPerTick
<1>4. ASSUME at' \in {"top", "inner", "fast", "run", "tail", "after"}, budget' \in 0..Burst, before' \in Nat,
             left' \in 0..Period, limit' \in 0..Period, done' \in 0..Period
      PROVE  TypeOK'
  BY <1>2, <1>4 DEF TypeOK
<1>5. CASE BeginBurst \/ EndBurst
  <2>1. TypeOK'
    BY <1>0, <1>4, <1>5 DEF BeginBurst, EndBurst, TypeOK
  <2>2. RunInv'
    BY <1>0, <1>5 DEF BeginBurst, EndBurst, RunInv
  <2>3. CountInv'
    BY <1>0, <1>2, <1>5 DEF BeginBurst, EndBurst, CountInv
  <2> QED
    BY <1>2, <2>1, <2>2, <2>3 DEF IInv
<1>6. CASE CallRunFast
  <2>1. /\ StepsToGo \in 1..Period /\ StepsToGo <= budget
        /\ (count % Period) + StepsToGo <= Period
        /\ \A p \in ahead : count + StepsToGo <= At[p]
    BY <1>6, StepsToGoType DEF CallRunFast
  <2>2. left' = StepsToGo /\ budget' = budget - left' /\ at' = "fast" /\ before' = count
        /\ at = "inner" /\ halted = "no" /\ UNCHANGED <<limit, done>>
    BY <1>6 DEF CallRunFast
  <2>3. TypeOK'
    <3>1. budget' \in 0..Burst
      BY <1>3, <2>1, <2>2
    <3> QED
      BY <1>0, <1>3, <1>4, <2>1, <2>2, <3>1 DEF TypeOK
  <2>4. RunInv'
    BY <1>0, <2>2 DEF RunInv
  <2>5. Clean
    BY <1>0, <2>2 DEF CountInv
  <2>6. CountInv'
    BY <1>2, <1>3, <2>1, <2>2, <2>5 DEF CountInv
  <2> QED
    BY <1>2, <2>3, <2>4, <2>6 DEF IInv
<1>7. CASE BeginRun
  <2>1. /\ at = "fast" /\ left > 0 /\ halted = "no" /\ Quiet /\ countsOk
        /\ at' = "run" /\ limit' = Limit /\ done' = 0 /\ UNCHANGED <<budget, before, left>>
    BY <1>7 DEF BeginRun, SlowOnly
  <2>2. /\ Limit \in 0..left
        /\ irqUntil # Never => Limit <= InsnsPerTick * (irqUntil - mtime) - phase
    <3>1. CASE irqUntil = Never
      BY <1>3, <3>1 DEF Limit
    <3>2. CASE irqUntil # Never
      <4>1. irqUntil \in Nat /\ mtime < irqUntil
        BY <1>0, <2>1, <3>2 DEF TypeOK, Quiet
      <4> QED
        BY <1>3, <3>2, <4>1 DEF Limit, Least, InsnsPerTick
    <3> QED
      BY <3>1, <3>2
  <2>3. TypeOK'
    BY <1>0, <1>3, <1>4, <2>1, <2>2 DEF TypeOK
  <2>4. Quiet' /\ countsOk'
    BY <1>1, <1>2, <2>1, Zenon DEF Quiet
  <2>5. irqUntil' = irqUntil
    BY <1>1
  <2>6. RunInv'
    BY <1>2, <1>3, <2>1, <2>2, <2>4, <2>5 DEF RunInv
  <2>7. CountInv'
    BY <1>0, <1>2, <2>1 DEF CountInv
  <2> QED
    BY <1>2, <2>3, <2>6, <2>7 DEF IInv
<1>8. CASE FastStep
  <2>1. at = "run" /\ at' = "run" /\ done' = done + 1 /\ done < limit /\ UNCHANGED <<budget, before, left, limit>>
    BY <1>8 DEF FastStep
  <2>2. TypeOK'
    BY <1>0, <1>3, <1>4, <2>1 DEF TypeOK
  <2>3. Quiet' /\ countsOk'
    <3>1. Quiet /\ countsOk
      BY <1>0, <2>1 DEF RunInv
    <3> QED
      BY <1>1, <1>2, <3>1, Zenon DEF Quiet
  <2>4. irqUntil' = irqUntil
    BY <1>1
  <2>5. RunInv'
    BY <1>0, <1>2, <1>3, <2>1, <2>3, <2>4 DEF RunInv, TypeOK
  <2>6. CountInv'
    BY <1>0, <1>2, <2>1 DEF CountInv
  <2> QED
    BY <1>2, <2>2, <2>5, <2>6 DEF IInv
<1>9. CASE Return
  <2>1. at = "fast" /\ at' = "after" /\ left' = 0 /\ UNCHANGED <<budget, before, limit, done>>
    BY <1>9 DEF Return
  <2>2. TypeOK'
    BY <1>0, <1>3, <1>4, <2>1 DEF TypeOK
  <2>3. RunInv'
    BY <1>0, <2>1 DEF RunInv
  <2>4. \A p \in ahead : count + 0 <= At[p]
    BY <1>0, <1>3, AtType DEF CountInv, TypeOK, StepsTypeOK
  <2>5. CountInv'
    BY <1>0, <1>2, <2>1, <2>4 DEF CountInv
  <2> QED
    BY <1>2, <2>2, <2>3, <2>5 DEF IInv
<1>10. CASE GoOn
  <2>1. /\ at = "after" /\ at' \in {"top", "inner"} /\ UNCHANGED <<budget, before, left, limit, done>>
        /\ count # before => Clean
    BY <1>10 DEF GoOn, Clean
  <2>2. TypeOK'
    BY <1>0, <1>3, <1>4, <2>1 DEF TypeOK
  <2>3. RunInv'
    BY <1>0, <2>1 DEF RunInv
  <2>4. CountInv'
    BY <1>0, <1>2, <2>1 DEF CountInv
  <2> QED
    BY <1>2, <2>2, <2>3, <2>4 DEF IInv
<1> QED
  BY <1>5, <1>6, <1>7, <1>8, <1>9, <1>10

(* The end of a run adds up what its steps would have done.                *)
LEMMA EndRunInv == ASSUME IInv, EndRun PROVE IInv'
<1> USE CountsAssumption
<1>0. TypeOK /\ KeyInv /\ AnswerInv /\ RunInv /\ CountInv /\ Flags
  BY TypeFlags DEF IInv
<1>1. /\ count \in Nat /\ left \in 0..Period /\ mtime \in Nat /\ phase \in 0..1 /\ done \in Nat
      /\ mcycle \in Nat /\ minstret \in Nat /\ ahead \subseteq Points /\ limit \in 0..Period
  BY <1>0 DEF TypeOK, StepsTypeOK, InsnsPerTick
<1>2. /\ at = "run" /\ done <= limit /\ limit <= left /\ halted = "no" /\ left > 0
  BY <1>0 DEF EndRun, RunInv
<1>3. /\ at' = (IF done < limit THEN "tail" ELSE "fast") /\ count' = count + done
      /\ left' = left - done /\ done' = 0 /\ limit' = 0
      /\ UNCHANGED <<cmp, other, masked, counting, served, ahead, watched, halted, irqUntil, counts, countsOk, budget, before>>
  BY DEF EndRun, irqs
<1>4. TicksOf(done) \in Nat /\ (phase + done) % InsnsPerTick \in 0..1
  BY <1>1 DEF TicksOf, InsnsPerTick
<1>5. mtime' \in Nat /\ mtime' >= mtime /\ mcycle' \in Nat /\ minstret' \in Nat /\ phase' \in 0..1
  BY <1>1, <1>4 DEF EndRun
<1>6. skip' \in BOOLEAN /\ KeyInv'
  <2>1. skip' \in BOOLEAN
    BY Zenon DEF EndRun
  <2> QED
    BY <1>0, <1>3, <2>1, Zenon DEF KeyInv
<1>7. AnswerInv'
  BY <1>0, <1>1, <1>3, <1>5 DEF AnswerInv, TypeOK, Never
<1>8. left' \in 0..Period
  BY <1>1, <1>2, <1>3
<1>9. TypeOK'
  <2>1. StepsTypeOK'
    BY <1>0, <1>1, <1>3, <1>5, <1>6 DEF TypeOK, StepsTypeOK, InsnsPerTick
  <2> QED
    BY <1>0, <1>3, <1>8, <2>1 DEF TypeOK
<1>10. RunInv'
  BY <1>1, <1>2, <1>3 DEF RunInv
<1>11. CountInv'
  <2>1. \A p \in ahead : (count + done) + left' <= At[p]
    BY <1>0, <1>1, <1>2, <1>3, AtType DEF CountInv
  <2>2. CASE done = 0
    <3>1. count' = count /\ left' = left /\ Clean'
      BY <1>0, <1>1, <1>2, <1>3, <2>2 DEF CountInv, Clean, InputDue, PointDue
    <3>2. left > 0 => (count % Period) + left <= Period
      BY <1>0 DEF CountInv
    <3>3. before <= count
      BY <1>0, <1>2 DEF CountInv
    <3> QED
      BY <1>2, <1>3, <2>1, <3>1, <3>2, <3>3 DEF CountInv
  <2>3. CASE done > 0
    <3>1. left' > 0 => /\ (count' % Period) + left' <= Period
                       /\ count' % Period # 0
                       /\ \A p \in ahead : At[p] # count'
      <4> SUFFICES ASSUME left' > 0
                   PROVE  /\ (count' % Period) + left' <= Period
                          /\ count' % Period # 0
                          /\ \A p \in ahead : At[p] # count'
        OBVIOUS
      <4>1. (count % Period) + left <= Period /\ (\A p \in ahead : count + left <= At[p]) /\ done < left
        BY <1>0, <1>1, <1>2, <1>3 DEF CountInv
      <4>2. /\ (count + done) % Period = (count % Period) + done
            /\ (count + done) % Period # 0
            /\ \A p \in ahead : At[p] # count + done
        BY <1>0, <1>1, <2>3, <4>1, CleanAhead
      <4>3. count % Period \in Nat
        BY <1>1, DivMod
      <4> QED
        BY <1>1, <1>3, <4>1, <4>2, <4>3
    <3>2. left' > 0 => Clean'
      BY <1>3, <3>1 DEF Clean, InputDue, PointDue
    <3>3. before' <= count' /\ count' # before'
      BY <1>0, <1>1, <1>2, <1>3, <2>3 DEF CountInv, TypeOK
    <3> QED
      BY <1>2, <1>3, <2>1, <3>1, <3>2, <3>3 DEF CountInv
  <2> QED
    BY <1>1, <2>2, <2>3
<1> QED
  BY <1>6, <1>7, <1>9, <1>10, <1>11 DEF IInv

(* What comes between two steps: input, a snapshot, the end, halts.        *)
LEMMA PointsInv ==
  ASSUME IInv, ServeInput \/ SaveSnapshot \/ StopOrHalt \/ GdbPauses \/ UserResumes
  PROVE  IInv'
<1> USE CountsAssumption, BurstAssumption
<1>0. TypeOK /\ StepsTypeOK /\ KeyInv /\ AnswerInv /\ RunInv /\ CountInv /\ Flags
  BY TypeFlags DEF IInv, TypeOK
<1>1. count \in Nat /\ left \in 0..Period /\ budget \in 0..Burst /\ before \in Nat
  BY <1>0 DEF TypeOK, StepsTypeOK
<1>2. UNCHANGED <<mtime, phase, mcycle, cmp, masked, counting, minstret, count, counts, countsOk, before, left, limit, done>>
  <2>1. CASE ServeInput
    BY <2>1 DEF ServeInput, Input, clock, thread
  <2>2. CASE SaveSnapshot
    BY <2>2 DEF SaveSnapshot, Snapshot, clock, irqs, thread
  <2>3. CASE StopOrHalt
    BY <2>3 DEF StopOrHalt, Stop, Halt, clock, irqs
  <2>4. CASE GdbPauses
    BY <2>4 DEF GdbPauses, Pause, clock, irqs, thread
  <2>5. CASE UserResumes
    BY <2>5 DEF UserResumes, Resume, clock, irqs
  <2> QED
    BY <2>1, <2>2, <2>3, <2>4, <2>5
<1>3. KeyInv'
  BY <1>0, <1>2, Zenon DEF KeyInv
<1>4. ASSUME other' \in BOOLEAN, watched' \in BOOLEAN, skip' \in BOOLEAN,
             served' \in Nat, ahead' \in SUBSET Points, halted' \in {"no", "yes", "ended"},
             irqUntil' \in Nat \cup {Never}, at' \in {"top", "inner", "after"}, budget' \in 0..Burst
      PROVE  TypeOK'
  <2>1. masked' \in BOOLEAN /\ countsOk' \in BOOLEAN
    BY <1>0, <1>2, Zenon DEF Flags
  <2>2. StepsTypeOK'
    BY <1>0, <1>2, <1>4, <2>1 DEF StepsTypeOK, InsnsPerTick
  <2> QED
    BY <1>0, <1>2, <1>4, <2>1, <2>2 DEF TypeOK
<1>5. CASE ServeInput
  <2>1. /\ at = "after" /\ at' = "after" /\ count # before /\ served' = count /\ other' \in BOOLEAN
        /\ irqUntil' = (IF other' = other THEN irqUntil ELSE Unknown)
        /\ UNCHANGED <<ahead, watched, skip, halted, budget>>
    BY <1>5 DEF ServeInput, Input, thread
  <2>2. watched' \in BOOLEAN /\ skip' \in BOOLEAN
    BY <1>0, <2>1, Zenon DEF Flags
  <2>3. irqUntil' \in Nat \cup {Never} /\ AnswerInv'
    <3>1. CASE other' = other
      <4>1. irqUntil' = irqUntil
        BY <2>1, <3>1, Zenon
      <4> QED
        BY <1>0, <1>2, <3>1, <4>1 DEF AnswerInv, TypeOK
    <3>2. CASE other' # other
      <4>1. irqUntil' = Unknown
        BY <2>1, <3>2, Zenon
      <4> QED
        BY <1>0, <1>2, <4>1 DEF AnswerInv, StepsTypeOK, Unknown, Never
    <3> QED
      BY <3>1, <3>2
  <2>4. TypeOK'
    BY <1>0, <1>1, <1>4, <2>1, <2>2, <2>3 DEF TypeOK, StepsTypeOK
  <2>5. RunInv'
    BY <1>0, <1>2, <2>1 DEF RunInv
  <2>6. CountInv'
    BY <1>0, <1>2, <2>1 DEF CountInv
  <2> QED
    BY <1>3, <2>3, <2>4, <2>5, <2>6 DEF IInv
<1>6. CASE SaveSnapshot \/ StopOrHalt
  <2>1. /\ at = "after" /\ count # before /\ ahead' \subseteq ahead
        /\ UNCHANGED <<other, served, watched, skip, irqUntil, budget>>
        /\ \/ at' = "after" /\ halted' = halted
           \/ at' = "top" /\ halted' \in {"yes", "ended"}
    <3>1. CASE SaveSnapshot
      <4>1. ahead' \subseteq ahead
        BY <3>1 DEF SaveSnapshot, Snapshot
      <4> QED
        BY <3>1, <4>1, Zenon DEF SaveSnapshot, Snapshot, irqs, thread
    <3>2. CASE StopOrHalt
      <4>1. ahead' \subseteq ahead /\ halted' \in {"yes", "ended"}
        BY <3>2 DEF StopOrHalt, Stop, Halt
      <4> QED
        BY <3>2, <4>1, Zenon DEF StopOrHalt, Stop, Halt, irqs
    <3> QED
      BY <1>6, <3>1, <3>2
  <2>2. other' \in BOOLEAN /\ watched' \in BOOLEAN /\ skip' \in BOOLEAN
    BY <1>0, <2>1, Zenon DEF Flags
  <2>3. AnswerInv'
    BY <1>0, <1>2, <2>1 DEF AnswerInv
  <2>4. TypeOK'
    BY <1>0, <1>1, <1>4, <2>1, <2>2 DEF TypeOK, StepsTypeOK
  <2>5. RunInv'
    BY <1>0, <1>2, <2>1 DEF RunInv
  <2>6. halted' = "yes" /\ at' = "top" => Clean'
    <3>1. CASE SaveSnapshot
      BY <3>1, <2>1 DEF SaveSnapshot, thread
    <3>2. CASE StopOrHalt /\ Stop
      BY <3>2 DEF Stop
    <3>3. CASE StopOrHalt /\ Halt
      <4>1. ~InputDue /\ ~PointDue("snapshot") /\ ~PointDue("stop") /\ ahead' = ahead \ {"halt"}
        BY <3>3 DEF Halt
      <4> QED
        BY <1>2, <2>1, <4>1 DEF Clean, InputDue, PointDue, Points
    <3> QED
      BY <1>6, <3>1, <3>2, <3>3 DEF StopOrHalt
  <2>7. CountInv'
    BY <1>0, <1>2, <2>1, <2>6 DEF CountInv
  <2> QED
    BY <1>3, <2>3, <2>4, <2>5, <2>7 DEF IInv
<1>7. CASE GdbPauses \/ UserResumes
  <2>1. /\ at = "top" /\ at' \in {"top", "inner"} /\ budget' \in {budget, Burst}
        /\ halted # "ended" /\ halted' \in {"no", "yes"}
        /\ UNCHANGED <<other, served, ahead, irqUntil>>
    <3>1. CASE GdbPauses
      BY <3>1 DEF GdbPauses, Pause, MayStep, irqs, thread
    <3>2. CASE UserResumes
      BY <3>2 DEF UserResumes, Resume, irqs
    <3> QED
      BY <1>7, <3>1, <3>2
  <2>2. other' \in BOOLEAN /\ watched' \in BOOLEAN /\ skip' \in BOOLEAN
    BY <1>0, <1>7, <2>1, Zenon DEF Flags, GdbPauses, Pause, UserResumes, Resume
  <2>3. AnswerInv'
    BY <1>0, <1>2, <2>1 DEF AnswerInv
  <2>4. TypeOK'
    BY <1>0, <1>1, <1>4, <2>1, <2>2 DEF TypeOK, StepsTypeOK
  <2>5. RunInv'
    BY <1>0, <1>2, <2>1 DEF RunInv
  <2>6. Clean'
    BY <1>0, <1>2, <2>1 DEF CountInv, Clean, InputDue, PointDue
  <2>7. CountInv'
    BY <1>0, <1>2, <2>1, <2>6 DEF CountInv
  <2> QED
    BY <1>3, <2>3, <2>4, <2>5, <2>7 DEF IInv
<1> QED
  BY <1>5, <1>6, <1>7

LEMMA NextInv == IInv /\ [FastNext]_vars => IInv'
<1> SUFFICES ASSUME IInv, [FastNext]_vars PROVE IInv'
  OBVIOUS
<1>1. CASE SlowAtEntry
  BY <1>1, SlowStepInv DEF SlowAtEntry
<1>2. CASE TailStep
  <2>1. halted = "no" /\ left > 0 /\ at = "tail"
    BY <1>2 DEF TailStep, IInv, RunInv
  <2> QED
    BY <1>2, <2>1, SlowStepInv DEF TailStep
<1>3. CASE UNCHANGED vars
  <2>1. UNCHANGED <<svars, irqUntil, counts, countsOk>> /\ UNCHANGED <<at, budget, before, left, limit, done>>
    BY <1>3, Zenon DEF vars, thread
  <2>2. /\ UNCHANGED <<mtime, phase, cmp, masked, other, counting, count, served, ahead, watched, halted>>
        /\ StepsTypeOK' /\ KeyInv' /\ AnswerInv' /\ Clean' = Clean
        /\ irqUntil' \in Nat \cup {Never} /\ counts' \in SUBSET Counters /\ countsOk' \in BOOLEAN
    BY <2>1, ThreadMoves
  <2>3. TypeOK'
    BY <2>1, <2>2 DEF IInv, TypeOK
  <2>4. RunInv'
    BY <2>1, <2>2, Zenon DEF IInv, RunInv, Quiet
  <2>5. CountInv'
    BY <2>1, <2>2 DEF IInv, CountInv
  <2> QED
    BY <2>2, <2>3, <2>4, <2>5 DEF IInv
<1> QED
  BY <1>1, <1>2, <1>3, LoopOnlyInv, EndRunInv, PointsInv DEF FastNext, Loop

-------------------------------------------------------------------------------
THEOREM Inductive == FastSpec => []IInv
BY InitInv, NextInv, PTL DEF FastSpec

(* The types of the loop's variables: no budget is overdrawn, no run is    *)
(* longer than what cpu_loop asked for.                                    *)
THEOREM TypeCorrect == FastSpec => []TypeOK
<1>1. IInv => TypeOK
  BY DEF IInv
<1> QED
  BY <1>1, Inductive, PTL

(* No interrupt is missed: for every burst, input period and deadline,     *)
(* interrupt_may_be_due and run_fast's limit skip only checks that would   *)
(* have found nothing.                                                     *)
THEOREM InterruptsNotMissed == FastSpec => []NoneMissed
<1>1. IInv => NoneMissed
  <2> SUFFICES ASSUME IInv PROVE NoneMissed
    OBVIOUS
  <2>0. TypeOK /\ AnswerInv /\ RunInv
    BY DEF IInv
  <2>1. Quiet => ~Due
    BY <2>0 DEF Quiet, Due, WakeAt, AnswerInv, TypeOK, StepsTypeOK, Never
  <2>2. ASSUME at = "run", NEW j \in 0..(limit - 1) PROVE masked \/ ~WakeAt(mtime + TicksOf(j))
    <3>1. Quiet /\ (irqUntil # Never => limit <= InsnsPerTick * (irqUntil - mtime) - phase)
      BY <2>0, <2>2 DEF RunInv
    <3>2. limit \in 0..Period /\ mtime \in Nat /\ phase \in 0..1 /\ j \in Nat /\ cmp \in Nat
      BY <2>0, <2>2, CountsAssumption DEF TypeOK, StepsTypeOK, InsnsPerTick
    <3>3. CASE irqUntil = Never
      BY <2>0, <3>3 DEF AnswerInv
    <3>4. CASE irqUntil # Never
      <4>1. irqUntil \in Nat /\ mtime < irqUntil
        BY <2>0, <3>1, <3>4 DEF TypeOK, Quiet
      <4>2. mtime + TicksOf(j) < irqUntil
        BY <2>2, <3>1, <3>2, <3>4, <4>1 DEF TicksOf, InsnsPerTick
      <4>3. TicksOf(j) \in Nat
        BY <3>2 DEF TicksOf, InsnsPerTick
      <4> QED
        BY <2>0, <3>2, <3>4, <4>1, <4>2, <4>3 DEF AnswerInv, WakeAt
    <3> QED
      BY <3>3, <3>4
  <2> QED
    BY <2>1, <2>2 DEF NoneMissed
<1> QED
  BY <1>1, Inductive, PTL

(* No point is stepped over, whatever the period, the burst and the points.*)
THEOREM PointsNotPassed == FastSpec => []NoPointPassed
<1>1. IInv => NoPointPassed
  BY DEF IInv, CountInv, NoPointPassed
<1> QED
  BY <1>1, Inductive, PTL

-------------------------------------------------------------------------------
(* The refinement.  Outside a run the mapping is the identity, and a step  *)
(* is the same step.                                                       *)
Identity == /\ mtimeNow = mtime /\ phaseNow = phase /\ mcycleNow = mcycle
            /\ minstretNow = minstret /\ countNow = count /\ skipNow = skip

LEMMA AtRest == TypeOK /\ done = 0 => Identity
<1> SUFFICES ASSUME TypeOK, done = 0 PROVE Identity
  OBVIOUS
<1>1. skip \in BOOLEAN
  BY DEF TypeOK, StepsTypeOK
<1>2. skipNow = skip
  BY <1>1, Zenon DEF skipNow
<1> QED
  BY <1>2 DEF Identity, mtimeNow, phaseNow, mcycleNow, minstretNow, countNow, TypeOK, StepsTypeOK, TicksOf, InsnsPerTick

LEMMA StepExact ==
  ASSUME Identity, Identity'
  PROVE  /\ Plain => Exact!Plain
         /\ Trap => Exact!Trap
         /\ Exception => Exact!Exception
         /\ WritesTime => Exact!WritesTime
         /\ WritesIrq => Exact!WritesIrq
         /\ Inhibits => Exact!Inhibits
         /\ WritesMinstret => Exact!WritesMinstret
         /\ Waits => Exact!Waits
         /\ WaitTraps => Exact!WaitTraps
<1> USE DEF Identity, InsnsPerTick, Exact!InsnsPerTick
<1>1. Plain => Exact!Plain
  BY Zenon DEF Plain, irqs, Ends, Moves, Exact!Plain, Exact!irqs, Exact!Ends, Exact!Moves
<1>2. Trap => Exact!Trap
  BY Zenon DEF Trap, TrapFrom, Ends, Moves, Exact!Trap, Exact!TrapFrom, Exact!Ends, Exact!Moves
<1>3. Exception => Exact!Exception
  BY <1>2, Zenon DEF Exception, Exact!Exception
<1>4. WritesTime => Exact!WritesTime
  BY Zenon DEF WritesTime, irqs, Ends, Moves, Exact!WritesTime, Exact!irqs, Exact!Ends, Exact!Moves
<1>5. WritesIrq => Exact!WritesIrq
  BY Zenon DEF WritesIrq, irqs, Ends, Moves, Exact!WritesIrq, Exact!irqs, Exact!Ends, Exact!Moves
<1>6. Inhibits => Exact!Inhibits
  BY Zenon DEF Inhibits, irqs, Ends, Moves, Exact!Inhibits, Exact!irqs, Exact!Ends, Exact!Moves
<1>7. WritesMinstret => Exact!WritesMinstret
  BY Zenon DEF WritesMinstret, irqs, Ends, Moves, Exact!WritesMinstret, Exact!irqs, Exact!Ends, Exact!Moves
<1>8. Waits => Exact!Waits
  BY Zenon DEF Waits, WaitsFor, WakeAt, CyclesAfter, irqs, Ends, Moves, Exact!Waits, Exact!WaitsFor, Exact!WakeAt, Exact!CyclesAfter, Exact!irqs, Exact!Ends, Exact!Moves
<1>9. WaitTraps => Exact!WaitTraps
  BY Zenon DEF WaitTraps, TrapFrom, WakeAt, CyclesAfter, Ends, Moves, Exact!WaitTraps, Exact!TrapFrom, Exact!WakeAt, Exact!CyclesAfter, Exact!Ends, Exact!Moves
<1> QED
  BY <1>1, <1>2, <1>3, <1>4, <1>5, <1>6, <1>7, <1>8, <1>9

LEMMA SlowExact ==
  ASSUME IInv, IInv', at \in {"fast", "tail"}, left > 0, halted = "no", done' = 0, SlowStep
  PROVE  Exact!Next
<1>0. TypeOK /\ TypeOK' /\ AnswerInv /\ RunInv /\ CountInv
  BY DEF IInv
<1>1. Identity /\ Identity'
  <2>1. done = 0
    BY <1>0 DEF RunInv
  <2>2. TypeOK' /\ (done = 0)'
    BY <1>0
  <2>3. Identity'
    BY <2>2, AtRest, PTL
  <2> QED
    BY <1>0, <2>1, <2>3, AtRest
<1>2. Exact!MayStep
  <2>1. Clean
    BY <1>0 DEF CountInv
  <2>2. ~InputDue /\ \A p \in Points : ~PointDue(p)
    BY <2>1 DEF Clean
  <2> QED
    BY <1>1, <2>2, Zenon DEF InputDue, PointDue, At, Points, Identity, Exact!MayStep, Exact!InputDue, Exact!PointDue, Exact!At, Exact!Points
<1>3. Exact!Due = Due
  BY <1>1, Zenon DEF Identity, Due, WakeAt, Exact!Due, Exact!WakeAt
<1>4. Quiet => ~Due
  BY <1>0 DEF Quiet, Due, WakeAt, AnswerInv, TypeOK, StepsTypeOK, Never
<1>5. UNCHANGED <<served, ahead, watched>>
  BY DEF SlowStep
<1>6. ASSUME Trap, Due, halted' = halted PROVE Exact!Step
  BY <1>1, <1>2, <1>3, <1>5, <1>6, StepExact, Zenon DEF Exact!Step
<1>7. ASSUME ~Due, halted' = halted,
             Plain \/ Waits \/ WritesTime \/ WritesIrq \/ Inhibits \/ WritesMinstret \/ WaitTraps \/ Exception
      PROVE  Exact!Step
  BY <1>1, <1>2, <1>3, <1>5, <1>7, StepExact, Zenon DEF Exact!Step, Exact!Instruction
<1>8. ASSUME ~Due, watched, Plain, halted' = "yes" PROVE Exact!StepHalts
  BY <1>1, <1>2, <1>3, <1>5, <1>8, StepExact, Zenon DEF Exact!StepHalts
<1>9. CASE StepTaken
  BY <1>4, <1>6, <1>7, <1>8, <1>9, Zenon DEF StepTaken, Exact!Next
<1>10. CASE StepBreaks
  <2>1. Exact!Breakpoint
    BY <1>1, <1>2, <1>3, <1>4, <1>5, <1>10, Zenon
    DEF StepBreaks, Identity, clock, irqs, Exact!Breakpoint, Exact!clock, Exact!irqs
  <2> QED
    BY <2>1 DEF Exact!Next
<1> QED
  BY <1>9, <1>10 DEF SlowStep

(* Steps that only move the thread change nothing of the exact machine.    *)
LEMMA ThreadExact ==
  ASSUME Identity, Identity', UNCHANGED svars
  PROVE  UNCHANGED Exact!svars
BY Zenon DEF Identity, svars, clock, irqs, loop, Exact!svars, Exact!clock, Exact!irqs, Exact!loop

(* A simple instruction is a step of the exact machine, at the count and   *)
(* with the clock it has by then.                                          *)
LEMMA FastStepExact ==
  ASSUME IInv, IInv', FastStep
  PROVE  Exact!Step
<1> USE CountsAssumption, AtType
<1>0. TypeOK /\ AnswerInv /\ RunInv /\ CountInv
  BY DEF IInv
<1>1. /\ at = "run" /\ done < limit /\ done' = done + 1
      /\ UNCHANGED <<mtime, phase, mcycle, cmp, other, masked, counting, minstret, count, served, ahead, watched, skip, halted>>
  BY DEF FastStep, svars, clock, irqs, loop
<1>2. /\ mtime \in Nat /\ phase \in 0..1 /\ mcycle \in Nat /\ minstret \in Nat /\ count \in Nat
      /\ done \in Nat /\ limit \in Nat /\ left \in Nat /\ cmp \in Nat /\ ahead \subseteq Points
  BY <1>0 DEF TypeOK, StepsTypeOK, InsnsPerTick
<1>3. /\ halted = "no" /\ left > 0 /\ Quiet /\ limit <= left
      /\ irqUntil # Never => limit <= InsnsPerTick * (irqUntil - mtime) - phase
  BY <1>0, <1>1 DEF RunInv
<1>4. Exact!MayStep
  <2>1. Clean /\ (count % Period) + left <= Period /\ \A p \in ahead : count + left <= At[p]
    BY <1>0, <1>3 DEF CountInv
  <2>2. ~(countNow % Period = 0 /\ served # countNow) /\ \A p \in Points : ~(p \in ahead /\ At[p] = countNow)
    <3>1. CASE done = 0
      <4>1. countNow = count
        BY <1>2, <3>1 DEF countNow
      <4> QED
        BY <2>1, <4>1 DEF Clean, InputDue, PointDue
    <3>2. CASE done > 0
      <4>1. /\ (count + done) % Period # 0
            /\ \A p \in ahead : At[p] # count + done
        <5>1. done < left
          BY <1>1, <1>2, <1>3
        <5> QED
          BY <1>0, <1>2, <2>1, <3>2, <5>1, CleanAhead
      <4> QED
        BY <4>1 DEF countNow
    <3> QED
      BY <1>2, <3>1, <3>2
  <2> QED
    BY <1>3, <2>2, Zenon DEF Exact!MayStep, Exact!InputDue, Exact!PointDue, Exact!At, Exact!Points, At, Points
<1>5. ~Exact!Due
  <2>1. TicksOf(done) \in Nat
    BY <1>2 DEF TicksOf, InsnsPerTick
  <2>2. CASE irqUntil = Never
    BY <1>0, <2>2 DEF AnswerInv, Exact!Due
  <2>3. CASE irqUntil # Never
    <3>1. irqUntil \in Nat /\ mtime < irqUntil
      BY <1>0, <1>3, <2>3 DEF TypeOK, Quiet
    <3>2. mtime + TicksOf(done) < irqUntil
      BY <1>1, <1>2, <1>3, <2>3, <3>1 DEF TicksOf, InsnsPerTick
    <3> QED
      BY <1>0, <1>2, <2>1, <2>3, <3>1, <3>2 DEF AnswerInv, mtimeNow, Exact!Due, Exact!WakeAt
  <2> QED
    BY <2>2, <2>3
<1>6. /\ countNow' = countNow + 1 /\ skipNow' = FALSE
      /\ minstretNow' = (IF TRUE /\ "instret" \in counting THEN minstretNow + 1 ELSE minstretNow)
  <2>1. ~(done + 1 = 0)
    BY <1>2
  <2>2. skipNow' = FALSE
    BY <1>1, <2>1, Zenon DEF skipNow
  <2> QED
    BY <1>1, <1>2, <2>2 DEF countNow, minstretNow
<1>7. /\ phaseNow' = IF phaseNow + 1 = 2 THEN 0 ELSE phaseNow + 1
      /\ mtimeNow' = IF phaseNow + 1 = 2 THEN mtimeNow + 1 ELSE mtimeNow
      /\ TicksOf(done + 1) = IF phaseNow + 1 = 2 THEN TicksOf(done) + 1 ELSE TicksOf(done)
  <2>1. /\ (phase + (done + 1)) % 2 = (IF ((phase + done) % 2) + 1 = 2 THEN 0 ELSE ((phase + done) % 2) + 1)
        /\ (phase + (done + 1)) \div 2 = (IF ((phase + done) % 2) + 1 = 2 THEN ((phase + done) \div 2) + 1 ELSE (phase + done) \div 2)
        /\ (phase + done) \div 2 \in Nat
    BY <1>2
  <2> QED
    BY <1>1, <1>2, <2>1 DEF phaseNow, mtimeNow, TicksOf, InsnsPerTick
<1>8. mcycleNow' = IF phaseNow + 1 = 2 /\ "cycle" \in counting' THEN mcycleNow + 1 ELSE mcycleNow
  <2>1. TicksOf(done) \in Nat
    BY <1>2 DEF TicksOf, InsnsPerTick
  <2>2. mcycleNow' = IF "cycle" \in counting THEN mcycle + TicksOf(done + 1) ELSE mcycle
    BY <1>1 DEF mcycleNow, TicksOf, InsnsPerTick
  <2> QED
    BY <1>1, <1>2, <1>7, <2>1, <2>2 DEF mcycleNow
<1>9. Exact!Plain
  BY <1>1, <1>6, <1>7, <1>8, Zenon DEF Exact!Plain, Exact!irqs, Exact!Ends, Exact!Moves, Exact!InsnsPerTick
<1> QED
  BY <1>1, <1>4, <1>5, <1>9, Zenon DEF Exact!Step, Exact!Instruction

(* The bookkeeping at the end of a run is what the mapping had added.      *)
LEMMA EndRunExact ==
  ASSUME IInv, EndRun
  PROVE  UNCHANGED Exact!svars
<1>0. TypeOK /\ KeyInv /\ RunInv
  BY DEF IInv
<1>1. /\ mtime \in Nat /\ phase \in 0..1 /\ mcycle \in Nat /\ minstret \in Nat /\ count \in Nat
      /\ done \in Nat /\ skip \in BOOLEAN
  BY <1>0 DEF TypeOK, StepsTypeOK, InsnsPerTick
<1>2. counts = counting
  BY <1>0, Zenon DEF EndRun, RunInv, KeyInv
<1>3. /\ done' = 0 /\ count' = count + done /\ mtime' = mtime + TicksOf(done)
      /\ phase' = (phase + done) % InsnsPerTick
      /\ UNCHANGED <<cmp, other, masked, counting, served, ahead, watched, halted>>
  BY DEF EndRun, irqs
<1>4. TicksOf(done) \in Nat /\ (phase + done) % InsnsPerTick \in 0..1
  BY <1>1 DEF TicksOf, InsnsPerTick
<1>5. TicksOf(done)' = 0 /\ (phase' + done') % InsnsPerTick = phase'
  BY <1>3, <1>4 DEF TicksOf, InsnsPerTick
<1>6. countNow' = countNow /\ mtimeNow' = mtimeNow /\ phaseNow' = phaseNow
  BY <1>1, <1>3, <1>4, <1>5 DEF countNow, mtimeNow, phaseNow
<1>7. minstretNow' = minstretNow /\ mcycleNow' = mcycleNow
  <2>1. /\ minstret' = (IF "instret" \in counting THEN minstret + done ELSE minstret)
        /\ mcycle' = (IF "cycle" \in counting THEN mcycle + TicksOf(done) ELSE mcycle)
    BY <1>2 DEF EndRun
  <2> QED
    BY <1>1, <1>3, <1>4, <1>5, <2>1 DEF minstretNow, mcycleNow
<1>8. skipNow' = skipNow
  BY <1>1, <1>3, Zenon DEF EndRun, skipNow
<1> QED
  BY <1>3, <1>6, <1>7, <1>8, Zenon DEF Exact!svars, Exact!clock, Exact!irqs, Exact!loop

(* Every step of the loop is a step of the exact machine, or none.         *)
LEMMA NextExact == IInv /\ IInv' /\ [FastNext]_vars => [Exact!Next]_(Exact!svars)
<1> SUFFICES ASSUME IInv, IInv', [FastNext]_vars PROVE [Exact!Next]_(Exact!svars)
  OBVIOUS
<1>0. TypeOK /\ TypeOK' /\ RunInv /\ CountInv
  BY DEF IInv
<1>1. ASSUME done = 0, done' = 0 PROVE Identity /\ Identity'
  <2>0. TypeOK' /\ (done = 0)'
    BY <1>0, <1>1
  <2>1. Identity'
    BY <2>0, AtRest, PTL
  <2> QED
    BY <1>0, <1>1, <2>1, AtRest
<1>2. CASE SlowAtEntry
  <2>1. done' = 0
    BY <1>0, <1>2 DEF SlowAtEntry, RunInv
  <2> QED
    BY <1>2, <2>1, SlowExact DEF SlowAtEntry
<1>3. CASE TailStep
  <2>1. done' = 0 /\ left > 0 /\ halted = "no" /\ at = "tail"
    BY <1>0, <1>3 DEF TailStep, RunInv
  <2> QED
    BY <1>3, <2>1, SlowExact DEF TailStep
<1>4. CASE BeginBurst \/ EndBurst \/ CallRunFast \/ BeginRun \/ Return \/ GoOn
  <2>1. UNCHANGED svars
    BY <1>4, Zenon DEF BeginBurst, EndBurst, CallRunFast, BeginRun, Return, GoOn
  <2>2. done = 0 /\ done' = 0
    BY <1>0, <1>4 DEF RunInv, BeginBurst, EndBurst, CallRunFast, BeginRun, Return, GoOn
  <2> QED
    BY <1>1, <2>1, <2>2, ThreadExact
<1>5. CASE FastStep
  BY <1>5, FastStepExact, Zenon DEF Exact!Next
<1>6. CASE EndRun
  BY <1>6, EndRunExact
<1>7. CASE ServeInput \/ SaveSnapshot \/ StopOrHalt \/ GdbPauses \/ UserResumes
  <2>1. done = 0 /\ done' = 0
    BY <1>0, <1>7 DEF RunInv, ServeInput, SaveSnapshot, StopOrHalt, GdbPauses, UserResumes, thread
  <2>2. Identity /\ Identity'
    BY <1>1, <2>1
  <2> USE DEF Identity, clock, irqs, InputDue, PointDue, At, Points,
              Exact!clock, Exact!irqs, Exact!InputDue, Exact!PointDue, Exact!At, Exact!Points
  <2>3. ServeInput => Exact!Input
    BY <2>2, Zenon DEF ServeInput, Input, Exact!Input
  <2>4. SaveSnapshot => Exact!Snapshot
    BY <2>2, Zenon DEF SaveSnapshot, Snapshot, Exact!Snapshot
  <2>5. StopOrHalt => Exact!Stop \/ Exact!Halt
    BY <2>2, Zenon DEF StopOrHalt, Stop, Halt, Exact!Stop, Exact!Halt
  <2>6. GdbPauses => Exact!Pause
    BY <2>2, Zenon DEF GdbPauses, Pause, MayStep, Exact!Pause, Exact!MayStep
  <2>7. UserResumes => Exact!Resume
    BY <2>2, Zenon DEF UserResumes, Resume, Exact!Resume
  <2> QED
    BY <1>7, <2>3, <2>4, <2>5, <2>6, <2>7, Zenon DEF Exact!Next
<1>8. CASE UNCHANGED vars
  BY <1>8, Zenon DEF vars, thread, svars, clock, irqs, loop, Exact!svars, Exact!clock, Exact!irqs, Exact!loop,
     mtimeNow, phaseNow, mcycleNow, minstretNow, countNow, skipNow, TicksOf
<1> QED
  BY <1>2, <1>3, <1>4, <1>5, <1>6, <1>7, <1>8 DEF FastNext, Loop

LEMMA InitExact == FastInit => Exact!Init
<1> SUFFICES ASSUME FastInit PROVE Exact!Init
  OBVIOUS
<1>1. TypeOK /\ done = 0
  BY InitInv DEF IInv, FastInit
<1>2. Identity
  BY <1>1, AtRest
<1> QED
  BY <1>2, Zenon DEF Identity, FastInit, Init, At, Points, Exact!Init, Exact!At, Exact!Points

(* The fast loop implements the step-by-step machine, for every period,    *)
(* burst, point, wait limit and whatever the software does to the timer,   *)
(* the counters and the interrupts.                                        *)
THEOREM Refinement == FastSpec => ImplementsSteps
<1>1. IInv /\ IInv' /\ [FastNext]_vars => [Exact!Next]_(Exact!svars)
  BY NextExact
<1> QED
  BY <1>1, InitExact, Inductive, PTL DEF FastSpec, ImplementsSteps, Exact!Spec
=============================================================================
