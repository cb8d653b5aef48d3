------------------------------ MODULE HartsProofs ------------------------------
(***************************************************************************)
(* Proofs about what several harts do together, for any number of them.    *)
(*                                                                         *)
(* Reservations: the counter is right whatever page walks write; watching  *)
(* the steps it points at is enough when they write nothing (Svadu off).   *)
(* With Svadu an LR may end another hart's reservation and take its own in *)
(* one step, and the counter looked at is then the one before the LR.      *)
(* Nothing is proved of stores that no log has (HalfwordAmo) but that they *)
(* leave the counter right.                                                *)
(*                                                                         *)
(* CachedRounds, for any width of the clock and any software: what is      *)
(* remembered between steps is sound, so the machine that remembers is the *)
(* one that looks every time.  With an htimedelta the code asks to be      *)
(* woken at mtime + 1, which is not above an mtime of all ones: the clock  *)
(* must stay short of that, or htimedelta at 0 (ClockFits).                *)
(***************************************************************************)
EXTENDS CachedRounds, Reservations, FiniteSetTheorems, TLAPS

-------------------------------------------------------------------------------
(* The holders are finitely many, so they can be counted.                  *)
LEMMA HoldersFinite ==
  ASSUME NEW r
  PROVE  /\ IsFiniteSet(Holders(r))
         /\ Cardinality(Holders(r)) \in Nat
<1>1. Holders(r) \in SUBSET Harts
  BY DEF Holders
<1>2. IsFiniteSet(Holders(r))
  BY <1>1, HartsAssumption, FS_Subset
<1> QED
  BY <1>2, FS_CardinalityType

(* The counter splits into the current hart's reservation and the others': *)
(* this is what others_reserved takes apart again.                         *)
LEMMA CountSplits ==
  ASSUME NEW r, NEW h \in Harts
  PROVE  LET others == Holders(r) \ {h}
         IN  /\ IsFiniteSet(others)
             /\ Cardinality(others) \in Nat
             /\ Cardinality(Holders(r)) =
                  Cardinality(others) + (IF r[h] # NoSet THEN 1 ELSE 0)
<1> DEFINE others == Holders(r) \ {h}
<1>1. IsFiniteSet(Holders(r)) /\ Cardinality(Holders(r)) \in Nat
  BY HoldersFinite
<1>2. /\ IsFiniteSet(others)
      /\ Cardinality(others) = IF h \in Holders(r) THEN Cardinality(Holders(r)) - 1
                                                   ELSE Cardinality(Holders(r))
  BY <1>1, FS_RemoveElement
<1>3. Cardinality(others) \in Nat
  BY <1>2, FS_CardinalityType
<1>4. h \in Holders(r) <=> r[h] # NoSet
  BY DEF Holders
<1> QED
  BY <1>1, <1>2, <1>3, <1>4

(* With a right counter, others_reserved answers its question.             *)
LEMMA OthersReservedRight ==
  ASSUME ReservationsTypeOK, ReservedCounts, NEW h \in Harts
  PROVE  OthersReserved(reservation[h]) <=> Holders(reservation) \ {h} # {}
<1> DEFINE others == Holders(reservation) \ {h}
<1>1. /\ IsFiniteSet(others) /\ Cardinality(others) \in Nat
      /\ reserved = Cardinality(others) + (IF reservation[h] # NoSet THEN 1 ELSE 0)
  BY CountSplits DEF ReservedCounts, CountReservations
<1>2. Cardinality(others) = 0 <=> others = {}
  BY <1>1, FS_EmptySet
<1> QED
  BY <1>1, <1>2 DEF OthersReserved

(* A step keeps the types and the count, whatever it stored: what          *)
(* stores_seen takes off the count is exactly what it ends.                *)
LEMMA SlotCounts ==
  ASSUME ReservationsTypeOK, ReservedCounts, NEW h \in Harts, NEW own \in Reservation,
         NEW logged \in SUBSET Sets,
         NEW unlogged \in SUBSET Sets, HartSlot(h, own, logged, unlogged)
  PROVE  ReservationsTypeOK' /\ ReservedCounts'
<1> DEFINE watched == tracing \/ OthersReserved(reservation[h])
           ended == Ended(h, own, IF watched THEN logged ELSE {})
           others == Holders(reservation) \ {h}
<1>1. ended \subseteq others
  BY DEF Ended, Holders
<1>2. reservation' = [g \in Harts |-> IF g = h THEN own
                                     ELSE IF g \in ended THEN NoSet
                                     ELSE reservation[g]]
  BY DEF HartSlot
<1>3. reserved' = CountAfter(reservation[h] # NoSet, own # NoSet, ended)
  BY DEF HartSlot
<1>4. /\ seen' = AfterStores(seen, h, own, logged)
      /\ promised' = AfterStores(promised, h, own, logged \cup unlogged)
      /\ UNCHANGED <<tracing, saved>>
  BY DEF HartSlot
<1>5. /\ IsFiniteSet(others) /\ Cardinality(others) \in Nat
      /\ reserved = Cardinality(others) + (IF reservation[h] # NoSet THEN 1 ELSE 0)
  BY CountSplits DEF ReservedCounts, CountReservations
<1> HIDE DEF ended
<1>6. /\ IsFiniteSet(ended) /\ Cardinality(ended) \in Nat
      /\ IsFiniteSet(others \ ended) /\ Cardinality(others \ ended) \in Nat
      /\ Cardinality(others \ ended) = Cardinality(others) - Cardinality(ended)
  <2>1. IsFiniteSet(ended)
    BY <1>1, <1>5, FS_Subset
  <2>2. IsFiniteSet(others \ ended)
    BY <1>5, FS_Subset
  <2>3. others \cap ended = ended
    BY <1>1
  <2>4. Cardinality(others \ ended) = Cardinality(others) - Cardinality(others \cap ended)
    BY <1>5, FS_Difference
  <2> QED
    BY <2>1, <2>2, <2>3, <2>4, FS_CardinalityType
<1>7. Holders(reservation') \ {h} = others \ ended
  BY <1>2 DEF Holders
<1>8. Cardinality(Holders(reservation')) =
        Cardinality(others \ ended) + (IF own # NoSet THEN 1 ELSE 0)
  BY <1>2, <1>7, CountSplits
<1>9. reserved' = Cardinality(Holders(reservation'))
  BY <1>3, <1>5, <1>6, <1>8 DEF CountAfter
<1>10. reserved' \in Nat
  BY <1>9, HoldersFinite
<1>11. reservation' \in [Harts -> Reservation]
  BY <1>2 DEF ReservationsTypeOK, Reservation
<1>12. /\ seen' \in [Harts -> Reservation]
       /\ promised' \in [Harts -> Reservation]
  BY <1>4 DEF ReservationsTypeOK, AfterStores, Reservation
<1> QED
  BY <1>4, <1>9, <1>10, <1>11, <1>12 DEF ReservationsTypeOK, ReservedCounts, CountReservations

(* A step that logs a store and does not newly take a reservation is       *)
(* watched when it has to be, so it ends what its log would end shown to   *)
(* everyone.                                                               *)
LEMMA SlotSeesAll ==
  ASSUME ReservationsTypeOK, ReservedCounts, WatchingEnough,
         NEW h \in Harts, NEW own \in Reservation, NEW logged \in SUBSET Sets,
         NEW unlogged \in SUBSET Sets, HartSlot(h, own, logged, unlogged),
         logged = {} \/ own = NoSet \/ reservation[h] # NoSet
  PROVE  WatchingEnough'
<1> DEFINE watched == tracing \/ OthersReserved(reservation[h])
           ended == Ended(h, own, IF watched THEN logged ELSE {})
           hit == {g \in Harts \ {h} : reservation[g] \in logged}
           others == Holders(reservation) \ {h}
<1>1. hit \subseteq others
  BY NoSetAssumption DEF Holders
<1>2. ended = hit
  <2>1. CASE others = {} \/ logged = {}
    BY <2>1, <1>1 DEF Ended, Holders
  <2>2. CASE others # {} /\ logged # {}
    <3>1. OthersReserved(reservation[h])
      BY <2>2, OthersReservedRight
    <3>2. OthersReserved(own)
      BY <2>2, <3>1 DEF OthersReserved, ReservationsTypeOK
    <3> QED
      BY <3>1, <3>2, NoSetAssumption DEF Ended
  <2> QED
    BY <2>1, <2>2
<1>3. reservation' = [g \in Harts |-> IF g = h THEN own
                                     ELSE IF g \in ended THEN NoSet
                                     ELSE reservation[g]]
  BY DEF HartSlot
<1>4. seen' = AfterStores(reservation, h, own, logged)
  BY DEF HartSlot, WatchingEnough
<1> HIDE DEF ended
<1>5. reservation' = AfterStores(reservation, h, own, logged)
  BY <1>2, <1>3 DEF AfterStores
<1> QED
  BY <1>4, <1>5 DEF WatchingEnough

(* Every action is a slot of one hart: what it logs and what it stores     *)
(* without, and what it leaves the hart holding.  Without Svadu an LR, the *)
(* one step that takes a reservation, stores nothing.                      *)
LEMMA ActionsAreSlots ==
  ASSUME ReservationsTypeOK, ReservationsNext
  PROVE  \/ \E h \in Harts, own \in Reservation, logged, unlogged \in SUBSET Sets :
              /\ HartSlot(h, own, logged, unlogged)
              /\ ~Svadu => logged = {} \/ own = NoSet \/ reservation[h] # NoSet
         \/ Save
         \/ Restore
<1>1. ASSUME NEW w \in WalkWrites
      PROVE  w \in SUBSET Sets /\ (~Svadu => w = {})
  BY <1>1 DEF WalkWrites
<1>2. ASSUME NEW h \in Harts, NEW s \in Sets, LoadReserved(h, s)
      PROVE  \E own \in Reservation, logged, unlogged \in SUBSET Sets :
               /\ HartSlot(h, own, logged, unlogged)
               /\ ~Svadu => logged = {} \/ own = NoSet \/ reservation[h] # NoSet
  <2>1. PICK w \in WalkWrites : HartSlot(h, s, w, {})
    BY <1>2 DEF LoadReserved
  <2>2. s \in Reservation
    BY DEF Reservation
  <2> QED
    BY <1>1, <2>1, <2>2
<1>3. ASSUME NEW h \in Harts, NEW s \in Sets, StoreConditional(h, s)
      PROVE  \E own \in Reservation, logged, unlogged \in SUBSET Sets :
               /\ HartSlot(h, own, logged, unlogged)
               /\ ~Svadu => logged = {} \/ own = NoSet \/ reservation[h] # NoSet
  <2>1. PICK w \in WalkWrites :
           HartSlot(h, NoSet, w \cup (IF reservation[h] = s THEN {s} ELSE {}), {})
    BY <1>3 DEF StoreConditional
  <2>2. NoSet \in Reservation /\ w \cup (IF reservation[h] = s THEN {s} ELSE {}) \in SUBSET Sets
    BY <1>1 DEF Reservation
  <2> QED
    BY <2>1, <2>2
<1>4. ASSUME NEW h \in Harts, NEW st \in SUBSET Sets,
             \/ Store(h, st) \/ NoStore(h)
             \/ \E s \in Sets : HalfwordAmo(h, s)
      PROVE  \E own \in Reservation, logged, unlogged \in SUBSET Sets :
               /\ HartSlot(h, own, logged, unlogged)
               /\ ~Svadu => logged = {} \/ own = NoSet \/ reservation[h] # NoSet
  <2>1. ASSUME NEW w \in WalkWrites
        PROVE  w \in SUBSET Sets /\ w \cup st \in SUBSET Sets /\ (~Svadu => w = {})
    BY <1>1, <2>1
  <2>2. reservation[h] \in Reservation /\ {} \in SUBSET Sets
    BY DEF ReservationsTypeOK
  <2>3. CASE Store(h, st) \/ NoStore(h)
    <3>1. PICK w \in WalkWrites :
             HartSlot(h, reservation[h], w \cup st, {}) \/ HartSlot(h, reservation[h], w, {})
      BY <2>3 DEF Store, NoStore
    <3> QED
      BY <2>1, <2>2, <3>1
  <2>4. CASE \E s \in Sets : HalfwordAmo(h, s)
    <3>1. PICK s \in Sets, w \in WalkWrites : HartSlot(h, reservation[h], w, {s})
      BY <2>4 DEF HalfwordAmo
    <3>2. {s} \in SUBSET Sets
      OBVIOUS
    <3> QED
      BY <2>1, <2>2, <3>1, <3>2
  <2> QED
    BY <1>4, <2>3, <2>4
<1>5. {} \in SUBSET Sets
  OBVIOUS
<1> QED
  BY <1>2, <1>3, <1>4, <1>5 DEF ReservationsNext

(* The counter hart_slot keeps is the number of harts holding a            *)
(* reservation, for any number of harts, in any order of their steps,      *)
(* whatever page walks store, and through a snapshot and its restore.      *)
THEOREM CountCorrect == ReservationsSpec => [](ReservationsTypeOK /\ ReservedCounts)
<1>1. ReservationsInit => ReservationsTypeOK /\ ReservedCounts
  <2> SUFFICES ASSUME ReservationsInit PROVE ReservationsTypeOK /\ ReservedCounts
    OBVIOUS
  <2>1. Holders(reservation) = {}
    BY DEF ReservationsInit, Holders
  <2>2. CountReservations(reservation) = 0
    BY <2>1, FS_EmptySet DEF CountReservations
  <2> QED
    BY <2>2 DEF ReservationsInit, ReservationsTypeOK, ReservedCounts, Reservation
<1>2. ReservationsTypeOK /\ ReservedCounts /\ [ReservationsNext]_reservationVars => (ReservationsTypeOK /\ ReservedCounts)'
  <2> SUFFICES ASSUME ReservationsTypeOK, ReservedCounts, [ReservationsNext]_reservationVars
               PROVE  ReservationsTypeOK' /\ ReservedCounts'
    OBVIOUS
  <2>1. ASSUME NEW h \in Harts, NEW own \in Reservation, NEW logged \in SUBSET Sets,
               NEW unlogged \in SUBSET Sets, HartSlot(h, own, logged, unlogged)
        PROVE  ReservationsTypeOK' /\ ReservedCounts'
    BY <2>1, SlotCounts
  <2>2. CASE Save
    BY <2>2 DEF Save, ReservationsTypeOK, ReservedCounts, CountReservations, Holders
  <2>3. CASE Restore
    <3>1. reservation' = saved.reservation /\ reserved' = CountReservations(saved.reservation)
      BY <2>3 DEF Restore
    <3>2. reserved' \in Nat
      BY <3>1, HoldersFinite DEF CountReservations
    <3>3. ReservedCounts'
      BY <3>1 DEF ReservedCounts, CountReservations, Holders
    <3> QED
      BY <2>3, <3>2, <3>3 DEF Restore, ReservationsTypeOK
  <2>4. CASE UNCHANGED reservationVars
    BY <2>4 DEF reservationVars, ReservationsTypeOK, ReservedCounts, CountReservations, Holders
  <2> QED
    BY <2>1, <2>2, <2>3, <2>4, ActionsAreSlots
<1> QED
  BY <1>1, <1>2, PTL DEF ReservationsSpec

(* The counter is never taken below zero, and a restore brings back        *)
(* reservations of sets.                                                   *)
THEOREM ReservationsTypeCorrect == ReservationsSpec => []ReservationsTypeOK
  BY CountCorrect, PTL

(* With Svadu off, watching only the steps the counter points at ends the  *)
(* same reservations as watching every step: for the stores that a log     *)
(* has, hart_slot's economy costs nothing.  It does not say that a log has *)
(* every store, which is false (StoresEndOthers, HalfwordAmo).             *)
THEOREM WatchingSuffices == ~Svadu => (ReservationsSpec => []WatchingEnough)
<1> SUFFICES ASSUME ~Svadu PROVE ReservationsSpec => []WatchingEnough
  OBVIOUS
<1> DEFINE Enough == WatchingEnough /\ SavedEnough
<1>1. ReservationsInit => Enough
  BY DEF ReservationsInit, WatchingEnough, SavedEnough
<1>2. ReservationsTypeOK /\ ReservedCounts /\ Enough /\ [ReservationsNext]_reservationVars => Enough'
  <2> SUFFICES ASSUME ReservationsTypeOK, ReservedCounts, WatchingEnough, SavedEnough, [ReservationsNext]_reservationVars
               PROVE  Enough'
    OBVIOUS
  <2>1. ASSUME NEW h \in Harts, NEW own \in Reservation, NEW logged \in SUBSET Sets,
               NEW unlogged \in SUBSET Sets, HartSlot(h, own, logged, unlogged),
               logged = {} \/ own = NoSet \/ reservation[h] # NoSet
        PROVE  Enough'
    <3>1. WatchingEnough'
      BY <2>1, SlotSeesAll
    <3>2. SavedEnough'
      BY <2>1 DEF HartSlot, SavedEnough
    <3> QED
      BY <3>1, <3>2
  <2>2. CASE Save
    BY <2>2 DEF Save, WatchingEnough, SavedEnough
  <2>3. CASE Restore
    BY <2>3 DEF Restore, WatchingEnough, SavedEnough
  <2>4. CASE UNCHANGED reservationVars
    BY <2>4 DEF reservationVars, WatchingEnough, SavedEnough
  <2>5. CASE ReservationsNext
    <3>1. \/ \E h \in Harts, own \in Reservation, logged, unlogged \in SUBSET Sets :
               /\ HartSlot(h, own, logged, unlogged)
               /\ logged = {} \/ own = NoSet \/ reservation[h] # NoSet
          \/ Save
          \/ Restore
      BY <2>5, ActionsAreSlots
    <3> QED
      BY <3>1, <2>1, <2>2, <2>3
  <2> QED
    BY <2>4, <2>5
<1> QED
  BY <1>1, <1>2, CountCorrect, PTL DEF ReservationsSpec

-------------------------------------------------------------------------------
(* The clock does not wrap, or no guest has a clock of its own.            *)
ClockFits == ClockMayWrap => DeltaValues \subseteq {0}

-------------------------------------------------------------------------------
(* Types                                                                   *)

LEMMA SlotEndsType ==
  ASSUME NEW h \in Hart, NEW step \in BOOLEAN, SlotEnds(h, step), RoundsTypeOK
  PROVE  /\ slot' \in 1..(N + 1) /\ retired' \in BOOLEAN /\ allWaiting' \in BOOLEAN
         /\ tickPhase' \in 0..(InsnsPerTick - 1)
         /\ slot' = h + 1
BY SizesAssumption DEF SlotEnds, RoundsTypeOK, Hart

LEMMA EventWriteType ==
  ASSUME NEW h \in Hart, RoundsTypeOK, EventWrite(h) \/ Trap(h)
  PROVE  /\ mtime' \in Time
         /\ cmp' \in [Hart -> [Timers -> Time]]
         /\ htimedelta' \in [Hart -> Time]
         /\ mie' \in [Hart -> SUBSET Sources]
         /\ level' \in [Hart -> BOOLEAN]
         /\ masked' \in [Hart -> BOOLEAN]
<1> USE ValuesAssumption
<1>1. CASE WriteCmp(h)
  <2>1. PICK c \in Timers, v \in Time, g \in Hart : cmp' = [cmp EXCEPT ![g][c] = v]
    BY <1>1 DEF WriteCmp
  <2>2. cmp' \in [Hart -> [Timers -> Time]]
    BY <2>1 DEF RoundsTypeOK
  <2> QED
    BY <1>1, <2>2 DEF WriteCmp, RoundsTypeOK
<1>2. CASE WriteMtime(h)
  BY <1>2 DEF WriteMtime, RoundsTypeOK
<1>3. CASE WriteHtimedelta(h)
  BY <1>3 DEF WriteHtimedelta, RoundsTypeOK
<1>4. CASE WriteMie(h)
  BY <1>4 DEF WriteMie, RoundsTypeOK
<1>5. CASE RaiseOrClear(h)
  BY <1>5 DEF RaiseOrClear, RoundsTypeOK
<1>6. CASE Trap(h)
  BY <1>6 DEF Trap, RoundsTypeOK
<1> QED
  BY <1>1, <1>2, <1>3, <1>4, <1>5, <1>6 DEF EventWrite, WriteMask

(* The slots and the rest of the machine keep the reference's types.       *)
LEMMA SlotType ==
  ASSUME RoundsTypeOK, NEW h \in Hart,
         \/ Interrupted(h) \/ RunsEvent(h) \/ RunsPlain(h) \/ Halts(h)
         \/ \E k \in Waits : BeginsWait(h, k)
         \/ WaitGoesOn(h) \/ WaitEnds(h)
  PROVE  RoundsTypeOK' /\ slot = h /\ slot' = h + 1
<1>1. CASE Interrupted(h)
  BY <1>1, EventWriteType, SlotEndsType DEF Interrupted, Runs, RoundsTypeOK
<1>2. CASE RunsEvent(h)
  BY <1>2, EventWriteType, SlotEndsType DEF RunsEvent, Runs, RoundsTypeOK
<1>3. CASE RunsPlain(h)
  <2>1. held' \in [Hart -> BOOLEAN]
    BY <1>3 DEF RunsPlain, RoundsTypeOK
  <2> QED
    BY <1>3, <2>1, SlotEndsType DEF RunsPlain, Runs, RoundsTypeOK, events
<1>4. CASE Halts(h)
  BY <1>4, SlotEndsType DEF Halts, Runs, RoundsTypeOK, events
<1>5. ASSUME NEW k \in Waits, BeginsWait(h, k) PROVE RoundsTypeOK' /\ slot = h /\ slot' = h + 1
  <2>1. wait' \in [Hart -> Waits \cup {"None"}] /\ remaining' \in [Hart -> 0..MaxWait]
    BY <1>5, SizesAssumption DEF BeginsWait, RoundsTypeOK
  <2> QED
    BY <1>5, <2>1, SlotEndsType DEF BeginsWait, Runs, RoundsTypeOK, events
<1>6. CASE WaitGoesOn(h)
  <2>1. remaining' \in [Hart -> 0..MaxWait]
    BY <1>6, SizesAssumption DEF WaitGoesOn, RoundsTypeOK
  <2> QED
    BY <1>6, <2>1, SlotEndsType DEF WaitGoesOn, Waiting, RoundsTypeOK, events
<1>7. CASE WaitEnds(h)
  <2>1. wait' \in [Hart -> Waits \cup {"None"}] /\ remaining' \in [Hart -> 0..MaxWait]
    BY <1>7, SizesAssumption DEF WaitEnds, RoundsTypeOK
  <2>2. UNCHANGED events \/ Trap(h)
    BY <1>7 DEF WaitEnds
  <2>3. /\ mtime' \in Time /\ cmp' \in [Hart -> [Timers -> Time]]
        /\ htimedelta' \in [Hart -> Time] /\ mie' \in [Hart -> SUBSET Sources]
        /\ level' \in [Hart -> BOOLEAN] /\ masked' \in [Hart -> BOOLEAN]
    BY <2>2, EventWriteType DEF RoundsTypeOK, events
  <2> QED
    BY <1>7, <2>1, <2>3, SlotEndsType DEF WaitEnds, Waiting, RoundsTypeOK
<1> QED
  BY <1>1, <1>2, <1>3, <1>4, <1>5, <1>6, <1>7

LEMMA BetweenSlotsType ==
  ASSUME RoundsTypeOK, EndRound \/ AbandonRound \/ Pause \/ Resume \/ DeviceEvent
  PROVE  RoundsTypeOK'
<1> USE SizesAssumption
<1>0. ASSUME StartRound
      PROVE  slot' \in 1..(N + 1) /\ retired' \in BOOLEAN /\ allWaiting' \in BOOLEAN
  <2>1. slot' = 1
    BY <1>0 DEF StartRound
  <2>2. retired' \in BOOLEAN /\ allWaiting' \in BOOLEAN
    BY <1>0, Zenon DEF StartRound
  <2> QED
    BY <2>1, <2>2
<1>1. CASE EndRound
  <2>1. tickPhase' \in 0..(InsnsPerTick - 1)
    BY <1>1 DEF EndRound, PhaseAfter, RoundsTypeOK, InsnsPerTick
  <2>2. Tick \/ UNCHANGED mtime
    BY <1>1, Zenon DEF EndRound
  <2>3. mtime' \in Time
    BY <2>2 DEF Tick, RoundsTypeOK, Time
  <2> QED
    BY <1>0, <1>1, <2>1, <2>3, Zenon DEF EndRound, RoundsTypeOK
<1>2. CASE AbandonRound
  BY <1>0, <1>2, Zenon DEF AbandonRound, RoundsTypeOK, events
<1>3. CASE Pause
  BY <1>3 DEF Pause, RoundsTypeOK, events, round
<1>4. CASE Resume
  <2>1. UNCHANGED events \/ \E h \in Hart : Trap(h)
    BY <1>4 DEF Resume
  <2>2. /\ mtime' \in Time /\ cmp' \in [Hart -> [Timers -> Time]]
        /\ htimedelta' \in [Hart -> Time] /\ mie' \in [Hart -> SUBSET Sources]
        /\ level' \in [Hart -> BOOLEAN] /\ masked' \in [Hart -> BOOLEAN]
    BY <2>1, EventWriteType DEF RoundsTypeOK, events
  <2> QED
    BY <1>4, <2>2 DEF Resume, RoundsTypeOK, round
<1>5. CASE DeviceEvent
  BY <1>5 DEF DeviceEvent, RoundsTypeOK, round
<1> QED
  BY <1>1, <1>2, <1>3, <1>4, <1>5

-------------------------------------------------------------------------------
(* What is remembered                                                      *)

(* What a remembered mtime is for: before it, nothing wakes the hart.      *)
LEMMA QuietMeansNoWake ==
  ASSUME RoundsTypeOK, NEW h \in Hart, NEW until \in Time, Quiet(h, until), mtime < until
  PROVE  ~Wake(h)
<1>1. ASSUME NEW c \in Timers, c \in mie[h] PROVE ~TimerPendingAt(h, c, mtime)
  <2>1. CASE c = "vstimecmp" /\ htimedelta[h] # 0
    BY <1>1, <2>1 DEF Quiet
  <2>2. CASE ~(c = "vstimecmp" /\ htimedelta[h] # 0)
    <3>1. until <= cmp[h][c]
      BY <1>1, <2>2 DEF Quiet
    <3>2. mtime \in 0..MaxTime /\ cmp[h][c] \in 0..MaxTime
      BY DEF RoundsTypeOK, Time
    <3>3. c = "vstimecmp" => GuestTime(h, mtime) = mtime
      BY <2>2, <3>2, SizesAssumption DEF GuestTime
    <3> QED
      BY <3>1, <3>2, <3>3, SizesAssumption DEF TimerPendingAt, Time
  <2> QED
    BY <2>1, <2>2
<1>2. ~("other" \in mie[h] /\ level[h])
  BY DEF Quiet
<1> QED
  BY <1>1, <1>2 DEF Wake, WakeAt

(* consider and what is built from it stay within time.                    *)
LEMMA ConsiderType ==
  ASSUME RoundsTypeOK, NEW h \in Hart
  PROVE  /\ NextTick \in Time
         /\ NextHostTimer(h) \in Time
         /\ NextDeadline(h) \in Time
         /\ NextLook(h) \in Time
<1>1. /\ mtime \in 0..MaxTime
      /\ cmp[h]["mtimecmp"] \in 0..MaxTime /\ cmp[h]["stimecmp"] \in 0..MaxTime
      /\ cmp[h]["vstimecmp"] \in 0..MaxTime
  BY DEF RoundsTypeOK, Time, Timers
<1>2. NextTick \in Time
  BY <1>1, SizesAssumption DEF NextTick, Time
<1>3. NextHostTimer(h) \in Time
  BY <1>1, SizesAssumption DEF NextHostTimer, Consider, Time
<1>4. ASSUME NEW at \in Time, NEW next \in Time PROVE Consider(at, next) \in Time
  BY DEF Consider
<1>5. cmp[h]["vstimecmp"] \in Time
  BY <1>1 DEF Time
<1> QED
  BY <1>2, <1>3, <1>4, <1>5 DEF NextDeadline, NextLook

(* A look that finds nothing pending and enabled may be remembered until   *)
(* the next deadline, of either kind.                                      *)
LEMMA LookRemembered ==
  ASSUME RoundsTypeOK, NEW h \in Hart
  PROVE  /\ OneTick(h, NextDeadline(h))
         /\ OneTick(h, NextLook(h))
         /\ ~Wake(h) => Quiet(h, NextDeadline(h)) /\ Quiet(h, NextLook(h))
<1> DEFINE m == cmp[h]["mtimecmp"]
           s == cmp[h]["stimecmp"]
           v == cmp[h]["vstimecmp"]
<1>1. /\ mtime \in 0..MaxTime /\ m \in 0..MaxTime /\ s \in 0..MaxTime /\ v \in 0..MaxTime
      /\ htimedelta[h] \in 0..MaxTime
  BY DEF RoundsTypeOK, Time, Timers
<1>2. NextTick <= mtime + 1
  BY <1>1, SizesAssumption DEF NextTick
<1>3. htimedelta[h] # 0 => NextDeadline(h) <= mtime + 1
  BY <1>1, SizesAssumption DEF NextDeadline, NextHostTimer, Consider, NextTick
<1>4. OneTick(h, NextDeadline(h)) /\ OneTick(h, NextLook(h))
  BY <1>2, <1>3 DEF OneTick, NextLook
<1>5. ASSUME ~Wake(h)
      PROVE  \A c \in Timers : c \in mie[h] => ~TimerPendingAt(h, c, mtime)
  BY <1>5 DEF Wake, WakeAt
<1>6. ASSUME ~Wake(h) PROVE "other" \in mie[h] => ~level[h]
  BY <1>6 DEF Wake, WakeAt
<1>7. ASSUME mtime < m PROVE NextDeadline(h) <= m /\ NextLook(h) <= m
  BY <1>1, <1>7, SizesAssumption DEF NextDeadline, NextLook, NextHostTimer, Consider, NextTick
<1>8. ASSUME mtime < s PROVE NextDeadline(h) <= s /\ NextLook(h) <= s
  BY <1>1, <1>8, SizesAssumption DEF NextDeadline, NextLook, NextHostTimer, Consider, NextTick
<1>9. ASSUME mtime < v, htimedelta[h] = 0 PROVE NextDeadline(h) <= v /\ NextLook(h) <= v
  BY <1>1, <1>9, SizesAssumption DEF NextDeadline, NextLook, NextHostTimer, Consider
<1>10. ASSUME ~Wake(h), NEW c \in Timers, c \in mie[h],
              ~(c = "vstimecmp" /\ htimedelta[h] # 0)
       PROVE  NextDeadline(h) <= cmp[h][c] /\ NextLook(h) <= cmp[h][c]
  <2>1. ~TimerPendingAt(h, c, mtime)
    BY <1>5, <1>10
  <2>2. CASE c = "mtimecmp"
    BY <1>1, <1>7, <2>1, <2>2 DEF TimerPendingAt
  <2>3. CASE c = "stimecmp"
    BY <1>1, <1>8, <2>1, <2>3 DEF TimerPendingAt
  <2>4. CASE c = "vstimecmp"
    <3>1. GuestTime(h, mtime) = mtime
      BY <1>1, <1>10, <2>4, SizesAssumption DEF GuestTime
    <3>2. mtime < v
      BY <1>1, <2>1, <2>4, <3>1 DEF TimerPendingAt
    <3> QED
      BY <1>9, <1>10, <2>4, <3>2
  <2> QED
    BY <2>2, <2>3, <2>4 DEF Timers
<1>11. ~Wake(h) => Quiet(h, NextDeadline(h)) /\ Quiet(h, NextLook(h))
  BY <1>5, <1>6, <1>10 DEF Quiet
<1> QED
  BY <1>4, <1>11

(* The soundness properties follow from the invariant.                     *)
LEMMA InvSound ==
  ASSUME IInv
  PROVE  IrqCacheSound /\ SkipSound
<1>1. IrqCacheSound
  <2> SUFFICES ASSUME NEW h \in Hart, mtime < irqUntil[h] PROVE ~Due(h)
    BY DEF IrqCacheSound, IrqUnchanged
  <2>1. irqUntil[h] \in Time /\ mtime \in Time
    BY DEF IInv, TypeOK, RoundsTypeOK
  <2>2. irqUntil[h] > 0
    BY <2>1 DEF Time
  <2>3. masked[h] \/ Quiet(h, irqUntil[h])
    BY <2>2 DEF IInv, IrqInv
  <2> QED
    BY <2>1, <2>3, QuietMeansNoWake DEF IInv, TypeOK, Due
<1>2. SkipSound
  <2> SUFFICES ASSUME NEW h \in Hart, slot = h, CanSkip(h) PROVE ~Wake(h)
    BY DEF SkipSound
  <2>1. waitUntil[h] \in Time /\ now \in Time /\ slot \in Int
    BY DEF IInv, TypeOK, RoundsTypeOK, Hart
  <2>2. waitUntil[h] > 0
    BY <2>1 DEF CanSkip, Time
  <2>3. Quiet(h, waitUntil[h]) /\ now = mtime
    BY <2>1, <2>2 DEF IInv, WaitInv, Hart
  <2> QED
    BY <2>1, <2>3, QuietMeansNoWake DEF CanSkip, IInv, TypeOK
<1> QED
  BY <1>1, <1>2

-------------------------------------------------------------------------------
(* The invariant is inductive                                              *)

(* A step that moves EventGen forgets everything.                          *)
LEMMA BumpKeeps ==
  ASSUME Bump
  PROVE  IrqInv' /\ WaitInv'
BY DEF Bump, Forgotten, IrqInv, WaitInv

(* What a step that leaves events alone may remember of hart g: what was   *)
(* remembered, nothing, or an answer made now with nothing due.            *)
IrqAnswer(g, new) ==
  new = irqUntil[g] \/ new = 0 \/ (new = NextDeadline(g) /\ ~Due(g))

(* The same for waits: an answer made now belongs to the hart whose slot   *)
(* this was.                                                               *)
LookAnswer(g, new, next) ==
  new = waitUntil[g] \/ new = 0 \/ (new = NextLook(g) /\ ~Wake(g) /\ next = g + 1)

(* A step that leaves events alone and remembers no more than that keeps   *)
(* the invariant.                                                          *)
LEMMA CalmIrq ==
  ASSUME IInv, UNCHANGED events,
         \A g \in Hart : IrqAnswer(g, irqUntil'[g])
  PROVE  IrqInv'
<1> SUFFICES ASSUME NEW g \in Hart, irqUntil'[g] > 0
             PROVE  /\ OneTick(g, irqUntil[g])'
                    /\ masked'[g] \/ Quiet(g, irqUntil[g])'
  BY DEF IrqInv
<1> DEFINE u == irqUntil'[g]
<1>1. OneTick(g, u) /\ (masked[g] \/ Quiet(g, u))
  <2>1. CASE irqUntil'[g] = irqUntil[g]
    BY <2>1 DEF IInv, IrqInv
  <2>2. CASE irqUntil'[g] = NextDeadline(g) /\ ~Due(g)
    <3>1. OneTick(g, NextDeadline(g)) /\ (~Wake(g) => Quiet(g, NextDeadline(g)))
      BY LookRemembered DEF IInv, TypeOK
    <3> QED
      BY <2>2, <3>1 DEF Due
  <2> QED
    BY <2>1, <2>2 DEF IrqAnswer
<1>2. masked' = masked
  BY DEF events
<1>3. OneTick(g, u) => OneTick(g, irqUntil[g])'
  BY DEF events, OneTick
<1>4. Quiet(g, u) => Quiet(g, irqUntil[g])'
  BY DEF events, Quiet, TimerPendingAt, GuestTime
<1> QED
  BY <1>1, <1>2, <1>3, <1>4

LEMMA CalmWait ==
  ASSUME IInv, UNCHANGED events, slot' \in 1..(N + 1),
         now' = mtime \/ (now' = now /\ slot <= slot'),
         \A g \in Hart : LookAnswer(g, waitUntil'[g], slot')
  PROVE  WaitInv'
<1> SUFFICES ASSUME NEW g \in Hart, waitUntil'[g] > 0
             PROVE  /\ OneTick(g, waitUntil[g])' /\ Quiet(g, waitUntil[g])'
                    /\ slot' <= g => now' = mtime'
  BY DEF WaitInv
<1> DEFINE u == waitUntil'[g]
<1>0. g \in Int /\ slot \in Int /\ slot' \in Int /\ mtime' = mtime
  BY SizesAssumption DEF Hart, IInv, TypeOK, RoundsTypeOK, events
<1>1. OneTick(g, u) /\ Quiet(g, u) /\ (slot' <= g => now' = mtime)
  <2>1. CASE waitUntil'[g] = waitUntil[g]
    <3>1. OneTick(g, u) /\ Quiet(g, u) /\ (slot <= g => now = mtime)
      BY <2>1 DEF IInv, WaitInv
    <3> QED
      BY <1>0, <3>1
  <2>2. CASE waitUntil'[g] = NextLook(g) /\ ~Wake(g) /\ slot' = g + 1
    <3>1. OneTick(g, NextLook(g)) /\ Quiet(g, NextLook(g))
      BY <2>2, LookRemembered DEF IInv, TypeOK
    <3> QED
      BY <1>0, <2>2, <3>1
  <2> QED
    BY <2>1, <2>2 DEF LookAnswer
<1>3. OneTick(g, u) => OneTick(g, waitUntil[g])'
  BY DEF events, OneTick
<1>4. Quiet(g, u) => Quiet(g, waitUntil[g])'
  BY DEF events, Quiet, TimerPendingAt, GuestTime
<1> QED
  BY <1>0, <1>1, <1>3, <1>4

(* A tick keeps both: what is remembered is about compare values, and with *)
(* an htimedelta it does not outlast the tick.                             *)
LEMMA TickKeeps ==
  ASSUME ClockFits, IInv, Tick, UNCHANGED <<cmp, htimedelta, mie, level, masked, caches>>,
         now' = mtime'
  PROVE  IrqInv' /\ WaitInv'
<1>1. ASSUME NEW g \in Hart, NEW u \in Time, OneTick(g, u)
      PROVE  OneTick(g, u)' /\ (Quiet(g, u) => Quiet(g, u)')
  <2>1. mtime \in 0..MaxTime /\ u \in 0..MaxTime
    BY DEF IInv, TypeOK, RoundsTypeOK, Time
  <2>2. htimedelta[g] # 0 => mtime' = mtime + 1 /\ ~(mtime' < u)
    <3>1. htimedelta[g] # 0 => ~ClockMayWrap
      BY DEF IInv, DeltaInv, ClockFits
    <3> QED
      BY <1>1, <2>1, <3>1, SizesAssumption DEF Tick, OneTick
  <2>3. OneTick(g, u)'
    BY <1>1, <2>1, <2>2 DEF OneTick
  <2>4. Quiet(g, u) => Quiet(g, u)'
    BY <2>2 DEF Quiet
  <2> QED
    BY <2>3, <2>4
<1>2. IrqInv'
  <2> SUFFICES ASSUME NEW g \in Hart, irqUntil'[g] > 0
               PROVE  /\ OneTick(g, irqUntil[g])'
                      /\ masked'[g] \/ Quiet(g, irqUntil[g])'
    BY DEF IrqInv
  <2> DEFINE u == irqUntil[g]
  <2>1. irqUntil' = irqUntil /\ u \in Time /\ u > 0
    BY DEF caches, IInv, TypeOK
  <2>2. OneTick(g, u) /\ (masked[g] \/ Quiet(g, u))
    BY <2>1 DEF IInv, IrqInv
  <2>3. OneTick(g, u) => OneTick(g, irqUntil[g])'
    BY <1>1, <2>1 DEF OneTick
  <2>4. Quiet(g, u) => Quiet(g, irqUntil[g])'
    BY <1>1, <2>1, <2>2 DEF Quiet, TimerPendingAt, GuestTime
  <2> QED
    BY <2>2, <2>3, <2>4
<1>3. WaitInv'
  <2> SUFFICES ASSUME NEW g \in Hart, waitUntil'[g] > 0
               PROVE  OneTick(g, waitUntil[g])' /\ Quiet(g, waitUntil[g])'
    BY DEF WaitInv
  <2> DEFINE u == waitUntil[g]
  <2>1. waitUntil' = waitUntil /\ u \in Time /\ u > 0
    BY DEF caches, IInv, TypeOK
  <2>2. OneTick(g, u) /\ Quiet(g, u)
    BY <2>1 DEF IInv, WaitInv
  <2>3. OneTick(g, u) => OneTick(g, waitUntil[g])'
    BY <1>1, <2>1 DEF OneTick
  <2>4. Quiet(g, u) => Quiet(g, waitUntil[g])'
    BY <1>1, <2>1, <2>2 DEF Quiet, TimerPendingAt, GuestTime
  <2> QED
    BY <2>2, <2>3, <2>4
<1> QED
  BY <1>2, <1>3

(* htimedelta holds only what the software writes.                         *)
LEMMA DeltaKept ==
  ASSUME DeltaInv, NEW h \in Hart, EventWrite(h) \/ Trap(h) \/ UNCHANGED htimedelta,
         RoundsTypeOK
  PROVE  DeltaInv'
<1>1. CASE WriteHtimedelta(h)
  <2>1. PICK v \in DeltaValues : htimedelta' = [htimedelta EXCEPT ![h] = v]
    BY <1>1 DEF WriteHtimedelta
  <2> QED
    BY <2>1 DEF DeltaInv, RoundsTypeOK
<1>2. CASE UNCHANGED htimedelta
  BY <1>2 DEF DeltaInv
<1> QED
  BY <1>1, <1>2 DEF EventWrite, WriteCmp, WriteMtime, WriteMie, RaiseOrClear, WriteMask, Trap

LEMMA SelectedType ==
  ASSUME TypeOK, NEW differ \in BOOLEAN, NEW until \in [Hart -> Time]
  PROVE  /\ Selected(until, differ) \in [Hart -> Time]
         /\ \A g \in Hart : Selected(until, differ)[g] \in {until[g], 0}
         /\ Forgotten \in [Hart -> Time]
BY SizesAssumption DEF Selected, Forgotten, Time

(* What the check leaves behind when nothing is due where it looked.       *)
LEMMA AfterCheckKeeps ==
  ASSUME IInv, NEW h \in Hart, NEW until \in [Hart -> Time],
         \A g \in Hart : until[g] \in {irqUntil[g], 0},
         IrqUnchanged(h, until) \/ ~Due(h)
  PROVE  /\ AfterCheck(h, until) \in [Hart -> Time]
         /\ \A g \in Hart : IrqAnswer(g, AfterCheck(h, until)[g])
<1>1. NextDeadline(h) \in Time
  BY ConsiderType DEF IInv, TypeOK
<1>2. ASSUME NEW g \in Hart PROVE IrqAnswer(g, until[g])
  BY DEF IrqAnswer
<1>3. CASE IrqUnchanged(h, until)
  <2>1. AfterCheck(h, until) = until
    BY <1>3 DEF AfterCheck
  <2> QED
    BY <1>2, <2>1
<1>4. CASE ~IrqUnchanged(h, until)
  <2>1. AfterCheck(h, until) = [until EXCEPT ![h] = NextDeadline(h)] /\ ~Due(h)
    BY <1>4 DEF AfterCheck
  <2>2. AfterCheck(h, until) \in [Hart -> Time]
    BY <1>1, <2>1
  <2>3. IrqAnswer(h, AfterCheck(h, until)[h])
    BY <2>1 DEF IrqAnswer
  <2>4. ASSUME NEW g \in Hart, g # h PROVE IrqAnswer(g, AfterCheck(h, until)[g])
    <3>1. AfterCheck(h, until)[g] = until[g]
      BY <2>1, <2>4
    <3> QED
      BY <1>2, <3>1
  <2> QED
    BY <2>2, <2>3, <2>4
<1> QED
  BY <1>3, <1>4

(* A slot keeps the invariant.                                             *)
LEMMA SlotStepKeeps ==
  ASSUME IInv, NEW h \in Hart, SlotStep(h)
  PROVE  IInv'
<1>0. /\ RoundsTypeOK /\ irqUntil \in [Hart -> Time] /\ waitUntil \in [Hart -> Time]
      /\ now \in Time /\ slot \in 1..(N + 1) /\ h \in Int /\ N \in Int
      /\ TypeOK /\ DeltaInv
  BY SizesAssumption DEF IInv, TypeOK, RoundsTypeOK, Hart
<1>1. ASSUME Bump, UNCHANGED now, RoundsTypeOK', DeltaInv' PROVE IInv'
  <2>1. irqUntil' \in [Hart -> Time] /\ waitUntil' \in [Hart -> Time]
    BY <1>1, SizesAssumption DEF Bump, Forgotten, Time
  <2> QED
    BY <1>0, <1>1, <2>1, BumpKeeps DEF IInv, TypeOK
<1>2. ASSUME UNCHANGED events, UNCHANGED now, RoundsTypeOK', slot = h, slot' = h + 1,
             irqUntil' \in [Hart -> Time], waitUntil' \in [Hart -> Time],
             \A g \in Hart : IrqAnswer(g, irqUntil'[g]), \A g \in Hart : LookAnswer(g, waitUntil'[g], slot')
      PROVE  IInv'
  <2>1. IrqInv'
    BY <1>2, CalmIrq, Zenon
  <2>2. slot' \in 1..(N + 1) /\ slot <= slot'
    BY <1>0, <1>2 DEF Hart
  <2>3. WaitInv'
    BY <1>2, <2>2, CalmWait, Zenon
  <2>4. DeltaInv'
    BY <1>0, <1>2 DEF DeltaInv, events
  <2> QED
    BY <1>0, <1>2, <2>1, <2>3, <2>4 DEF IInv, TypeOK
<1>3. ASSUME NEW differ \in BOOLEAN, CachedSlot(h, differ) PROVE IInv'
  <2> DEFINE until == Selected(irqUntil, differ)
             looks == Selected(waitUntil, differ)
  <2>0. /\ until \in [Hart -> Time]
        /\ \A g \in Hart : until[g] \in {irqUntil[g], 0}
    BY <1>0, SelectedType
  <2>1. /\ looks \in [Hart -> Time]
        /\ \A g \in Hart : looks[g] \in {waitUntil[g], 0}
    BY <1>0, SelectedType
  <2>2. [looks EXCEPT ![h] = 0] \in [Hart -> Time]
    BY <2>1, SizesAssumption DEF Time
  <2>3. ASSUME Interrupted(h) \/ RunsEvent(h), Bump, UNCHANGED now PROVE IInv'
    <3>1. RoundsTypeOK'
      BY <1>0, <2>3, SlotType
    <3>2. DeltaInv'
      BY <1>0, <2>3, DeltaKept DEF Interrupted, RunsEvent
    <3> QED
      BY <1>1, <2>3, <3>1, <3>2
  <2>4. ASSUME IrqUnchanged(h, until) \/ ~Due(h), UNCHANGED now,
               RunsPlain(h) \/ Halts(h) \/ \E k \in Waits : BeginsWait(h, k),
               irqUntil' = AfterCheck(h, until),
               waitUntil' = looks \/ waitUntil' = [looks EXCEPT ![h] = 0]
        PROVE  IInv'
    <3>1. RoundsTypeOK' /\ slot = h /\ slot' = h + 1
      BY <1>0, <2>4, SlotType
    <3>2. UNCHANGED events
      BY <2>4 DEF RunsPlain, Halts, BeginsWait
    <3>3. irqUntil' \in [Hart -> Time] /\ \A g \in Hart : IrqAnswer(g, irqUntil'[g])
      BY <2>0, <2>4, AfterCheckKeeps
    <3>4. waitUntil' \in [Hart -> Time] /\ \A g \in Hart : LookAnswer(g, waitUntil'[g], slot')
      BY <2>1, <2>2, <2>4 DEF LookAnswer
    <3> QED
      BY <1>2, <2>4, <3>1, <3>2, <3>3, <3>4
  <2> QED
    BY <1>3, <2>3, <2>4 DEF CachedSlot, BumpAfterEvent
<1>4. ASSUME NEW differ \in BOOLEAN, CachedWait(h, differ) PROVE IInv'
  <2> DEFINE until == Selected(irqUntil, differ)
             looks == Selected(waitUntil, differ)
  <2>1. /\ until \in [Hart -> Time]
        /\ \A g \in Hart : until[g] \in {irqUntil[g], 0}
        /\ looks \in [Hart -> Time]
        /\ \A g \in Hart : looks[g] \in {waitUntil[g], 0}
    BY <1>0, SelectedType
  <2>2. CASE ~Wake(h) /\ WaitGoesOn(h) /\ irqUntil' = until /\ UNCHANGED now
             /\ waitUntil' = [looks EXCEPT ![h] = NextLook(h)]
    <3>1. RoundsTypeOK' /\ slot = h /\ slot' = h + 1
      BY <1>0, <2>2, SlotType
    <3>2. UNCHANGED events
      BY <2>2 DEF WaitGoesOn
    <3>3. NextLook(h) \in Time
      BY <1>0, ConsiderType
    <3>4. waitUntil' \in [Hart -> Time] /\ UNCHANGED now /\ ~Wake(h)
      BY <2>1, <2>2, <3>3
    <3>5. ASSUME NEW g \in Hart PROVE LookAnswer(g, waitUntil'[g], slot')
      <4>1. CASE g = h
        <5>1. waitUntil'[h] = NextLook(h)
          BY <2>1, <2>2
        <5> QED
          BY <3>1, <3>4, <4>1, <5>1 DEF LookAnswer
      <4>2. CASE g # h
        <5>1. waitUntil'[g] = looks[g]
          BY <2>1, <2>2, <4>2
        <5> QED
          BY <2>1, <5>1 DEF LookAnswer
      <4> QED
        BY <4>1, <4>2
    <3>6. irqUntil' \in [Hart -> Time] /\ \A g \in Hart : IrqAnswer(g, irqUntil'[g])
      BY <2>1, <2>2 DEF IrqAnswer
    <3> QED
      BY <1>2, <3>1, <3>2, <3>4, <3>5, <3>6
  <2>3. CASE WaitEnds(h) /\ events' = events /\ irqUntil' = until /\ UNCHANGED now
             /\ waitUntil' = [looks EXCEPT ![h] = 0]
    <3>1. RoundsTypeOK' /\ slot = h /\ slot' = h + 1
      BY <1>0, <2>3, SlotType
    <3>2. waitUntil' \in [Hart -> Time] /\ \A g \in Hart : LookAnswer(g, waitUntil'[g], slot')
      BY <2>1, <2>3, SizesAssumption DEF Time, LookAnswer
    <3>3. irqUntil' \in [Hart -> Time] /\ \A g \in Hart : IrqAnswer(g, irqUntil'[g])
      BY <2>1, <2>3 DEF IrqAnswer
    <3>4. UNCHANGED events /\ UNCHANGED now
      BY <2>3
    <3> QED
      BY <1>2, <3>1, <3>2, <3>3, <3>4
  <2>4. CASE WaitEnds(h) /\ Bump /\ UNCHANGED now
    <3>1. RoundsTypeOK'
      BY <1>0, <2>4, SlotType
    <3>2. Trap(h) \/ UNCHANGED htimedelta
      BY <2>4 DEF WaitEnds, events
    <3>3. DeltaInv'
      BY <1>0, <3>2, DeltaKept
    <3> QED
      BY <1>1, <2>4, <3>1, <3>3
  <2> QED
    BY <1>4, <2>2, <2>3, <2>4 DEF CachedWait
<1>5. CASE SkipWait(h)
  <2>1. RoundsTypeOK' /\ slot = h /\ slot' = h + 1
    BY <1>0, <1>5, SlotType DEF SkipWait
  <2>2. UNCHANGED events /\ UNCHANGED now /\ irqUntil' = irqUntil /\ waitUntil' = waitUntil
    BY <1>5 DEF SkipWait, WaitGoesOn, caches
  <2>3. /\ irqUntil' \in [Hart -> Time] /\ waitUntil' \in [Hart -> Time]
        /\ \A g \in Hart : IrqAnswer(g, irqUntil'[g])
        /\ \A g \in Hart : LookAnswer(g, waitUntil'[g], slot')
    BY <1>0, <2>2 DEF IrqAnswer, LookAnswer
  <2> QED
    BY <1>2, <2>1, <2>2, <2>3
<1> QED
  BY <1>3, <1>4, <1>5 DEF SlotStep

(* So does everything between slots.                                       *)
LEMMA BetweenSlotsKeeps ==
  ASSUME ClockFits, IInv,
         \/ CachedEndRound \/ CachedAbandon
         \/ CachedPause \/ CachedResume \/ CachedDeviceEvent \/ SnapshotRestored
  PROVE  IInv'
<1>0. /\ RoundsTypeOK /\ irqUntil \in [Hart -> Time] /\ waitUntil \in [Hart -> Time]
      /\ now \in Time /\ mtime \in Time /\ slot \in 1..(N + 1) /\ N \in Nat \ {0}
      /\ TypeOK /\ DeltaInv
  BY SizesAssumption DEF IInv, TypeOK, RoundsTypeOK
<1>1. ASSUME Bump, UNCHANGED now, RoundsTypeOK', UNCHANGED htimedelta PROVE IInv'
  <2>1. irqUntil' \in [Hart -> Time] /\ waitUntil' \in [Hart -> Time]
    BY <1>1, SizesAssumption DEF Bump, Forgotten, Time
  <2>2. DeltaInv'
    BY <1>0, <1>1 DEF DeltaInv
  <2> QED
    BY <1>0, <1>1, <2>1, <2>2, BumpKeeps DEF IInv, TypeOK
<1>2. ASSUME UNCHANGED events, UNCHANGED caches, RoundsTypeOK',
             now' = mtime \/ (now' = now /\ slot <= slot')
      PROVE  IInv'
  <2>1. irqUntil' = irqUntil /\ waitUntil' = waitUntil /\ now' \in Time
    BY <1>0, <1>2 DEF caches
  <2>2. IrqInv'
    <3>1. \A g \in Hart : IrqAnswer(g, irqUntil'[g])
      BY <2>1 DEF IrqAnswer
    <3> QED
      BY <1>2, <3>1, CalmIrq
  <2>3. WaitInv'
    <3>1. \A g \in Hart : LookAnswer(g, waitUntil'[g], slot')
      BY <2>1 DEF LookAnswer
    <3>2. slot' \in 1..(N + 1)
      BY <1>2 DEF RoundsTypeOK
    <3> QED
      BY <1>2, <3>1, <3>2, CalmWait
  <2>4. DeltaInv'
    BY <1>0, <1>2 DEF DeltaInv, events
  <2> QED
    BY <1>0, <1>2, <2>1, <2>2, <2>3, <2>4 DEF IInv, TypeOK
<1>3. CASE CachedEndRound
  <2>1. RoundsTypeOK' /\ now' = mtime' /\ UNCHANGED caches
    BY <1>0, <1>3, BetweenSlotsType DEF CachedEndRound
  <2>2. UNCHANGED <<cmp, htimedelta, mie, level, masked>>
    BY <1>3 DEF CachedEndRound, EndRound
  <2>3. Tick \/ UNCHANGED mtime
    BY <1>3, Zenon DEF CachedEndRound, EndRound
  <2>4. CASE Tick
    <3>1. IrqInv' /\ WaitInv'
      BY <2>1, <2>2, <2>4, TickKeeps
    <3>2. DeltaInv'
      BY <1>0, <2>2 DEF DeltaInv
    <3> QED
      BY <1>0, <2>1, <3>1, <3>2 DEF IInv, TypeOK, caches, RoundsTypeOK
  <2>5. CASE UNCHANGED mtime
    BY <1>2, <2>1, <2>2, <2>5 DEF events
  <2> QED
    BY <2>3, <2>4, <2>5
<1>4. CASE CachedAbandon
  BY <1>0, <1>2, <1>4, BetweenSlotsType DEF CachedAbandon, AbandonRound
<1>5. CASE CachedPause
  <2>1. RoundsTypeOK' /\ slot' = slot /\ slot <= slot'
    BY <1>0, <1>5, BetweenSlotsType DEF CachedPause, Pause, round
  <2> QED
    BY <1>2, <1>5, <2>1 DEF CachedPause, Pause
<1>6. CASE CachedResume
  <2>0. RoundsTypeOK' /\ UNCHANGED now
    BY <1>0, <1>6, BetweenSlotsType DEF CachedResume
  <2>1. slot' = slot /\ slot <= slot'
    <3>1. UNCHANGED round
      BY <1>6 DEF CachedResume, Resume
    <3> QED
      BY <1>0, <3>1 DEF round
  <2>2. CASE UNCHANGED events /\ UNCHANGED caches
    BY <1>2, <2>0, <2>1, <2>2
  <2>3. CASE Bump
    <3>1. UNCHANGED htimedelta
      BY <1>6 DEF CachedResume, Resume, events, Trap
    <3> QED
      BY <1>1, <2>0, <2>3, <3>1
  <2> QED
    BY <1>6, <2>2, <2>3 DEF CachedResume
<1>7. CASE CachedDeviceEvent
  BY <1>0, <1>1, <1>7, BetweenSlotsType DEF CachedDeviceEvent, DeviceEvent
<1>8. CASE SnapshotRestored
  <2>1. RoundsTypeOK' /\ UNCHANGED htimedelta
    BY <1>0, <1>8 DEF SnapshotRestored, rvars, RoundsTypeOK
  <2> QED
    BY <1>1, <1>8, <2>1 DEF SnapshotRestored
<1> QED
  BY <1>3, <1>4, <1>5, <1>6, <1>7, <1>8

LEMMA InitHolds ==
  ASSUME CachedInit
  PROVE  IInv
<1>1. RoundsTypeOK
  <2>1. retired \in BOOLEAN /\ allWaiting \in BOOLEAN /\ halted \in BOOLEAN
    BY Zenon DEF CachedInit, Init
  <2>2. level \in [Hart -> BOOLEAN] /\ masked \in [Hart -> BOOLEAN] /\ held \in [Hart -> BOOLEAN]
    BY DEF CachedInit, Init
  <2>3. /\ mtime \in Time /\ cmp \in [Hart -> [Timers -> Time]] /\ htimedelta \in [Hart -> Time]
        /\ mie \in [Hart -> SUBSET Sources] /\ remaining \in [Hart -> 0..MaxWait]
        /\ wait \in [Hart -> Waits \cup {"None"}]
        /\ slot \in 1..(N + 1) /\ tickPhase \in 0..(InsnsPerTick - 1)
    BY SizesAssumption DEF CachedInit, Init, Time, InsnsPerTick
  <2> QED
    BY <2>1, <2>2, <2>3 DEF RoundsTypeOK
<1>2. irqUntil = Forgotten /\ waitUntil = Forgotten /\ now = mtime
  BY DEF CachedInit
<1>3. irqUntil \in [Hart -> Time] /\ waitUntil \in [Hart -> Time] /\ IrqInv /\ WaitInv
  BY <1>2, SizesAssumption DEF Forgotten, Time, IrqInv, WaitInv
<1>4. DeltaInv
  BY DEF CachedInit, Init, DeltaInv
<1> QED
  BY <1>1, <1>2, <1>3, <1>4 DEF IInv, TypeOK, RoundsTypeOK

LEMMA NextKeeps ==
  ASSUME ClockFits, IInv, [CachedNext]_vars
  PROVE  IInv'
<1>1. CASE CachedNext
  BY <1>1, SlotStepKeeps, BetweenSlotsKeeps DEF CachedNext, RoundStep
<1>2. CASE UNCHANGED vars
  BY <1>2 DEF vars, rvars, caches, IInv, TypeOK, RoundsTypeOK, IrqInv, WaitInv, DeltaInv,
              OneTick, Quiet, TimerPendingAt, GuestTime
<1> QED
  BY <1>1, <1>2

LEMMA Invariant ==
  ClockFits => (CachedSpec => []IInv)
<1> SUFFICES ASSUME ClockFits PROVE CachedSpec => []IInv
  OBVIOUS
<1>1. IInv /\ [CachedNext]_vars => IInv'
  BY NextKeeps
<1>2. CachedInit => IInv
  BY InitHolds
<1> QED
  BY <1>1, <1>2, PTL DEF CachedSpec

(* A skipped interrupt check would have found nothing, and a skipped round *)
(* of a WFI would not have ended it: interrupt_may_be_due and run_round    *)
(* never miss what a look would have seen.                                 *)
THEOREM CachesSound ==
  ClockFits => (CachedSpec => [](TypeOK /\ IrqCacheSound /\ SkipSound))
<1>1. IInv => TypeOK /\ IrqCacheSound /\ SkipSound
  BY InvSound DEF IInv
<1> QED
  BY <1>1, Invariant, PTL

(* The tick phase, the waits and the slots of a round stay in step: no     *)
(* wait outlasts its limit and no phase reaches a tick.                    *)
THEOREM TypeCorrect == ClockFits => (CachedSpec => []TypeOK)
<1>1. IInv => TypeOK
  BY DEF IInv
<1> QED
  BY <1>1, Invariant, PTL

-------------------------------------------------------------------------------
(* Refinement                                                              *)

(* Each slot is one of the slots of a machine that looks every time.       *)
LEMMA SlotRefined ==
  ASSUME IInv, NEW h \in Hart, SlotStep(h)
  PROVE  Slot(h)
<1>1. IrqCacheSound /\ SkipSound
  BY InvSound
<1>2. /\ irqUntil \in [Hart -> Time] /\ mtime \in Time
      /\ remaining[h] \in Nat
  BY SizesAssumption DEF IInv, TypeOK, RoundsTypeOK
<1>3. CASE SkipWait(h)
  <2>1. slot = h /\ WaitGoesOn(h)
    BY <1>3 DEF SkipWait, WaitGoesOn, Waiting
  <2>2. ~Wake(h)
    BY <1>1, <1>3, <2>1 DEF SkipSound, SkipWait
  <2>3. ~WaitOver(h)
    BY <1>2, <1>3 DEF SkipWait, CanSkip, WaitOver
  <2> QED
    BY <2>1, <2>2, <2>3 DEF Slot
<1>4. ASSUME NEW differ \in BOOLEAN, CachedSlot(h, differ) PROVE Slot(h)
  <2> DEFINE until == Selected(irqUntil, differ)
  <2>1. ASSUME IrqUnchanged(h, until) PROVE ~Due(h)
    <3>1. until[h] \in {irqUntil[h], 0} /\ mtime < until[h]
      BY <1>2, <2>1, SelectedType DEF IInv, IrqUnchanged
    <3>2. IrqUnchanged(h, irqUntil)
      BY <1>2, <3>1 DEF IrqUnchanged, Time
    <3> QED
      BY <1>1, <3>2 DEF IrqCacheSound
  <2> QED
    BY <1>4, <2>1, Zenon DEF CachedSlot, Slot
<1>5. ASSUME NEW differ \in BOOLEAN, CachedWait(h, differ) PROVE Slot(h)
  BY <1>5, Zenon DEF CachedWait, Slot
<1> QED
  BY <1>3, <1>4, <1>5 DEF SlotStep

(* The machine that remembers is the machine that looks at every interrupt *)
(* source in every slot.                                                   *)
THEOREM Refinement ==
  ClockFits => (CachedSpec => ImplementsRounds)
<1>1. IInv /\ [CachedNext]_vars => [Next]_rvars
  <2> SUFFICES ASSUME IInv, [CachedNext]_vars PROVE [Next]_rvars
    OBVIOUS
  <2>1. ASSUME NEW h \in Hart, SlotStep(h) PROVE Next
    BY <2>1, SlotRefined DEF Next
  <2>2. CASE CachedEndRound \/ CachedAbandon \/ CachedPause \/ CachedResume \/ CachedDeviceEvent
    BY <2>2, Zenon DEF CachedEndRound, CachedAbandon, CachedPause, CachedResume, CachedDeviceEvent, Next
  <2>3. CASE SnapshotRestored
    BY <2>3 DEF SnapshotRestored
  <2>4. CASE UNCHANGED vars
    BY <2>4 DEF vars
  <2> QED
    BY <2>1, <2>2, <2>3, <2>4, Zenon DEF CachedNext, RoundStep
<1>2. CachedInit => Init
  BY DEF CachedInit
<1> QED
  BY <1>1, <1>2, Invariant, PTL DEF CachedSpec, ImplementsRounds, Spec
================================================================================
