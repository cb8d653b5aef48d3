----------------------------- MODULE Reservations -----------------------------
(***************************************************************************)
(* LR/SC reservations with several harts (src/doom_system.cpp, hart_slot,  *)
(* others_reserved, stores_seen, count_reservations; src/riscv_core.hpp,   *)
(* store_by_other_hart; src/extensions/ext_a.cpp, exec_32A).               *)
(*                                                                         *)
(* Harts are stepped one at a time.  A hart holds at most one reservation, *)
(* on an aligned 8-byte reservation set of physical memory; a store by     *)
(* another hart to the set ends it, a store by the hart itself does not.   *)
(* Watching stores is expensive, so a step is watched only when the        *)
(* counter `reserved' says that some OTHER hart holds a reservation, and   *)
(* what a watched step stores is known from a log that Memory's write8,    *)
(* write32 and write64 keep.  Two things can go wrong: the counter may be  *)
(* one too low, and a store be made in a step that is not watched; and a   *)
(* store may be made around the log.  Either way a store-conditional       *)
(* succeeds that must not.  The counter is right.  The log is not          *)
(* complete: a halfword AMO goes around it (HalfwordAmo).                  *)
(*                                                                         *)
(* The order of the harts is left open here (HartRounds has it): a hart    *)
(* may run any instruction, one that touches no memory included, so every  *)
(* order of the interesting steps occurs.                                  *)
(***************************************************************************)
EXTENDS Integers, FiniteSets

CONSTANTS Harts,   \* the harts of the machine
          Sets,    \* the reservation sets of memory
          NoSet,   \* "no reservation"
          Svadu    \* whether page walks set A and D bits (menvcfg.ADUE)

ASSUME HartsAssumption == IsFiniteSet(Harts) /\ Harts # {}
ASSUME NoSetAssumption == NoSet \notin Sets
ASSUME SvaduAssumption == Svadu \in BOOLEAN

VARIABLES
  reservation,  \* the set each hart has reserved (reservation_valid and
                \* reservation_addr rounded down to RESERVATION_SET)
  reserved,     \* the count hart_slot and stores_seen keep
  tracing,      \* -trace or lock-step: every step's stores are watched
  saved,        \* what the last snapshot recorded
  seen,         \* history: the reservations there would be if every step
                \* were watched and its log shown to every other hart
  promised      \* history: the reservations there would be if every store
                \* of every step, logged or not, were shown to them

reservationVars == <<reservation, reserved, tracing, saved, seen, promised>>

Reservation == Sets \cup {NoSet}

Holders(r) == {h \in Harts : r[h] # NoSet}

-------------------------------------------------------------------------------
ReservationsInit ==
  /\ reservation = [h \in Harts |-> NoSet]
  /\ reserved = 0
  /\ tracing \in BOOLEAN
  /\ saved = [reservation |-> reservation, seen |-> reservation, promised |-> reservation]
  /\ seen = reservation
  /\ promised = reservation

(* A mutant of OthersReserved: one is taken to be the current hart's own.  *)
OthersReservedAlwaysDiscounts(own) == reserved > 1

(* others_reserved: whether a hart other than the current one, whose own   *)
(* reservation is own, holds one -- as far as the counter knows.           *)
OthersReserved(own) == reserved > (IF own # NoSet THEN 1 ELSE 0)

(* store_by_other_hart over the bytes of a step: the reservations of r     *)
(* that are left after hart h, now at own, stored to the sets in stored.   *)
AfterStores(r, h, own, stored) ==
  [g \in Harts |-> IF g = h THEN own
                   ELSE IF r[g] \in stored THEN NoSet
                   ELSE r[g]]

(* stores_seen, after the step: the other harts' reservations it ends.  It *)
(* asks others_reserved again first, with the current hart's reservation   *)
(* as the step left it but the counter as it was before.                   *)
Ended(h, own, log) ==
  IF OthersReserved(own)
  THEN {g \in Harts \ {h} : reservation[g] # NoSet /\ reservation[g] \in log}
  ELSE {}

(* A mutant of CountAfter: stores_seen ends reservations without counting. *)
CountForgetsEnded(had, has, ended) ==
  reserved + (IF has = had THEN 0 ELSE IF has THEN 1 ELSE -1)

(* The counter after a step: one less for every reservation stores_seen    *)
(* ended, and the hart's own change.                                       *)
CountAfter(had, has, ended) ==
  reserved - Cardinality(ended) + (IF has = had THEN 0 ELSE IF has THEN 1 ELSE -1)

(* hart_slot around a step of hart h that leaves its reservation at own    *)
(* and stores to the sets in logged through write8, write32 or write64,    *)
(* which log while the step is watched, and to those in unlogged by other  *)
(* ways; traced_step when tracing.                                         *)
HartSlot(h, own, logged, unlogged) ==
  LET watched == tracing \/ OthersReserved(reservation[h])
      ended   == Ended(h, own, IF watched THEN logged ELSE {})
  IN  /\ reservation' = [g \in Harts |-> IF g = h THEN own
                                         ELSE IF g \in ended THEN NoSet
                                         ELSE reservation[g]]
      /\ reserved' = CountAfter(reservation[h] # NoSet, own # NoSet, ended)
      /\ seen' = AfterStores(seen, h, own, logged)
      /\ promised' = AfterStores(promised, h, own, logged \cup unlogged)
      /\ UNCHANGED <<tracing, saved>>

(* The sets the page walks of one step may write, to set an A or D bit in  *)
(* a page-table entry: none without Svadu.                                 *)
WalkWrites == IF Svadu THEN {{}} \cup {{s} : s \in Sets} ELSE {{}}

(* lr.w, lr.d: reserves the set, stores nothing itself.                    *)
LoadReserved(h, s) ==
  \E walk \in WalkWrites : HartSlot(h, s, walk, {})

(* sc.w, sc.d: succeeds, and stores, if the set is the one reserved; the   *)
(* reservation is gone either way.                                         *)
StoreConditional(h, s) ==
  LET success == reservation[h] = s
  IN  \E walk \in WalkWrites :
        HartSlot(h, NoSet, walk \cup (IF success THEN {s} ELSE {}), {})

(* An instruction whose stores are logged: a store, a vector store, an AMO *)
(* or amocas of any width but two bytes (16 bytes are two sets).  The      *)
(* hart's own reservation stands.                                          *)
Store(h, stored) ==
  \E walk \in WalkWrites : HartSlot(h, reservation[h], walk \cup stored, {})

(* An AMO or amocas two bytes wide (Zabha).  It stores by write_bytes,     *)
(* which to RAM is a memcpy without a StoreCapture: only its walk is       *)
(* logged.                                                                 *)
HalfwordAmo(h, s) ==
  \E walk \in WalkWrites : HartSlot(h, reservation[h], walk, {s})

(* An instruction that stores nothing, a trap or an interrupt: only its    *)
(* walks can write.                                                        *)
NoStore(h) ==
  \E walk \in WalkWrites : HartSlot(h, reservation[h], walk, {})

(* A snapshot between rounds: reservation_valid and reservation_addr of    *)
(* every hart are written, the counter is not.                             *)
Save ==
  /\ saved' = [reservation |-> reservation, seen |-> seen, promised |-> promised]
  /\ UNCHANGED <<reservation, reserved, tracing, seen, promised>>

(* A mutant of CountReservations: a restore that does not count.           *)
CountReservationsZero(r) == 0

(* count_reservations: the harts that hold one.                            *)
CountReservations(r) == Cardinality(Holders(r))

(* A new process restores the snapshot.                                    *)
Restore ==
  /\ reservation' = saved.reservation
  /\ seen' = saved.seen
  /\ promised' = saved.promised
  /\ reserved' = CountReservations(saved.reservation)
  /\ UNCHANGED <<tracing, saved>>

ReservationsNext ==
  \/ \E h \in Harts :
       \/ \E s \in Sets : LoadReserved(h, s) \/ StoreConditional(h, s) \/ HalfwordAmo(h, s)
       \/ \E stored \in (SUBSET Sets) \ {{}} : Store(h, stored)
       \/ NoStore(h)
  \/ Save
  \/ Restore

ReservationsSpec == ReservationsInit /\ [][ReservationsNext]_reservationVars

-------------------------------------------------------------------------------
ReservationsTypeOK ==
  /\ reservation \in [Harts -> Reservation]
  /\ reserved \in Nat
  /\ tracing \in BOOLEAN
  /\ saved \in [reservation : [Harts -> Reservation],
               seen : [Harts -> Reservation],
               promised : [Harts -> Reservation]]
  /\ seen \in [Harts -> Reservation]
  /\ promised \in [Harts -> Reservation]

(* The counter is the number of harts holding a reservation, now and in    *)
(* whatever a restore brings back ("`reserved' counts the harts holding a  *)
(* reservation", doom_system.cpp, hart_slot).                              *)
ReservedCounts == reserved = CountReservations(reservation)

(* Watching only the steps the counter points at loses nothing: it leaves  *)
(* every hart exactly the reservation that watching every step would.      *)
(* This is about when hart_slot and stores_seen look, not about what the   *)
(* log of a step has: a halfword AMO ends nothing in either of the two     *)
(* compared.                                                               *)
WatchingEnough == reservation = seen

(* "A store this step made ends any other hart's reservation on it"        *)
(* (doom_system.hpp, stores_seen), and nothing else does: an SC succeeds   *)
(* only if no other hart stored to the set since the LR.  The code does    *)
(* not have this: a halfword AMO ends no reservation.                      *)
StoresEndOthers == reservation = promised

(* The snapshot's half of the inductive invariant.                         *)
SavedEnough == saved.reservation = saved.seen
=============================================================================
