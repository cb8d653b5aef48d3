---------------------------- MODULE MCSeveralHarts ----------------------------
(***************************************************************************)
(* What is kept for several harts, in one machine: the remembered          *)
(* interrupt and wait answers of CachedRounds, and the reservations and    *)
(* their counter.  They share no state, so every step of one is looked at  *)
(* with the other as it starts and not in every combination.               *)
(*                                                                         *)
(* The software of the rounds is split between two harts: hart 1 sets      *)
(* timers and waits in WFI, hart 2 writes the clock and hart 1's mtimecmp  *)
(* and sends interrupts.  The machine halts in hart 1's slot, so that hart *)
(* 2 loses its own.  Reservations have a third hart (MCReservations).      *)
(***************************************************************************)
EXTENDS CachedRounds, MCReservations

MCDoes == <<{"vstimecmp", "htimedelta", "mie", "mask", "wfi", "halt"},
            {"mtimecmp", "mtime", "raise"}>>
MCMie == {{}, {"mtimecmp", "vstimecmp", "other"}}

SeveralInit == CachedInit /\ ReservationsInit

(* A machine that is traced takes no shortcut past a waiting hart          *)
(* (run_round, skip), so the rounds are those of one that is not.          *)
SeveralNext ==
  \/ CachedNext /\ ReservationsInit /\ ~tracing /\ UNCHANGED reservationVars
  \/ ReservationsNext /\ CachedInit /\ UNCHANGED vars

SeveralSpec == SeveralInit /\ [][SeveralNext]_<<vars, reservationVars>>
=============================================================================
