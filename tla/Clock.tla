-------------------------------- MODULE Clock --------------------------------
(***************************************************************************)
(* The wall clock every component reads through time.Now().  One unit is   *)
(* long against a handler's running time; the constants of the components  *)
(* (PendingTimeout, HostDuration, ...) are given in these units.           *)
(***************************************************************************)
EXTENDS Integers

CONSTANT MaxTime    \* bound on the clock, for model checking

ASSUME ClockAssumption == MaxTime \in Nat

VARIABLE now

ClockInit == now = 0

Tick ==
  /\ now < MaxTime
  /\ now' = now + 1

=============================================================================
