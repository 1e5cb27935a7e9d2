------------------------------- MODULE Clock -------------------------------
(***************************************************************************)
(* The clock that time.Now reads, in units no two of which the modules     *)
(* below need to tell apart: seconds.                                      *)
(***************************************************************************)
EXTENDS Integers

CONSTANT MaxTime  \* bound

ASSUME ClockAssumption == MaxTime \in Nat

VARIABLE now

ClockTypeOK == now \in 0..MaxTime

ClockInit == now = 0

Tick ==
  /\ now < MaxTime
  /\ now' = now + 1
=============================================================================
