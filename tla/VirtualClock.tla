---------------------------- MODULE VirtualClock ----------------------------
(***************************************************************************)
(* The virtual clock the callers of a store read their ticks from.         *)
(***************************************************************************)
EXTENDS Naturals

CONSTANT MaxTime  \* bound: the clock

ASSUME MaxTimeNat == MaxTime \in Nat

VARIABLE now

ClockTick == now < MaxTime /\ now' = now + 1
=============================================================================
