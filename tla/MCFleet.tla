------------------------------- MODULE MCFleet -------------------------------
(* Instances of the fleet: see MCFleet.cfg and MCFleetMinority.cfg. *)
EXTENDS FleetConvergence

MCDelta == [t1 |-> 60]
MCIntents == {[action |-> 1, epoch |-> 0], [action |-> 3, epoch |-> 0]}
MCThresholds == <<20, 50, 80, 95>>
=============================================================================
