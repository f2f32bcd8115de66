---------------------------- MODULE MCEpochState ----------------------------
(***************************************************************************)
(* The two guardians of the security epoch, the barrier and the checkpoint *)
(* frontier, side by side: focus picks the one that moves and the other    *)
(* keeps its initial state, so that the two state spaces add up.           *)
(*                                                                         *)
(* Barrier: four operations and epochs 0 to 5; a guard can be cancelled in *)
(* one epoch and handed in two epochs later while others run.              *)
(* Frontier: two zones and eight checkpoints: a chain c0, c1, c2, c3, a    *)
(* fork of c1 under the same sequence number, a checkpoint that skips, one *)
(* of an older epoch and one without a quorum.  The window of two          *)
(* overflows.                                                              *)
(***************************************************************************)
EXTENDS EpochBarrier, CheckpointFrontier, TLC

VARIABLE focus

Cp(id, seq, epoch, prev, quorum) ==
  [id |-> id, seq |-> seq, epoch |-> epoch, prev |-> prev, quorum |-> quorum]

MCCheckpoints ==
  {Cp("c0", 0, 1, "none", TRUE), Cp("c1", 1, 1, "c0", TRUE),
   Cp("f1", 1, 2, "c0", TRUE), Cp("c2", 2, 2, "c1", TRUE),
   Cp("c3", 3, 2, "c2", TRUE), Cp("s3", 3, 3, "c1", TRUE),
   Cp("old4", 4, 1, "c3", TRUE), Cp("u4", 4, 3, "c3", FALSE)}

MCInit == BarrierInit /\ FrontierInit /\ focus \in {"barrier", "frontier"}

MCNext == /\ UNCHANGED focus
          /\ \/ focus = "barrier" /\ BarrierNext /\ UNCHANGED frontier_vars
             \/ focus = "frontier" /\ FrontierNext /\ UNCHANGED barrier_vars

MCSpec == MCInit /\ [][MCNext]_<<focus, barrier_vars, frontier_vars>>

Symmetry == Permutations(Ops) \cup Permutations(Zones)
=============================================================================
