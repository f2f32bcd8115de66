------------------------- MODULE MCRegionLifecycle -------------------------
(* Model-checking instances of RegionLifecycle. *)
EXTENDS RegionLifecycle, TLC

\* Regions and obligations are compared only for identity.
RegionSymmetry == Permutations(Regions) \cup Permutations(Obligations)
=============================================================================
