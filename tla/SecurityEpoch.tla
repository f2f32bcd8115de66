--------------------------- MODULE SecurityEpoch ---------------------------
(***************************************************************************)
(* SecurityEpoch (security_epoch.rs): the number that versions the trust   *)
(* state.  Components copy it and compare; who moves it, and which way, is *)
(* said by the component.                                                  *)
(***************************************************************************)
EXTENDS Naturals

CONSTANT MaxEpoch  \* bound: the largest epoch

ASSUME MaxEpochNat == MaxEpoch \in Nat

VARIABLE current_epoch

Epochs == 0..MaxEpoch
=============================================================================
