------------------------- MODULE MCSagaOrchestrator -------------------------
(***************************************************************************)
(* One saga of three steps and two workers, one epoch change.              *)
(***************************************************************************)
EXTENDS SagaOrchestrator
=============================================================================
