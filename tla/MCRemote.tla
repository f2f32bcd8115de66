------------------------------ MODULE MCRemote ------------------------------
(***************************************************************************)
(* The state of remote work, side by side under one clock and one epoch:   *)
(* leases and idempotency keys.  focus picks the store that moves and the  *)
(* other keeps its initial state.                                          *)
(*                                                                         *)
(* Leases: as in MCLeaseTracker.                                           *)
(* Keys: two inputs, of computations with different times to live, so that *)
(* a claim evicts its own computation's entries and leaves the other's;    *)
(* two executions of a key can overlap once the first entry is evicted.    *)
(***************************************************************************)
EXTENDS MCLeaseTracker, IdempotencyStore

VARIABLE focus

MCInputs == 1..2
MCComputation == <<"fetch", "store">>
MCTtl == [fetch |-> 1, store |-> 2]

RemoteInit == LeaseInit /\ StoreInit /\ focus \in {"leases", "keys"}

RemoteNext ==
  /\ UNCHANGED focus
  /\ \/ /\ focus = "leases" /\ LeaseNext
        /\ UNCHANGED <<entries, started, executing, done, last_start>>
     \/ /\ focus = "keys" /\ StoreNext
        /\ UNCHANGED <<next_id, leases, index, escalations, scanned>>

RemoteSpec == RemoteInit /\ [][RemoteNext]_<<focus, lease_vars, store_vars>>
=============================================================================
