---------------------------- MODULE EpochBarrier ----------------------------
(***************************************************************************)
(* EpochBarrier (epoch_barrier.rs): guards for critical operations and the *)
(* drain protocol that advances the security epoch.                        *)
(*                                                                         *)
(* The barrier counts guards, it does not track which ones are out; the    *)
(* guard of an operation is a copy of the epoch it entered in.  running is *)
(* bookkeeping of the model: the operations that hold a guard nobody has   *)
(* cancelled.  drained counts the guards released during the transition.   *)
(* Guard ids, kinds, reasons and traces are left out, and so is the state  *)
(* Finalizing, which no method sets.                                       *)
(***************************************************************************)
EXTENDS SecurityEpoch, FiniteSets

CONSTANT Ops  \* the critical operations that may be in flight

ASSUME OpsFinite == IsFiniteSet(Ops)

VARIABLES barrier_state, in_flight_count, pending_new_epoch,
          in_flight_at_start, forced_cancellations,
          guard,    \* guard[p]: 0, or 1 + the epoch of the guard p holds
          running, drained

barrier == <<current_epoch, barrier_state, in_flight_count, pending_new_epoch,
             in_flight_at_start, forced_cancellations>>
barrier_vars == <<barrier, guard, running, drained>>

BarrierInit == /\ current_epoch = 0
               /\ barrier_state = "Open"
               /\ in_flight_count = 0
               /\ pending_new_epoch = 0
               /\ in_flight_at_start = 0
               /\ forced_cancellations = 0
               /\ guard = [p \in Ops |-> 0]
               /\ running = {}
               /\ drained = 0

EnterCritical(p) ==
  /\ guard[p] = 0
  /\ barrier_state = "Open"
  /\ in_flight_count' = in_flight_count + 1
  /\ guard' = [guard EXCEPT ![p] = 1 + current_epoch]
  /\ running' = running \cup {p}
  /\ UNCHANGED <<current_epoch, barrier_state, pending_new_epoch, in_flight_at_start,
                 forced_cancellations, drained>>

\* release_guard answers true, and counts down, for a guard of the current
\* epoch while the count is positive.
Accepts(p) == guard[p] = 1 + current_epoch /\ in_flight_count > 0

\* Mutant: the epoch of the guard is not compared.
ReleaseGuardAnyEpoch(p) ==
  /\ guard[p] # 0
  /\ in_flight_count' = IF in_flight_count > 0 THEN in_flight_count - 1
                                               ELSE in_flight_count
  /\ drained' = IF in_flight_count > 0 /\ barrier_state = "Draining" THEN drained + 1 ELSE drained
  /\ guard' = [guard EXCEPT ![p] = 0]
  /\ running' = running \ {p}
  /\ UNCHANGED <<current_epoch, barrier_state, pending_new_epoch, in_flight_at_start,
                 forced_cancellations>>

\* The end of an operation: it gives its guard back once.
ReleaseGuard(p) ==
  /\ guard[p] # 0
  /\ in_flight_count' = IF Accepts(p) THEN in_flight_count - 1 ELSE in_flight_count
  /\ drained' = IF Accepts(p) /\ barrier_state = "Draining" THEN drained + 1 ELSE drained
  /\ guard' = [guard EXCEPT ![p] = 0]
  /\ running' = running \ {p}
  /\ UNCHANGED <<current_epoch, barrier_state, pending_new_epoch, in_flight_at_start,
                 forced_cancellations>>

BeginTransition(e) ==
  /\ barrier_state = "Open"
  /\ e > current_epoch
  /\ barrier_state' = "Draining"
  /\ pending_new_epoch' = e
  /\ in_flight_at_start' = in_flight_count
  /\ forced_cancellations' = 0
  /\ drained' = 0
  /\ UNCHANGED <<current_epoch, in_flight_count, guard, running>>

\* Mutant: the count is reset without being recorded.
ForceCancelUnrecorded ==
  /\ barrier_state = "Draining"
  /\ in_flight_count' = 0
  /\ running' = {}
  /\ UNCHANGED <<current_epoch, barrier_state, pending_new_epoch, in_flight_at_start,
                 forced_cancellations, guard, drained>>

\* The drain timeout: every guard out is cancelled, though its holder still
\* has it and will release it later.
ForceCancelRemaining ==
  /\ barrier_state = "Draining"
  /\ forced_cancellations' = forced_cancellations + in_flight_count
  /\ in_flight_count' = 0
  /\ running' = {}
  /\ UNCHANGED <<current_epoch, barrier_state, pending_new_epoch, in_flight_at_start,
                 guard, drained>>

\* Mutant: completion does not wait for the guards.
CompleteEarly ==
  /\ barrier_state = "Draining"
  /\ current_epoch' = pending_new_epoch
  /\ barrier_state' = "Open"
  /\ pending_new_epoch' = 0
  /\ forced_cancellations' = 0
  /\ in_flight_at_start' = 0
  /\ UNCHANGED <<in_flight_count, guard, running, drained>>

\* Mutant: the epoch is incremented instead of set to the announced one.
CompleteToNext ==
  /\ barrier_state = "Draining"
  /\ in_flight_count = 0
  /\ current_epoch' = current_epoch + 1
  /\ barrier_state' = "Open"
  /\ pending_new_epoch' = 0
  /\ forced_cancellations' = 0
  /\ in_flight_at_start' = 0
  /\ UNCHANGED <<in_flight_count, guard, running, drained>>

CompleteTransition ==
  /\ barrier_state = "Draining"
  /\ in_flight_count = 0
  /\ current_epoch' = pending_new_epoch
  /\ barrier_state' = "Open"
  /\ pending_new_epoch' = 0
  /\ forced_cancellations' = 0
  /\ in_flight_at_start' = 0
  /\ UNCHANGED <<in_flight_count, guard, running, drained>>

\* transition_now: begin, cancel what is in flight, complete.
TransitionNow(e) ==
  /\ barrier_state = "Open"
  /\ e > current_epoch
  /\ current_epoch' = e
  /\ in_flight_count' = 0
  /\ pending_new_epoch' = 0
  /\ in_flight_at_start' = 0
  /\ forced_cancellations' = 0
  /\ running' = {}
  /\ drained' = 0
  /\ UNCHANGED <<barrier_state, guard>>

BarrierNext == \/ \E p \in Ops : EnterCritical(p) \/ ReleaseGuard(p)
        \/ \E e \in Epochs : BeginTransition(e) \/ TransitionNow(e)
        \/ ForceCancelRemaining
        \/ CompleteTransition

BarrierSpec == BarrierInit /\ [][BarrierNext]_barrier_vars

(***************************************************************************)
(* Properties.                                                             *)
(***************************************************************************)
BarrierTypeOK ==
  /\ current_epoch \in Epochs
  /\ barrier_state \in {"Open", "Draining"}
  /\ in_flight_count \in Nat
  /\ pending_new_epoch \in Epochs
  /\ in_flight_at_start \in Nat
  /\ forced_cancellations \in Nat
  /\ guard \in [Ops -> 0..(1 + MaxEpoch)]
  /\ running \subseteq Ops
  /\ drained \in Nat

\* No critical operation straddles an epoch boundary: an operation that runs
\* and was not cancelled holds a guard of the current epoch.
NoStraddle == \A p \in running : guard[p] = 1 + current_epoch

\* The count is exactly the number of operations running, although guards that
\* were cancelled, or belong to an older epoch, are handed in at any time.
CountIsExact == in_flight_count = Cardinality(running)

\* Transition evidence accounts for every guard out when the drain began:
\* still out, released since, or forcibly cancelled.
EvidenceAccounts ==
  barrier_state = "Draining" =>
    in_flight_at_start = in_flight_count + drained + forced_cancellations

\* While a transition drains, nobody new gets in, and the epoch moves only to
\* the announced successor and only when the last running operation is gone.
TransitionIsBarrier ==
  [][/\ barrier_state = "Draining" => running' \subseteq running
     /\ barrier_state = "Draining" /\ current_epoch' # current_epoch =>
          running = {} /\ current_epoch' = pending_new_epoch
     /\ current_epoch' >= current_epoch]_barrier_vars
=============================================================================
