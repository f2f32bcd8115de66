--------------------------- MODULE FleetConvergence ---------------------------
(***************************************************************************)
(* fleet_convergence.rs: the ConvergenceEngine an observer runs on top of  *)
(* its FleetProtocolState.                                                 *)
(*                                                                         *)
(* Four callers make it contain the extension, in any order: the posterior *)
(* crossing a threshold (process_fleet_state), a failed containment        *)
(* (escalate), a checkpoint of any node (apply_checkpoint_decisions), and, *)
(* by tightening the thresholds, the partition detector                    *)
(* (update_partition_state).  Actions are their severities 0..4.  Signing, *)
(* telemetry and the spectral-health snapshot are left out, and so is the  *)
(* conflict counter of the healing mode, which nothing reads.              *)
(***************************************************************************)
EXTENDS FleetProtocol

CONSTANTS Engines,               \* the observers whose engine is followed
          thresholds,            \* of sandbox, suspend, terminate, quarantine
          tightening_factor,     \* in hundredths
          max_escalation_depth

ASSUME EnginesObserve == Engines \subseteq Observers

ASSUME ThresholdsOrdered ==
  \A i, j \in 1..4 : i < j => thresholds[i] < thresholds[j]

VARIABLES executed,          \* ActionRegistry: severities with a receipt
          escalation_depth,
          partition_mode,    \* [kind, size, total]; size and total if Degraded
          applied            \* ghost: checkpoints an engine has applied

engine == <<executed, escalation_depth, partition_mode, applied>>
vars == <<protocol, engine>>

Normal == [kind |-> "Normal", size |-> 0, total |-> 0]
Healing == [kind |-> "Healing", size |-> 0, total |-> 0]

Init ==
  /\ ProtocolInit
  /\ executed = [n \in Engines |-> {}]
  /\ escalation_depth = [n \in Engines |-> 0]
  /\ partition_mode = [n \in Engines |-> Normal]
  /\ applied = [n \in Engines |-> {}]

IsMinority(mode) == mode.total = 0 \/ mode.size < Quorum(mode.total)

Tightened(n) ==
  CASE partition_mode[n].kind = "Normal" -> FALSE
    [] partition_mode[n].kind = "Degraded" -> IsMinority(partition_mode[n])
    [] partition_mode[n].kind = "Healing" -> TRUE

\* The division of the code rounds toward zero.
Tighten(threshold) ==
  LET wide == threshold * tightening_factor
  IN IF wide < 0 THEN -((-wide) \div 100) ELSE wide \div 100

EffectiveThresholds(n) ==
  IF Tightened(n)
    THEN [i \in 1..4 |-> Tighten(thresholds[i])]
    ELSE thresholds

\* The most severe action whose threshold the posterior reaches.
Evaluate(limits, posterior) == Max({0} \cup {i \in 1..4 : posterior >= limits[i]})

HighestExecutedAction(n) == Max({0} \cup executed[n])

\* Mutant: only the repetition is refused, not the downgrade.
ExecuteAny(n, action) == action # 0 /\ action \notin executed[n]

\* Mutant: as severe as asked, but one receipt per observer is enough.
ExecuteFirst(n, action) == action # 0 /\ executed[n] = {}

\* execute_decision produces a receipt
Executes(n, action) ==
  /\ action # 0
  /\ action \notin executed[n]
  /\ action >= HighestExecutedAction(n)

Record(n, action) ==
  executed' = [executed EXCEPT ![n] = IF Executes(n, action) THEN @ \cup {action} ELSE @]

ProcessFleetState(n) ==
  /\ fleet[n].seen_evidence # {}
  /\ Record(n, Evaluate(EffectiveThresholds(n), fleet[n].accumulated))
  /\ UNCHANGED <<protocol, escalation_depth, partition_mode, applied>>

Escalate(n) ==
  /\ escalation_depth[n] < max_escalation_depth
  /\ HighestExecutedAction(n) < 4
  /\ escalation_depth' = [escalation_depth EXCEPT ![n] = @ + 1]
  /\ Record(n, HighestExecutedAction(n) + 1)
  /\ UNCHANGED <<protocol, partition_mode, applied>>

ApplyCheckpointDecisions(n, c) ==
  /\ Record(n, c.action)
  /\ applied' = [applied EXCEPT ![n] = @ \cup {c}]
  /\ UNCHANGED <<protocol, escalation_depth, partition_mode>>

ModeAfter(n) ==
  LET gone == SuspectedPartitioned(fleet[n])
      total == Cardinality(Known(fleet[n]))
      degraded == [kind |-> "Degraded", size |-> total - Cardinality(gone), total |-> total]
      mode == partition_mode[n]
  IN  CASE mode.kind = "Normal" -> IF gone = {} THEN Normal ELSE degraded
        [] mode.kind = "Degraded" -> IF gone = {} THEN Healing ELSE mode
        [] mode.kind = "Healing" -> IF gone = {} THEN Normal ELSE degraded

UpdatePartitionState(n) ==
  /\ partition_mode' = [partition_mode EXCEPT ![n] = ModeAfter(n)]
  /\ UNCHANGED <<protocol, executed, escalation_depth, applied>>

Next ==
  \/ ProtocolNext /\ UNCHANGED engine
  \/ \E n \in Engines :
       \/ ProcessFleetState(n)
       \/ Escalate(n)
       \/ \E c \in checkpoints : ApplyCheckpointDecisions(n, c)
       \/ UpdatePartitionState(n)

Spec == Init /\ [][Next]_vars

-----------------------------------------------------------------------------
(* What the engine promises. *)

\* A new receipt is more severe than every earlier one of the same observer,
\* whichever of the three callers asks and whatever the posterior, the mode or
\* the checkpoint was when it was decided ("Higher severity containment always
\* wins (monotonic escalation)").
EscalatesOnly ==
  [][\A n \in Engines : \A a \in executed'[n] \ executed[n] :
       \A b \in executed[n] : a > b]_executed

\* An observer that has applied a checkpoint is contained at least as severely
\* as the checkpoint decided, so observers that applied the same checkpoint
\* agree on that minimum although each was escalated on its own before
\* (apply_checkpoint_decisions: "Split-brain prevention").
AppliedIsContained ==
  \A n \in Engines : \A c \in applied[n] : HighestExecutedAction(n) >= c.action

\* An engine that is up to date with its detector (update_partition_state
\* would leave its mode as it is) and reaches fewer nodes than a quorum uses the
\* tightened thresholds ("Under minority partition, thresholds tighten
\* conservatively", fleet_convergence.rs:14).
MinorityIsTightened ==
  \A n \in Engines :
    LET total == Cardinality(Known(fleet[n]))
        gone == Cardinality(SuspectedPartitioned(fleet[n]))
    IN  ModeAfter(n) = partition_mode[n] /\ total > 0 /\ total - gone < Quorum(total)
          => Tightened(n)
=============================================================================
