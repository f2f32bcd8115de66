-------------------------- MODULE SagaOrchestrator --------------------------
(***************************************************************************)
(* SagaOrchestrator (saga_orchestrator.rs) and the workers that carry out  *)
(* the steps it hands out.                                                 *)
(*                                                                         *)
(* The orchestrator only keeps books: begin_step and                       *)
(* next_compensation_step name the action to carry out, complete_step and  *)
(* complete_compensation record how it went.  Nothing ties a step to one   *)
(* worker, so two may be on the same step, and a report may be late,       *)
(* repeated or never come: reports keeps every report made, to be handed   *)
(* in any number of times.  A worker may crash before or after the action  *)
(* took effect.                                                            *)
(*                                                                         *)
(* applied[s] and undone[s] are bookkeeping of the model: the steps whose  *)
(* forward and compensating action took effect.  Failure and Cancelled are *)
(* one outcome here (ok = FALSE), they differ in the diagnostic only.  The *)
(* caller chooses the idempotency key of a report: that of the action, or  *)
(* one of its own.  Failed carries its diagnostic as the tag.  Callers do  *)
(* not reuse the id of a saga (execution_orchestrator.rs names it after    *)
(* the attempt).                                                           *)
(* Names, types, traces, ticks and events are left out.                    *)
(***************************************************************************)
EXTENDS Integers, FiniteSets

CONSTANTS Sagas,          \* saga ids
          N,              \* steps of a saga
          Workers,        \* workers that carry out steps
          max_concurrent, \* limit on active sagas
          MaxEpoch        \* bound: the largest epoch

ASSUME NPositive == N \in Nat \ {0}
ASSUME SagasFinite == IsFiniteSet(Sagas)
ASSUME MaxEpochNat == MaxEpoch \in Nat

VARIABLES state, epoch, records, current_epoch,
          job, reports, applied, undone

orchestrator == <<state, epoch, records, current_epoch>>
world == <<job, reports, applied, undone>>
vars == <<orchestrator, world>>

Steps == 0..N-1
Epochs == 0..MaxEpoch
Acts == {"Forward", "Compensate"}

Idle == [saga |-> "none", act |-> "none", step |-> 0]

\* SagaState; every state from StepFailed on is Failed, with its diagnostic.
At(tag, i) == [tag |-> tag, step |-> i]
Failures == {"StepFailed", "Compensated", "CompensationFailed", "EpochInvalidated"}
Terminal(s) == state[s].tag \in {"Completed"} \cup Failures
Absent(s) == state[s].tag \in {"Absent", "Gone"}
Active == {s \in Sagas : ~Terminal(s) /\ ~Absent(s)}

Init == /\ state = [s \in Sagas |-> At("Absent", 0)]
        /\ epoch = [s \in Sagas |-> 0]
        /\ records = [s \in Sagas |-> {}]
        /\ current_epoch = 0
        /\ job = [w \in Workers |-> Idle]
        /\ reports = {}
        /\ applied = [s \in Sagas |-> {}]
        /\ undone = [s \in Sagas |-> {}]

CreateSaga(s) ==
  /\ state[s].tag = "Absent"
  /\ Cardinality(Active) < max_concurrent
  /\ state' = [state EXCEPT ![s] = At("Pending", 0)]
  /\ epoch' = [epoch EXCEPT ![s] = current_epoch]
  /\ UNCHANGED <<records, current_epoch, world>>

\* Mutant: a step in progress is not handed out again.
BeginOnce(w, s) ==
  /\ job[w] = Idle
  /\ epoch[s] = current_epoch
  /\ state[s].tag = "Pending"
  /\ state' = [state EXCEPT ![s] = At("InProgress", state[s].step)]
  /\ job' = [job EXCEPT ![w] = [saga |-> s, act |-> "Forward", step |-> state[s].step]]
  /\ UNCHANGED <<epoch, records, current_epoch, reports, applied, undone>>

\* A step in progress is handed out again to whoever asks.
BeginStep(w, s) ==
  /\ job[w] = Idle
  /\ state[s].tag \in {"Pending", "InProgress"}
  /\ epoch[s] = current_epoch
  /\ state' = [state EXCEPT ![s] = At("InProgress", state[s].step)]
  /\ job' = [job EXCEPT ![w] = [saga |-> s, act |-> "Forward", step |-> state[s].step]]
  /\ UNCHANGED <<epoch, records, current_epoch, reports, applied, undone>>

NextCompensationStep(w, s) ==
  /\ job[w] = Idle
  /\ state[s].tag = "Compensating"
  /\ job' = [job EXCEPT ![w] = [saga |-> s, act |-> "Compensate", step |-> state[s].step]]
  /\ UNCHANGED <<orchestrator, reports, applied, undone>>

\* The action of a job takes effect.
TakesEffect(j) ==
  /\ applied' = IF j.act = "Forward"
                  THEN [applied EXCEPT ![j.saga] = @ \cup {j.step}] ELSE applied
  /\ undone' = IF j.act = "Compensate"
                 THEN [undone EXCEPT ![j.saga] = @ \cup {j.step}] ELSE undone

\* A worker carries out its action and makes the report of it.
Perform(w, ok) ==
  /\ job[w] # Idle
  /\ IF ok THEN TakesEffect(job[w]) ELSE UNCHANGED <<applied, undone>>
  /\ reports' = reports \cup {[saga |-> job[w].saga, act |-> job[w].act,
                               step |-> job[w].step, ok |-> ok]}
  /\ job' = [job EXCEPT ![w] = Idle]
  /\ UNCHANGED orchestrator

Crash(w, happened) ==
  /\ job[w] # Idle
  /\ IF happened THEN TakesEffect(job[w]) ELSE UNCHANGED <<applied, undone>>
  /\ job' = [job EXCEPT ![w] = Idle]
  /\ UNCHANGED <<orchestrator, reports>>

\* The idempotency check: a report of this action is on record.  It compares
\* keys: a report under a key of its own (own_key) passes it all the same.
OnRecord(m) == \E r \in records[m.saga] : r.act = m.act /\ r.step = m.step

Record(m, new_state) ==
  /\ state' = [state EXCEPT ![m.saga] = new_state]
  /\ records' = [records EXCEPT ![m.saga] =
                   @ \cup {[act |-> m.act, step |-> m.step, ok |-> m.ok]}]
  /\ UNCHANGED <<epoch, current_epoch, world>>

\* Mutant: a failure with one step done is taken for a failure of the first step.
AfterForwardNoUndo(m) ==
  IF m.ok THEN IF m.step + 1 >= N THEN At("Completed", 0) ELSE At("InProgress", m.step + 1)
          ELSE IF m.step <= 1 THEN At("StepFailed", 0) ELSE At("Compensating", m.step - 1)

AfterForward(m) ==
  IF m.ok THEN IF m.step + 1 >= N THEN At("Completed", 0) ELSE At("InProgress", m.step + 1)
          ELSE IF m.step = 0 THEN At("StepFailed", 0) ELSE At("Compensating", m.step - 1)

\* Mutant: a report is taken for the step the saga is at.
CompleteStepAny(m, own_key) ==
  LET c == [m EXCEPT !.step = state[m.saga].step]
  IN  /\ m.act = "Forward"
      /\ state[m.saga].tag = "InProgress"
      /\ own_key \/ ~OnRecord(m)
      /\ Record(c, AfterForward(c))

CompleteStep(m, own_key) ==
  /\ m.act = "Forward"
  /\ ~Absent(m.saga)
  /\ m.step < N
  /\ own_key \/ ~OnRecord(m)
  /\ state[m.saga] = At("InProgress", m.step)
  /\ Record(m, AfterForward(m))

\* Mutant: a compensation that failed is passed over.
SkipFailed(m) ==
  IF m.step = 0 THEN At("Compensated", 0) ELSE At("Compensating", m.step - 1)

AfterCompensation(m) ==
  IF m.ok THEN IF m.step = 0 THEN At("Compensated", 0) ELSE At("Compensating", m.step - 1)
          ELSE At("CompensationFailed", 0)

CompleteCompensation(m, own_key) ==
  /\ m.act = "Compensate"
  /\ ~Absent(m.saga)
  /\ m.step < N
  /\ own_key \/ ~OnRecord(m)
  /\ state[m.saga] = At("Compensating", m.step)
  /\ Record(m, AfterCompensation(m))

\* Mutant: sagas that compensate go on in the new epoch.
AdvanceEpochForward(e) ==
  /\ state' = [s \in Sagas |-> IF s \in Active /\ epoch[s] # e /\ state[s].tag # "Compensating"
                                 THEN At("EpochInvalidated", 0) ELSE state[s]]
  /\ current_epoch' = IF e > current_epoch THEN e ELSE current_epoch
  /\ UNCHANGED <<epoch, records, world>>

\* An older epoch does not set the epoch back, but it too fails the sagas.
AdvanceEpoch(e) ==
  /\ state' = [s \in Sagas |-> IF s \in Active /\ epoch[s] # e
                                 THEN At("EpochInvalidated", 0) ELSE state[s]]
  /\ current_epoch' = IF e > current_epoch THEN e ELSE current_epoch
  /\ UNCHANGED <<epoch, records, world>>

\* The sagas older than some tick: any of the terminal ones.
GcTerminal(S) ==
  /\ S \subseteq {s \in Sagas : Terminal(s)}
  /\ state' = [s \in Sagas |-> IF s \in S THEN At("Gone", 0) ELSE state[s]]
  /\ records' = [s \in Sagas |-> IF s \in S THEN {} ELSE records[s]]
  /\ UNCHANGED <<epoch, current_epoch, world>>

\* The calls that carry a saga on, and those that may come in between.
Pick(s) == \E w \in Workers : BeginStep(w, s) \/ NextCompensationStep(w, s)
Work(s) == \E w \in Workers : job[w].saga = s /\ \E ok \in BOOLEAN : Perform(w, ok)
HandIn(s) == \E m \in reports, own_key \in BOOLEAN :
               m.saga = s /\ (CompleteStep(m, own_key) \/ CompleteCompensation(m, own_key))

Next == \/ \E s \in Sagas : CreateSaga(s) \/ Pick(s) \/ Work(s) \/ HandIn(s)
        \/ \E w \in Workers, happened \in BOOLEAN : Crash(w, happened)
        \/ \E e \in Epochs : AdvanceEpoch(e)
        \/ \E S \in SUBSET Sagas : GcTerminal(S)

Spec == Init /\ [][Next]_vars

\* The driver of the sagas keeps asking for the next action of each, workers
\* do not crash every time, and a report that matters is handed in some time.
Fairness == \A s \in Sagas : SF_vars(Pick(s)) /\ SF_vars(Work(s)) /\ WF_vars(HandIn(s))
FairSpec == Spec /\ Fairness
-----------------------------------------------------------------------------
Recorded(s, act) == {i \in Steps : [act |-> act, step |-> i, ok |-> TRUE] \in records[s]}
Outstanding(s) == Recorded(s, "Forward") \ Recorded(s, "Compensate")

Tags == {"Absent", "Pending", "InProgress", "Compensating", "Completed", "Gone"} \cup Failures
Jobs == [saga : Sagas, act : Acts, step : Steps]

TypeOK ==
  /\ state \in [Sagas -> [tag : Tags, step : Steps]]
  /\ epoch \in [Sagas -> Epochs]
  /\ records \in [Sagas -> SUBSET [act : Acts, step : Steps, ok : BOOLEAN]]
  /\ current_epoch \in Epochs
  /\ job \in [Workers -> Jobs \cup {Idle}]
  /\ reports \subseteq [saga : Sagas, act : Acts, step : Steps, ok : BOOLEAN]
  /\ applied \in [Sagas -> SUBSET Steps]
  /\ undone \in [Sagas -> SUBSET Steps]

\* A saga that has not ended belongs to the current epoch, whatever order
\* creation, reports and epoch changes come in: begin_step's EpochMismatch
\* answer (line 479) is never given, and no compensation crosses an epoch.
ActiveInEpoch == \A s \in Active : epoch[s] = current_epoch

\* A saga is reported Completed only when the forward action of every step
\* really took effect and no compensation was ever carried out, although
\* steps are carried out by several workers and reports come late or twice.
CompletedIsApplied ==
  \A s \in Sagas : state[s].tag = "Completed" => applied[s] = Steps /\ undone[s] = {}

\* Compensation is real and runs in reverse order: "compensated" means that
\* every step on record as done was really undone; and when a step has been
\* undone, it and every later step on record had been done, and the later ones
\* are undone as well.
CompensationIsReal ==
  \A s \in Sagas : ~Absent(s) =>
    /\ state[s].tag = "Compensated" => Recorded(s, "Forward") \subseteq undone[s]
    /\ \A i \in undone[s] :
         /\ i \in Recorded(s, "Forward")
         /\ \A j \in Recorded(s, "Forward") : j > i => j \in undone[s]

\* Every saga that was created ends, by success, compensation or failure.
SagasEnd == \A s \in Sagas : s \in Active ~> s \notin Active

\* The orchestrator's books implement the undo stack.
Phase(s) == CASE state[s].tag = "Absent" -> "none"
              [] state[s].tag \in {"Pending", "InProgress"} -> "forward"
              [] state[s].tag = "Compensating" -> "undoing"
              [] state[s].tag = "Completed" -> "committed"
              [] state[s].tag \in {"StepFailed", "Compensated"} -> "undone"
              [] state[s].tag \in {"CompensationFailed", "EpochInvalidated"} -> "abandoned"
              [] state[s].tag = "Gone" -> "forgotten"

Undo == INSTANCE UndoStack WITH phase <- [s \in Sagas |-> Phase(s)],
                                stack <- [s \in Sagas |-> Outstanding(s)]

\* Steps are done and undone one at a time and in order, a saga commits only
\* with all of them done and counts as undone only with none outstanding.
UndoStackSpec == Undo!Spec
=============================================================================
