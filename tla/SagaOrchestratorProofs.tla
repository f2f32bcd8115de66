----------------------- MODULE SagaOrchestratorProofs -----------------------
(***************************************************************************)
(* Proofs about the saga orchestrator, for any set of sagas, any number of *)
(* steps, any workers and any sequence of epochs.                          *)
(***************************************************************************)
EXTENDS SagaOrchestrator, TLAPS

\* A report of success was made after the action took effect.
ReportsAreTrue ==
  \A m \in reports : m.ok =>
    /\ m.act = "Forward" => m.step \in applied[m.saga]
    /\ m.act = "Compensate" => m.step \in undone[m.saga]

\* So a step on record as done, or undone, was.
RecordsAreTrue ==
  \A s \in Sagas : /\ Recorded(s, "Forward") \subseteq applied[s]
                   /\ Recorded(s, "Compensate") \subseteq undone[s]

\* A saga going forward has on record exactly the steps before the current one.
ForwardBooks ==
  \A s \in Sagas :
    /\ state[s].tag \in {"Absent", "Pending"} => state[s].step = 0
    /\ state[s].tag \in {"Absent", "Pending", "InProgress"} =>
         \A i \in Steps : i \in Recorded(s, "Forward") <=> i < state[s].step
    /\ state[s].tag = "Completed" => Recorded(s, "Forward") = Steps

\* Nothing is undone before compensation has begun, or after success.
NothingUndone ==
  \A s \in Sagas :
    state[s].tag \in {"Absent", "Pending", "InProgress", "Completed"} => undone[s] = {}

\* A compensating saga has outstanding exactly the steps up to the current one.
UndoBooks ==
  \A s \in Sagas : state[s].tag = "Compensating" =>
    \A i \in Steps : i \in Outstanding(s) <=> i <= state[s].step

\* Whoever undoes a step was told to when the later ones had been undone.
MayUndo(s, i) ==
  /\ state[s].tag \notin {"Absent", "Pending", "InProgress", "Completed"}
  /\ ~Absent(s) => /\ i \in Recorded(s, "Forward")
                   /\ \A k \in Recorded(s, "Forward") : k > i => k \in undone[s]

Undoing(s, i) == [saga |-> s, act |-> "Compensate", step |-> i]

CompensationJobs ==
  \A w \in Workers, s \in Sagas, i \in Steps : job[w] = Undoing(s, i) => MayUndo(s, i)

IInv == /\ TypeOK
        /\ ActiveInEpoch
        /\ ReportsAreTrue
        /\ RecordsAreTrue
        /\ ForwardBooks
        /\ NothingUndone
        /\ UndoBooks
        /\ CompensationJobs
        /\ CompensationIsReal
-----------------------------------------------------------------------------
Reports == [saga : Sagas, act : Acts, step : Steps, ok : BOOLEAN]

LEMMA StepsFacts == 0 \in Steps /\ Steps \subseteq Nat /\ N \in Nat /\ N - 1 \in Steps
BY NPositive DEF Steps

\* Record changes the saga of the report and nothing else.
LEMMA RecordEffect ==
  ASSUME TypeOK, NEW m \in Reports, NEW st \in [tag : Tags, step : Steps], Record(m, st)
  PROVE  /\ TypeOK'
         /\ state'[m.saga] = st
         /\ \A s \in Sagas \ {m.saga} : state'[s] = state[s]
         /\ \A s \in Sagas \ {m.saga}, a \in Acts : Recorded(s, a)' = Recorded(s, a)
         /\ \A a \in Acts : Recorded(m.saga, a)' =
              IF m.ok /\ m.act = a THEN Recorded(m.saga, a) \cup {m.step} ELSE Recorded(m.saga, a)
         /\ UNCHANGED <<epoch, current_epoch, job, reports, applied, undone>>
<1> DEFINE r == [act |-> m.act, step |-> m.step, ok |-> m.ok]
<1>0. m.saga \in Sagas /\ m.act \in Acts /\ m.step \in Steps /\ m.ok \in BOOLEAN
  BY Zenon DEF Reports
<1>1. UNCHANGED <<epoch, current_epoch, job, reports, applied, undone>>
  BY Zenon DEF Record, world
<1>2. /\ state' = [state EXCEPT ![m.saga] = st]
      /\ records' = [records EXCEPT ![m.saga] = @ \cup {r}]
  BY Zenon DEF Record
<1>3. state' \in [Sagas -> [tag : Tags, step : Steps]]
  BY <1>0, <1>2, Zenon DEF TypeOK
<1>4. r \in [act : Acts, step : Steps, ok : BOOLEAN]
  BY <1>0, Zenon
<1>5. records' \in [Sagas -> SUBSET [act : Acts, step : Steps, ok : BOOLEAN]]
  BY <1>0, <1>2, <1>4, Zenon DEF TypeOK
<1>6. TypeOK'
  BY <1>1, <1>3, <1>5, Zenon DEF TypeOK
<1>7. /\ state'[m.saga] = st
      /\ \A s \in Sagas \ {m.saga} : state'[s] = state[s]
  BY <1>0, <1>2, Zenon DEF TypeOK
<1>8. /\ records'[m.saga] = records[m.saga] \cup {r}
      /\ \A s \in Sagas \ {m.saga} : records'[s] = records[s]
  BY <1>0, <1>2, Zenon DEF TypeOK
<1>9. \A s \in Sagas \ {m.saga}, a \in Acts : Recorded(s, a)' = Recorded(s, a)
  BY <1>8, Zenon DEF Recorded
<1>10. ASSUME NEW a \in Acts
       PROVE  Recorded(m.saga, a)' =
                IF m.ok /\ m.act = a THEN Recorded(m.saga, a) \cup {m.step} ELSE Recorded(m.saga, a)
  <2>1. ASSUME NEW i \in Steps
        PROVE  [act |-> a, step |-> i, ok |-> TRUE] = r <=> m.act = a /\ m.step = i /\ m.ok
    BY <1>0, Zenon
  <2>2. QED
    BY <2>1, <1>8, <1>0, Zenon DEF Recorded
<1>11. QED
  BY <1>1, <1>6, <1>7, <1>9, <1>10, Zenon

LEMMA AfterTypes ==
  ASSUME NEW m \in Reports
  PROVE  AfterForward(m) \in [tag : Tags, step : Steps] /\ AfterCompensation(m) \in [tag : Tags, step : Steps]
<1>1. m.step \in Steps
  BY Zenon DEF Reports
<1>2. \A t \in Tags, i \in Steps : At(t, i) \in [tag : Tags, step : Steps]
  BY Zenon DEF At
<1>3. {"Completed", "InProgress", "StepFailed", "Compensating", "Compensated", "CompensationFailed"} \subseteq Tags
  BY Zenon DEF Tags, Failures
<1>4. /\ m.step + 1 < N => m.step + 1 \in Steps
      /\ m.step # 0 => m.step - 1 \in Steps
      /\ 0 \in Steps
  BY <1>1, NPositive DEF Steps
<1>5. ~(m.step + 1 >= N) => m.step + 1 < N
  BY <1>1, NPositive DEF Steps
<1>6. QED
  BY <1>2, <1>3, <1>4, <1>5, Zenon DEF AfterForward, AfterCompensation

LEMMA JobTypes ==
  ASSUME TypeOK, NEW w \in Workers, job[w] # Idle
  PROVE  job[w] \in Jobs /\ job[w].saga \in Sagas /\ job[w].act \in Acts /\ job[w].step \in Steps
BY Zenon DEF TypeOK, Jobs

LEMMA UndoingIsBusy ==
  \A s, i : Undoing(s, i) # Idle /\ Undoing(s, i).act = "Compensate"
           /\ Undoing(s, i).saga = s /\ Undoing(s, i).step = i
BY Zenon DEF Idle, Undoing

LEMMA CreateInv ==
  ASSUME IInv, NEW s \in Sagas, CreateSaga(s)
  PROVE  IInv'
<1> DEFINE St == [tag : Tags, step : Steps]
<1>0. TypeOK
  BY Zenon DEF IInv
<1>1. /\ state[s].tag = "Absent"
      /\ state' = [state EXCEPT ![s] = At("Pending", 0)]
      /\ epoch' = [epoch EXCEPT ![s] = current_epoch]
      /\ UNCHANGED <<records, current_epoch, job, reports, applied, undone>>
  BY Zenon DEF CreateSaga, world
<1>2. At("Pending", 0) \in St
  BY StepsFacts, Zenon DEF At, Tags
<1>3. TypeOK'
  <2>1. state' \in [Sagas -> St]
    BY <1>0, <1>1, <1>2, Zenon DEF TypeOK
  <2>2. epoch' \in [Sagas -> Epochs]
    BY <1>0, <1>1, Zenon DEF TypeOK
  <2>3. QED
    BY <1>0, <1>1, <2>1, <2>2, Zenon DEF TypeOK
<1>4. /\ state'[s].tag = "Pending" /\ state'[s].step = 0
      /\ \A t \in Sagas \ {s} : state'[t] = state[t] /\ epoch'[t] = epoch[t]
      /\ epoch'[s] = current_epoch
  BY <1>0, <1>1, Zenon DEF TypeOK, At
<1>5. \A t \in Sagas : Recorded(t, "Forward")' = Recorded(t, "Forward")
                     /\ Recorded(t, "Compensate")' = Recorded(t, "Compensate")
                     /\ Outstanding(t)' = Outstanding(t)
  BY <1>1, Zenon DEF Recorded, Outstanding
<1>6. ActiveInEpoch'
  BY <1>1, <1>4, Zenon DEF IInv, ActiveInEpoch, Active, Terminal, Absent
<1>7. ReportsAreTrue' /\ RecordsAreTrue'
  BY <1>1, <1>5, Zenon DEF IInv, ReportsAreTrue, RecordsAreTrue
<1>8. ForwardBooks'
  BY <1>1, <1>4, <1>5 DEF IInv, ForwardBooks
<1>9. NothingUndone' /\ UndoBooks'
  BY <1>1, <1>4, <1>5, Zenon DEF IInv, NothingUndone, UndoBooks
<1>10. CompensationJobs'
  <2> SUFFICES ASSUME NEW w \in Workers, NEW t \in Sagas, NEW i \in Steps, job[w] = Undoing(t, i)
               PROVE  MayUndo(t, i)'
    BY <1>1, Zenon DEF CompensationJobs
  <2>1. MayUndo(t, i)
    BY Zenon DEF IInv, CompensationJobs
  <2>2. t # s
    BY <1>1, <2>1, Zenon DEF MayUndo
  <2>3. QED
    BY <1>1, <1>4, <1>5, <2>1, <2>2, Zenon DEF MayUndo, Absent
<1>11. CompensationIsReal'
  BY <1>1, <1>4, <1>5 DEF IInv, CompensationIsReal, Absent, NothingUndone
<1>12. QED
  BY <1>3, <1>6, <1>7, <1>8, <1>9, <1>10, <1>11, Zenon DEF IInv

LEMMA BeginInv ==
  ASSUME IInv, NEW s \in Sagas, NEW w \in Workers, BeginStep(w, s)
  PROVE  IInv'
<1> DEFINE St == [tag : Tags, step : Steps]
           j == [saga |-> s, act |-> "Forward", step |-> state[s].step]
<1>0. TypeOK
  BY Zenon DEF IInv
<1>1. /\ state[s].tag \in {"Pending", "InProgress"}
      /\ state' = [state EXCEPT ![s] = At("InProgress", state[s].step)]
      /\ job' = [job EXCEPT ![w] = j]
      /\ UNCHANGED <<epoch, records, current_epoch, reports, applied, undone>>
  BY Zenon DEF BeginStep
<1>2. state[s].step \in Steps
  BY <1>0, Zenon DEF TypeOK
<1>3. TypeOK'
  <2>1. At("InProgress", state[s].step) \in St
    BY <1>2, Zenon DEF At, Tags
  <2>2. state' \in [Sagas -> St]
    BY <1>0, <1>1, <2>1, Zenon DEF TypeOK
  <2>3. j \in Jobs
    BY <1>2, Zenon DEF Jobs, Acts
  <2>4. job' \in [Workers -> Jobs \cup {Idle}]
    BY <1>0, <1>1, <2>3, Zenon DEF TypeOK
  <2>5. QED
    BY <1>0, <1>1, <2>2, <2>4, Zenon DEF TypeOK
<1>4. /\ state'[s].tag = "InProgress" /\ state'[s].step = state[s].step
      /\ \A t \in Sagas \ {s} : state'[t] = state[t]
      /\ job'[w] = j /\ \A v \in Workers \ {w} : job'[v] = job[v]
  BY <1>0, <1>1, Zenon DEF TypeOK, At
<1>5. \A t \in Sagas : Recorded(t, "Forward")' = Recorded(t, "Forward")
                     /\ Recorded(t, "Compensate")' = Recorded(t, "Compensate")
                     /\ Outstanding(t)' = Outstanding(t)
  BY <1>1, Zenon DEF Recorded, Outstanding
<1>6. ActiveInEpoch'
  BY <1>1, <1>4, Zenon DEF IInv, ActiveInEpoch, Active, Terminal, Absent, Failures
<1>7. ReportsAreTrue' /\ RecordsAreTrue'
  BY <1>1, <1>5, Zenon DEF IInv, ReportsAreTrue, RecordsAreTrue
<1>8. ForwardBooks'
  BY <1>1, <1>4, <1>5 DEF IInv, ForwardBooks
<1>9. NothingUndone' /\ UndoBooks'
  BY <1>1, <1>4, <1>5 DEF IInv, NothingUndone, UndoBooks
<1>10. CompensationJobs'
  <2> SUFFICES ASSUME NEW v \in Workers, NEW t \in Sagas, NEW i \in Steps, job'[v] = Undoing(t, i)
               PROVE  MayUndo(t, i)'
    BY Zenon DEF CompensationJobs
  <2>1. job[v] = Undoing(t, i)
    BY <1>4, UndoingIsBusy
  <2>2. MayUndo(t, i)
    BY <2>1, Zenon DEF IInv, CompensationJobs
  <2>3. t # s
    BY <1>1, <2>2, Zenon DEF MayUndo
  <2>4. QED
    BY <1>1, <1>4, <1>5, <2>2, <2>3, Zenon DEF MayUndo, Absent
<1>11. CompensationIsReal'
  BY <1>1, <1>4, <1>5 DEF IInv, CompensationIsReal, Absent, NothingUndone
<1>12. QED
  BY <1>3, <1>6, <1>7, <1>8, <1>9, <1>10, <1>11, Zenon DEF IInv

LEMMA NextCompensationInv ==
  ASSUME IInv, NEW s \in Sagas, NEW w \in Workers, NextCompensationStep(w, s)
  PROVE  IInv'
<1>0. TypeOK
  BY Zenon DEF IInv
<1>2. PICK k \in Steps : k = state[s].step /\ k \in Nat
  BY <1>0, StepsFacts, Zenon DEF TypeOK
<1>1. /\ state[s].tag = "Compensating"
      /\ job' = [job EXCEPT ![w] = Undoing(s, k)]
      /\ UNCHANGED <<state, epoch, records, current_epoch, reports, applied, undone>>
  BY <1>2, Zenon DEF NextCompensationStep, orchestrator, Undoing
<1>3. TypeOK'
  <2>1. Undoing(s, k) \in Jobs
    BY <1>2, Zenon DEF Undoing, Jobs, Acts
  <2>2. job' \in [Workers -> Jobs \cup {Idle}]
    BY <1>0, <1>1, <2>1, Zenon DEF TypeOK
  <2>3. QED
    BY <1>0, <1>1, <2>2, Zenon DEF TypeOK
<1>4. \A v \in Workers : job'[v] = job[v] \/ job'[v] = Undoing(s, k)
  BY <1>0, <1>1, Zenon DEF TypeOK
<1>5. \A t \in Sagas : Recorded(t, "Forward")' = Recorded(t, "Forward")
                     /\ Recorded(t, "Compensate")' = Recorded(t, "Compensate")
                     /\ Outstanding(t)' = Outstanding(t)
  BY <1>1, Zenon DEF Recorded, Outstanding
<1>6. MayUndo(s, k)
  <2>1. \A i \in Steps : i \in Outstanding(s) <=> i <= k
    BY <1>1, <1>2, Zenon DEF IInv, UndoBooks
  <2>2. k \in Recorded(s, "Forward")
    BY <1>2, <2>1 DEF Outstanding
  <2>3. ASSUME NEW i \in Recorded(s, "Forward"), i > k
        PROVE  i \in undone[s]
    <3>0. i \in Steps /\ i \in Nat
      BY StepsFacts, Zenon DEF Recorded
    <3>1. ~(i <= k)
      BY <1>2, <2>3, <3>0
    <3>2. i \in Recorded(s, "Compensate")
      BY <2>1, <3>0, <3>1, Zenon DEF Outstanding
    <3>3. QED
      BY <3>2, Zenon DEF IInv, RecordsAreTrue
  <2>4. QED
    BY <1>1, <2>2, <2>3, Zenon DEF MayUndo
<1>7. CompensationJobs'
  <2> SUFFICES ASSUME NEW v \in Workers, NEW t \in Sagas, NEW i \in Steps, job'[v] = Undoing(t, i)
               PROVE  MayUndo(t, i)'
    BY Zenon DEF CompensationJobs
  <2>1. MayUndo(t, i)
    <3>1. CASE job'[v] = job[v]
      BY <3>1, Zenon DEF IInv, CompensationJobs
    <3>2. CASE job'[v] = Undoing(s, k)
      <4>1. t = s /\ i = k
        BY <3>2 DEF Undoing
      <4>2. QED
        BY <4>1, <1>6, Zenon
    <3>3. QED
      BY <1>4, <3>1, <3>2, Zenon
  <2>2. QED
    BY <1>1, <1>5, <2>1, Zenon DEF MayUndo, Absent
<1>8. ActiveInEpoch'
  BY <1>1, Zenon DEF IInv, ActiveInEpoch, Active, Terminal, Absent
<1>9. ReportsAreTrue' /\ RecordsAreTrue' /\ ForwardBooks' /\ NothingUndone' /\ UndoBooks'
  BY <1>1, <1>5 DEF IInv, ReportsAreTrue, RecordsAreTrue, ForwardBooks, NothingUndone,
     UndoBooks
<1>10. CompensationIsReal'
  BY <1>1, <1>5, Zenon DEF IInv, CompensationIsReal, Absent
<1>11. QED
  BY <1>3, <1>7, <1>8, <1>9, <1>10, Zenon DEF IInv

\* What the end of a job does, whether or not its report is made.
LEMMA EffectInv ==
  ASSUME IInv, NEW w \in Workers, job[w] # Idle,
         TakesEffect(job[w]) \/ UNCHANGED <<applied, undone>>,
         job' = [job EXCEPT ![w] = Idle], UNCHANGED orchestrator
  PROVE  /\ applied' \in [Sagas -> SUBSET Steps] /\ undone' \in [Sagas -> SUBSET Steps]
         /\ job' \in [Workers -> Jobs \cup {Idle}]
         /\ \A s \in Sagas : applied[s] \subseteq applied'[s] /\ undone[s] \subseteq undone'[s]
         /\ ActiveInEpoch' /\ RecordsAreTrue' /\ ForwardBooks' /\ NothingUndone' /\ UndoBooks'
         /\ CompensationJobs' /\ CompensationIsReal'
<1>0. TypeOK
  BY Zenon DEF IInv
<1>1. PICK s \in Sagas, a \in Acts, i \in Steps :
        job[w] = [saga |-> s, act |-> a, step |-> i] /\ i \in Nat
  BY <1>0, JobTypes, StepsFacts, Zenon DEF Jobs
<1>2. UNCHANGED <<state, epoch, records, current_epoch>>
  BY Zenon DEF orchestrator
<1>3. /\ applied' = applied \/ applied' = [applied EXCEPT ![s] = @ \cup {i}]
      /\ undone' = undone \/ (a = "Compensate" /\ undone' = [undone EXCEPT ![s] = @ \cup {i}])
  BY <1>1 DEF TakesEffect
<1>4. applied' \in [Sagas -> SUBSET Steps] /\ undone' \in [Sagas -> SUBSET Steps]
  BY <1>0, <1>3 DEF TypeOK
<1>5. job' \in [Workers -> Jobs \cup {Idle}]
  BY <1>0, Zenon DEF TypeOK
<1>6. \A t \in Sagas : applied[t] \subseteq applied'[t] /\ undone[t] \subseteq undone'[t]
  BY <1>0, <1>3, Zenon DEF TypeOK
<1>7. \A t \in Sagas : Recorded(t, "Forward")' = Recorded(t, "Forward")
                     /\ Recorded(t, "Compensate")' = Recorded(t, "Compensate")
                     /\ Outstanding(t)' = Outstanding(t)
  BY <1>2, Zenon DEF Recorded, Outstanding
<1>8. undone' = undone \/ (MayUndo(s, i) /\ undone' = [undone EXCEPT ![s] = @ \cup {i}])
  <2>1. ASSUME a = "Compensate"
        PROVE  MayUndo(s, i)
    BY <1>1, <2>1, Zenon DEF IInv, CompensationJobs, Undoing
  <2>2. QED
    BY <1>3, <2>1, Zenon
<1>9. ActiveInEpoch'
  BY <1>2, Zenon DEF IInv, ActiveInEpoch, Active, Terminal, Absent
<1>10. RecordsAreTrue'
  BY <1>6, <1>7, Zenon DEF IInv, RecordsAreTrue
<1>11. ForwardBooks' /\ UndoBooks'
  BY <1>2, <1>7, Zenon DEF IInv, ForwardBooks, UndoBooks
<1>12. NothingUndone'
  BY <1>0, <1>2, <1>8, Zenon DEF IInv, NothingUndone, MayUndo, TypeOK
<1>13. CompensationJobs'
  <2> SUFFICES ASSUME NEW v \in Workers, NEW t \in Sagas, NEW k \in Steps, job'[v] = Undoing(t, k)
               PROVE  MayUndo(t, k)'
    BY Zenon DEF CompensationJobs
  <2>1. job[v] = Undoing(t, k)
    BY <1>0, UndoingIsBusy, Zenon DEF TypeOK
  <2>2. MayUndo(t, k)
    BY <2>1, Zenon DEF IInv, CompensationJobs
  <2>3. QED
    BY <1>2, <1>6, <1>7, <2>2, Zenon DEF MayUndo, Absent
<1>14. CompensationIsReal'
  <2> SUFFICES ASSUME NEW t \in Sagas, ~Absent(t)
               PROVE  /\ state[t].tag = "Compensated" => Recorded(t, "Forward") \subseteq undone'[t]
                      /\ \A k \in undone'[t] :
                           /\ k \in Recorded(t, "Forward")
                           /\ \A j \in Recorded(t, "Forward") : j > k => j \in undone'[t]
    BY <1>2, <1>7, Zenon DEF CompensationIsReal, Absent
  <2>1. /\ state[t].tag = "Compensated" => Recorded(t, "Forward") \subseteq undone[t]
        /\ \A k \in undone[t] :
             /\ k \in Recorded(t, "Forward")
             /\ \A j \in Recorded(t, "Forward") : j > k => j \in undone[t]
    BY Zenon DEF IInv, CompensationIsReal
  <2>2. ASSUME NEW k \in undone'[t], k \notin undone[t]
        PROVE  MayUndo(t, k)
    BY <1>0, <1>8, <2>2 DEF TypeOK
  <2>3. QED
    BY <1>6, <2>1, <2>2, Zenon DEF MayUndo
<1>15. QED
  BY <1>4, <1>5, <1>6, <1>9, <1>10, <1>11, <1>12, <1>13, <1>14, Zenon

LEMMA PerformInv ==
  ASSUME IInv, NEW w \in Workers, NEW ok \in BOOLEAN, Perform(w, ok)
  PROVE  IInv'
<1> DEFINE m == [saga |-> job[w].saga, act |-> job[w].act, step |-> job[w].step, ok |-> ok]
<1>0. TypeOK
  BY Zenon DEF IInv
<1>1. /\ job[w] # Idle
      /\ IF ok THEN TakesEffect(job[w]) ELSE UNCHANGED <<applied, undone>>
      /\ reports' = reports \cup {m}
      /\ job' = [job EXCEPT ![w] = Idle]
      /\ UNCHANGED orchestrator
  BY Zenon DEF Perform
<1>2. /\ applied' \in [Sagas -> SUBSET Steps] /\ undone' \in [Sagas -> SUBSET Steps]
      /\ job' \in [Workers -> Jobs \cup {Idle}]
      /\ \A s \in Sagas : applied[s] \subseteq applied'[s] /\ undone[s] \subseteq undone'[s]
      /\ ActiveInEpoch' /\ RecordsAreTrue' /\ ForwardBooks' /\ NothingUndone' /\ UndoBooks'
      /\ CompensationJobs' /\ CompensationIsReal'
  BY <1>1, EffectInv, Zenon
<1>3. m \in Reports /\ m.saga \in Sagas /\ m.step \in Steps
  BY <1>0, <1>1, JobTypes, Zenon DEF Reports
<1>4. TypeOK'
  BY <1>0, <1>1, <1>2, <1>3, Zenon DEF TypeOK, orchestrator, Reports
<1>5. m.ok => /\ m.act = "Forward" => m.step \in applied'[m.saga]
              /\ m.act = "Compensate" => m.step \in undone'[m.saga]
  BY <1>0, <1>1, <1>3 DEF TakesEffect, TypeOK
<1>6. ReportsAreTrue'
  <2> SUFFICES ASSUME NEW r \in reports', r.ok
               PROVE  /\ r.act = "Forward" => r.step \in applied'[r.saga]
                      /\ r.act = "Compensate" => r.step \in undone'[r.saga]
    BY Zenon DEF ReportsAreTrue
  <2>1. CASE r = m
    BY <1>5, <2>1, Zenon
  <2>2. CASE r \in reports
    <3>1. r.saga \in Sagas
      BY <1>0, <2>2, Zenon DEF TypeOK
    <3>2. /\ r.act = "Forward" => r.step \in applied[r.saga]
          /\ r.act = "Compensate" => r.step \in undone[r.saga]
      BY <2>2, Zenon DEF IInv, ReportsAreTrue
    <3>3. QED
      BY <1>2, <3>1, <3>2, Zenon
  <2>3. QED
    BY <1>1, <2>1, <2>2, Zenon
<1>7. QED
  BY <1>2, <1>4, <1>6, Zenon DEF IInv

LEMMA CrashInv ==
  ASSUME IInv, NEW w \in Workers, NEW happened \in BOOLEAN, Crash(w, happened)
  PROVE  IInv'
<1>0. TypeOK
  BY Zenon DEF IInv
<1>1. /\ job[w] # Idle
      /\ IF happened THEN TakesEffect(job[w]) ELSE UNCHANGED <<applied, undone>>
      /\ reports' = reports
      /\ job' = [job EXCEPT ![w] = Idle]
      /\ UNCHANGED orchestrator
  BY Zenon DEF Crash
<1>2. /\ applied' \in [Sagas -> SUBSET Steps] /\ undone' \in [Sagas -> SUBSET Steps]
      /\ job' \in [Workers -> Jobs \cup {Idle}]
      /\ \A s \in Sagas : applied[s] \subseteq applied'[s] /\ undone[s] \subseteq undone'[s]
      /\ ActiveInEpoch' /\ RecordsAreTrue' /\ ForwardBooks' /\ NothingUndone' /\ UndoBooks'
      /\ CompensationJobs' /\ CompensationIsReal'
  BY <1>1, EffectInv, Zenon
<1>3. TypeOK'
  BY <1>0, <1>1, <1>2, Zenon DEF TypeOK, orchestrator
<1>4. \A r \in reports : r.saga \in Sagas
  BY <1>0, Zenon DEF TypeOK
<1>5. ReportsAreTrue'
  BY <1>1, <1>2, <1>4, Zenon DEF IInv, ReportsAreTrue
<1>6. QED
  BY <1>2, <1>3, <1>5, Zenon DEF IInv

LEMMA CompleteStepInv ==
  ASSUME IInv, NEW m \in reports, NEW own_key \in BOOLEAN, CompleteStep(m, own_key)
  PROVE  IInv'
<1> DEFINE s == m.saga
           k == m.step
           st == AfterForward(m)
<1>0. TypeOK /\ m \in Reports
  BY Zenon DEF IInv, TypeOK, Reports
<1>1. /\ s \in Sagas /\ k \in Steps /\ k \in Nat /\ k < N /\ N \in Nat /\ m.ok \in BOOLEAN
  BY <1>0, StepsFacts, NPositive DEF Reports, Steps
<1>2. /\ m.act = "Forward"
      /\ state[s].tag = "InProgress" /\ state[s].step = k
      /\ Record(m, st)
  BY DEF CompleteStep, At
<1>3. /\ TypeOK'
      /\ state'[s] = st
      /\ \A t \in Sagas \ {s} : state'[t] = state[t]
      /\ \A t \in Sagas \ {s}, a \in Acts : Recorded(t, a)' = Recorded(t, a)
      /\ \A a \in Acts : Recorded(s, a)' =
           IF m.ok /\ m.act = a THEN Recorded(s, a) \cup {k} ELSE Recorded(s, a)
      /\ UNCHANGED <<epoch, current_epoch, job, reports, applied, undone>>
  BY <1>0, <1>2, AfterTypes, RecordEffect, Zenon
<1>4. /\ \A t \in Sagas : Recorded(t, "Compensate")' = Recorded(t, "Compensate")
      /\ \A t \in Sagas \ {s} : Recorded(t, "Forward")' = Recorded(t, "Forward")
      /\ Recorded(s, "Forward")' = IF m.ok THEN Recorded(s, "Forward") \cup {k} ELSE Recorded(s, "Forward")
  BY <1>2, <1>3, Zenon DEF Acts
<1>5. /\ m.ok /\ k + 1 >= N => st.tag = "Completed"
      /\ m.ok /\ ~(k + 1 >= N) => st.tag = "InProgress" /\ st.step = k + 1
      /\ ~m.ok /\ k = 0 => st.tag = "StepFailed"
      /\ ~m.ok /\ k # 0 => st.tag = "Compensating" /\ st.step = k - 1
  BY Zenon DEF AfterForward, At
<1>6. /\ \A i \in Steps : i \in Recorded(s, "Forward") <=> i < k
      /\ undone[s] = {} /\ Recorded(s, "Compensate") = {}
  BY <1>1, <1>2, Zenon DEF IInv, ForwardBooks, NothingUndone, RecordsAreTrue
<1>7. ActiveInEpoch'
  <2>1. s \in Active
    BY <1>1, <1>2, Zenon DEF Active, Terminal, Absent, Failures
  <2>2. QED
    BY <1>3, <2>1, Zenon DEF IInv, ActiveInEpoch, Active, Terminal, Absent
<1>8. ReportsAreTrue'
  BY <1>3, Zenon DEF IInv, ReportsAreTrue
<1>9. RecordsAreTrue'
  <2>1. m.ok => k \in applied[s]
    BY <1>2, Zenon DEF IInv, ReportsAreTrue
  <2>2. QED
    BY <1>3, <1>4, <2>1, Zenon DEF IInv, RecordsAreTrue
<1>10. \A i \in Steps : i \in Nat /\ i < N
  BY StepsFacts DEF Steps
<1>11. ForwardBooks'
  <2> SUFFICES ASSUME NEW t \in Sagas
               PROVE  (/\ state[t].tag \in {"Absent", "Pending"} => state[t].step = 0
                       /\ state[t].tag \in {"Absent", "Pending", "InProgress"} =>
                            \A i \in Steps : i \in Recorded(t, "Forward") <=> i < state[t].step
                       /\ state[t].tag = "Completed" => Recorded(t, "Forward") = Steps)'
    BY Zenon DEF ForwardBooks
  <2>1. CASE t # s
    BY <1>3, <1>4, <2>1 DEF IInv, ForwardBooks
  <2>2. CASE t = s /\ m.ok
    <3>1. \A i \in Steps : i \in Recorded(s, "Forward")' <=> i < k + 1
      BY <1>1, <1>4, <1>6, <1>10, <2>2
    <3>2. Recorded(s, "Forward")' \subseteq Steps
      BY Zenon DEF Recorded
    <3>3. k + 1 >= N => Recorded(s, "Forward")' = Steps
      BY <1>1, <1>10, <3>1, <3>2
    <3>4. QED
      BY <1>3, <1>5, <2>2, <3>1, <3>3, Zenon
  <2>3. CASE t = s /\ ~m.ok
    BY <1>3, <1>5, <2>3, Zenon
  <2>4. QED
    BY <2>1, <2>2, <2>3, Zenon
<1>12. NothingUndone'
  BY <1>3, <1>6, Zenon DEF IInv, NothingUndone
<1>13. UndoBooks'
  <2>1. ASSUME ~m.ok, k # 0
        PROVE  \A i \in Steps : i \in Outstanding(s)' <=> i <= k - 1
    BY <1>1, <1>4, <1>6, <1>10, <2>1 DEF Outstanding
  <2>2. \A t \in Sagas \ {s} : Outstanding(t)' = Outstanding(t)
    BY <1>4, Zenon DEF Outstanding
  <2>3. QED
    BY <1>3, <1>5, <2>1, <2>2, Zenon DEF IInv, UndoBooks
<1>14. CompensationJobs'
  <2> SUFFICES ASSUME NEW v \in Workers, NEW t \in Sagas, NEW i \in Steps, job[v] = Undoing(t, i)
               PROVE  MayUndo(t, i)'
    BY <1>3, Zenon DEF CompensationJobs
  <2>1. MayUndo(t, i)
    BY Zenon DEF IInv, CompensationJobs
  <2>2. t # s
    BY <1>2, <2>1, Zenon DEF MayUndo
  <2>3. QED
    BY <1>3, <1>4, <2>1, <2>2, Zenon DEF MayUndo, Absent
<1>15. CompensationIsReal'
  <2>1. st.tag # "Compensated"
    BY <1>5, Zenon
  <2>2. QED
    BY <1>3, <1>4, <1>6, <2>1 DEF IInv, CompensationIsReal, Absent
<1>16. QED
  BY <1>3, <1>7, <1>8, <1>9, <1>11, <1>12, <1>13, <1>14, <1>15, Zenon DEF IInv

LEMMA CompleteCompensationInv ==
  ASSUME IInv, NEW m \in reports, NEW own_key \in BOOLEAN, CompleteCompensation(m, own_key)
  PROVE  IInv'
<1> DEFINE s == m.saga
           k == m.step
           st == AfterCompensation(m)
<1>0. TypeOK /\ m \in Reports
  BY Zenon DEF IInv, TypeOK, Reports
<1>1. s \in Sagas /\ k \in Steps /\ k \in Nat /\ m.ok \in BOOLEAN
  BY <1>0, StepsFacts, Zenon DEF Reports
<1>2. /\ m.act = "Compensate"
      /\ state[s].tag = "Compensating" /\ state[s].step = k
      /\ Record(m, st)
  BY DEF CompleteCompensation, At
<1>3. /\ TypeOK'
      /\ state'[s] = st
      /\ \A t \in Sagas \ {s} : state'[t] = state[t]
      /\ \A t \in Sagas \ {s}, a \in Acts : Recorded(t, a)' = Recorded(t, a)
      /\ \A a \in Acts : Recorded(s, a)' =
           IF m.ok /\ m.act = a THEN Recorded(s, a) \cup {k} ELSE Recorded(s, a)
      /\ UNCHANGED <<epoch, current_epoch, job, reports, applied, undone>>
  BY <1>0, <1>2, AfterTypes, RecordEffect, Zenon
<1>4. /\ \A t \in Sagas : Recorded(t, "Forward")' = Recorded(t, "Forward")
      /\ \A t \in Sagas \ {s} : Recorded(t, "Compensate")' = Recorded(t, "Compensate")
      /\ Recorded(s, "Compensate")' =
           IF m.ok THEN Recorded(s, "Compensate") \cup {k} ELSE Recorded(s, "Compensate")
  BY <1>2, <1>3, Zenon DEF Acts
<1>5. /\ m.ok /\ k = 0 => st.tag = "Compensated"
      /\ m.ok /\ k # 0 => st.tag = "Compensating" /\ st.step = k - 1
      /\ ~m.ok => st.tag = "CompensationFailed"
  BY Zenon DEF AfterCompensation, At
<1>6. m.ok => k \in undone[s]
  BY <1>2, Zenon DEF IInv, ReportsAreTrue
<1>7. \A i \in Steps : i \in Nat /\ (i \in Outstanding(s) <=> i <= k)
  BY <1>1, <1>2, StepsFacts, Zenon DEF IInv, UndoBooks
<1>8. ActiveInEpoch'
  <2>1. s \in Active
    BY <1>1, <1>2, Zenon DEF Active, Terminal, Absent, Failures
  <2>2. QED
    BY <1>3, <2>1, Zenon DEF IInv, ActiveInEpoch, Active, Terminal, Absent
<1>9. ReportsAreTrue'
  BY <1>3, Zenon DEF IInv, ReportsAreTrue
<1>10. RecordsAreTrue'
  BY <1>3, <1>4, <1>6, Zenon DEF IInv, RecordsAreTrue
<1>11. ForwardBooks' /\ NothingUndone'
  BY <1>1, <1>3, <1>4, <1>5 DEF IInv, ForwardBooks, NothingUndone
<1>12. UndoBooks'
  <2>1. ASSUME m.ok, k # 0
        PROVE  \A i \in Steps : i \in Outstanding(s)' <=> i <= k - 1
    <3>1. Outstanding(s)' = Outstanding(s) \ {k}
      BY <1>1, <1>4, <2>1, Zenon DEF Outstanding
    <3>2. QED
      BY <1>1, <1>7, <2>1, <3>1
  <2>2. \A t \in Sagas \ {s} : Outstanding(t)' = Outstanding(t)
    BY <1>4, Zenon DEF Outstanding
  <2>3. QED
    BY <1>1, <1>3, <1>5, <2>1, <2>2 DEF IInv, UndoBooks
<1>13. CompensationJobs'
  <2> SUFFICES ASSUME NEW v \in Workers, NEW t \in Sagas, NEW i \in Steps, job[v] = Undoing(t, i)
               PROVE  MayUndo(t, i)'
    BY <1>3, Zenon DEF CompensationJobs
  <2>1. MayUndo(t, i)
    BY Zenon DEF IInv, CompensationJobs
  <2>2. CASE t # s
    BY <1>3, <1>4, <2>1, <2>2, Zenon DEF MayUndo, Absent
  <2>3. CASE t = s
    BY <1>1, <1>2, <1>3, <1>4, <1>5, <2>1, <2>3, Zenon DEF MayUndo, Absent
  <2>4. QED
    BY <2>2, <2>3, Zenon
<1>14. CompensationIsReal'
  <2>1. ASSUME m.ok, k = 0
        PROVE  Recorded(s, "Forward") \subseteq undone[s]
    <3>1. \A i \in Recorded(s, "Forward") : i \in Steps /\ (i \in Outstanding(s) \/ i \in undone[s])
      BY <1>1, Zenon DEF IInv, RecordsAreTrue, Outstanding, Recorded
    <3>2. \A i \in Steps : i \in Outstanding(s) => i = k
      BY <1>1, <1>7, <2>1
    <3>3. QED
      BY <1>6, <2>1, <3>1, <3>2, Zenon
  <2>2. ~Absent(s)
    BY <1>2, Zenon DEF Absent
  <2>3. QED
    BY <1>1, <1>3, <1>4, <1>5, <2>1, <2>2 DEF IInv, CompensationIsReal, Absent
<1>15. QED
  BY <1>3, <1>8, <1>9, <1>10, <1>11, <1>12, <1>13, <1>14, Zenon DEF IInv

LEMMA AdvanceEpochInv ==
  ASSUME IInv, NEW e \in Epochs, AdvanceEpoch(e)
  PROVE  IInv'
<1> DEFINE hit(s) == s \in Active /\ epoch[s] # e
<1>0. TypeOK
  BY Zenon DEF IInv
<1>1. /\ state' = [s \in Sagas |-> IF hit(s) THEN At("EpochInvalidated", 0) ELSE state[s]]
      /\ current_epoch' = IF e > current_epoch THEN e ELSE current_epoch
      /\ UNCHANGED <<epoch, records, job, reports, applied, undone>>
  BY Zenon DEF AdvanceEpoch, world
<1>2. \A s, a : Recorded(s, a)' = Recorded(s, a)
  BY <1>1, Zenon DEF Recorded
<1>3. \A s : Outstanding(s)' = Outstanding(s)
  BY <1>2, Zenon DEF Outstanding
<1>4. /\ \A s \in Sagas : hit(s) => state'[s].tag = "EpochInvalidated"
      /\ \A s \in Sagas : ~hit(s) => state'[s] = state[s]
  BY <1>1, Zenon DEF At
<1>5. TypeOK'
  <2>1. At("EpochInvalidated", 0) \in [tag : Tags, step : Steps]
    BY StepsFacts, Zenon DEF At, Tags, Failures
  <2>2. state' \in [Sagas -> [tag : Tags, step : Steps]]
    BY <1>0, <1>1, <2>1, Zenon DEF TypeOK
  <2>3. current_epoch' \in Epochs
    BY <1>0, <1>1, Zenon DEF TypeOK
  <2>4. QED
    BY <1>0, <1>1, <2>2, <2>3, Zenon DEF TypeOK
<1>6. ActiveInEpoch'
  <2> SUFFICES ASSUME NEW s \in Active'
               PROVE  epoch'[s] = current_epoch'
    BY Zenon DEF ActiveInEpoch
  <2>1. s \in Sagas /\ ~hit(s)
    BY <1>4, Zenon DEF Active, Terminal, Failures
  <2>2. s \in Active
    BY <1>4, <2>1, Zenon DEF Active, Terminal, Absent
  <2>3. epoch[s] = e /\ epoch[s] = current_epoch
    BY <2>1, <2>2, Zenon DEF IInv, ActiveInEpoch
  <2>4. QED
    BY <1>1, <2>3, Zenon
<1>7. ReportsAreTrue' /\ RecordsAreTrue'
  BY <1>1, <1>2, Zenon DEF IInv, ReportsAreTrue, RecordsAreTrue
<1>8. ForwardBooks' /\ NothingUndone' /\ UndoBooks'
  BY <1>1, <1>2, <1>3, <1>4, Zenon DEF IInv, ForwardBooks, NothingUndone, UndoBooks
<1>9. \A s \in Sagas : Absent(s)' <=> Absent(s)
  BY <1>4, Zenon DEF Absent, Active
<1>10. CompensationJobs'
  BY <1>1, <1>2, <1>4, <1>9, Zenon DEF IInv, CompensationJobs, MayUndo
<1>11. CompensationIsReal'
  BY <1>1, <1>2, <1>4, <1>9, Zenon DEF IInv, CompensationIsReal
<1>12. QED
  BY <1>5, <1>6, <1>7, <1>8, <1>10, <1>11, Zenon DEF IInv

LEMMA GcInv ==
  ASSUME IInv, NEW S \in SUBSET Sagas, GcTerminal(S)
  PROVE  IInv'
<1>0. TypeOK
  BY Zenon DEF IInv
<1>1. /\ S \subseteq {s \in Sagas : Terminal(s)}
      /\ state' = [s \in Sagas |-> IF s \in S THEN At("Gone", 0) ELSE state[s]]
      /\ records' = [s \in Sagas |-> IF s \in S THEN {} ELSE records[s]]
      /\ UNCHANGED <<epoch, current_epoch, job, reports, applied, undone>>
  BY Zenon DEF GcTerminal, world
<1>2. /\ \A s \in S : state'[s].tag = "Gone"
      /\ \A s \in Sagas \ S : state'[s] = state[s]
  BY <1>1, Zenon DEF At
<1>3. /\ \A s \in S, a \in Acts : Recorded(s, a)' = {}
      /\ \A s \in Sagas \ S, a \in Acts : Recorded(s, a)' = Recorded(s, a)
  BY <1>1, Zenon DEF Recorded
<1>4. /\ \A s \in S : Recorded(s, "Forward")' = {} /\ Recorded(s, "Compensate")' = {}
      /\ \A s \in Sagas \ S : /\ Recorded(s, "Forward")' = Recorded(s, "Forward")
                              /\ Recorded(s, "Compensate")' = Recorded(s, "Compensate")
                              /\ Outstanding(s)' = Outstanding(s)
  BY <1>3, Zenon DEF Acts, Outstanding
<1>5. TypeOK'
  <2>1. At("Gone", 0) \in [tag : Tags, step : Steps]
    BY StepsFacts, Zenon DEF At, Tags
  <2>2. state' \in [Sagas -> [tag : Tags, step : Steps]]
    BY <1>0, <1>1, <2>1, Zenon DEF TypeOK
  <2>3. records' \in [Sagas -> SUBSET [act : Acts, step : Steps, ok : BOOLEAN]]
    BY <1>0, <1>1, Zenon DEF TypeOK
  <2>4. QED
    BY <1>0, <1>1, <2>2, <2>3, Zenon DEF TypeOK
<1>6. ActiveInEpoch'
  BY <1>1, <1>2, Zenon DEF IInv, ActiveInEpoch, Active, Terminal, Absent
<1>7. ReportsAreTrue'
  BY <1>1, Zenon DEF IInv, ReportsAreTrue
<1>8. RecordsAreTrue'
  BY <1>1, <1>4, Zenon DEF IInv, RecordsAreTrue
<1>9. ForwardBooks' /\ NothingUndone' /\ UndoBooks'
  BY <1>1, <1>2, <1>4, Zenon DEF IInv, ForwardBooks, NothingUndone, UndoBooks
<1>10. /\ \A s \in S : Absent(s)'
       /\ \A s \in Sagas \ S : Absent(s)' <=> Absent(s)
  BY <1>2, Zenon DEF Absent
<1>11. CompensationJobs'
  BY <1>1, <1>2, <1>4, <1>10, Zenon DEF IInv, CompensationJobs, MayUndo
<1>12. CompensationIsReal'
  BY <1>1, <1>2, <1>4, <1>10, Zenon DEF IInv, CompensationIsReal
<1>13. QED
  BY <1>5, <1>6, <1>7, <1>8, <1>9, <1>11, <1>12, Zenon DEF IInv

LEMMA InitInv ==
  ASSUME Init
  PROVE  IInv
<1>1. TypeOK
  BY StepsFacts, MaxEpochNat DEF Init, TypeOK, At, Tags, Epochs
<1>2. \A s \in Sagas : /\ state[s].tag = "Absent" /\ state[s].step = 0
                       /\ undone[s] = {}
                       /\ \A a \in Acts : Recorded(s, a) = {}
  BY Zenon DEF Init, At, Recorded
<1>3. ActiveInEpoch /\ ReportsAreTrue
  BY <1>2, Zenon DEF Init, ActiveInEpoch, Active, Absent, ReportsAreTrue
<1>4. \A s \in Sagas : Recorded(s, "Forward") = {} /\ Recorded(s, "Compensate") = {}
  BY <1>2, Zenon DEF Acts
<1>5. RecordsAreTrue /\ NothingUndone /\ UndoBooks /\ CompensationIsReal
  BY <1>2, <1>4, Zenon DEF RecordsAreTrue, NothingUndone, UndoBooks, CompensationIsReal
<1>6. ForwardBooks
  BY <1>2, <1>4, StepsFacts DEF ForwardBooks
<1>7. CompensationJobs
  BY Zenon DEF Init, CompensationJobs, Undoing, Idle
<1>8. QED
  BY <1>1, <1>3, <1>5, <1>6, <1>7, Zenon DEF IInv

LEMMA StutterInv ==
  ASSUME IInv, UNCHANGED vars
  PROVE  IInv'
<1>1. UNCHANGED <<state, epoch, records, current_epoch, job, reports, applied, undone>>
  BY Zenon DEF vars, orchestrator, world
<1>2. \A s, a : Recorded(s, a)' = Recorded(s, a)
  BY <1>1, Zenon DEF Recorded
<1>3. TypeOK' /\ ActiveInEpoch' /\ ReportsAreTrue' /\ NothingUndone'
  BY <1>1, Zenon DEF IInv, TypeOK, ActiveInEpoch, Active, Terminal, Absent,
     ReportsAreTrue, NothingUndone
<1>4. RecordsAreTrue' /\ ForwardBooks' /\ UndoBooks'
  BY <1>1, <1>2, Zenon DEF IInv, RecordsAreTrue, ForwardBooks, UndoBooks, Outstanding
<1>5. CompensationJobs' /\ CompensationIsReal'
  BY <1>1, <1>2, Zenon DEF IInv, CompensationJobs, MayUndo, Absent, CompensationIsReal
<1>6. QED
  BY <1>3, <1>4, <1>5, Zenon DEF IInv

\* The invariant is inductive: however calls, workers, crashes and epoch
\* changes interleave, the books of saga_orchestrator.rs and the effects in
\* the world stay related as IInv says.
THEOREM SagaInvariant == Spec => []IInv
<1>1. Init => IInv
  BY InitInv, Zenon
<1>2. IInv /\ [Next]_vars => IInv'
  <2> SUFFICES ASSUME IInv, [Next]_vars
               PROVE  IInv'
    BY Zenon
  <2>1. ASSUME NEW s \in Sagas, CreateSaga(s)
        PROVE  IInv'
    BY <2>1, CreateInv, Zenon
  <2>2. ASSUME NEW s \in Sagas, Pick(s)
        PROVE  IInv'
    BY <2>2, BeginInv, NextCompensationInv, Zenon DEF Pick
  <2>3. ASSUME NEW s \in Sagas, Work(s)
        PROVE  IInv'
    BY <2>3, PerformInv, Zenon DEF Work
  <2>4. ASSUME NEW s \in Sagas, HandIn(s)
        PROVE  IInv'
    BY <2>4, CompleteStepInv, CompleteCompensationInv, Zenon DEF HandIn
  <2>5. ASSUME NEW w \in Workers, NEW happened \in BOOLEAN, Crash(w, happened)
        PROVE  IInv'
    BY <2>5, CrashInv, Zenon
  <2>6. ASSUME NEW e \in Epochs, AdvanceEpoch(e)
        PROVE  IInv'
    BY <2>6, AdvanceEpochInv, Zenon
  <2>7. ASSUME NEW S \in SUBSET Sagas, GcTerminal(S)
        PROVE  IInv'
    BY <2>7, GcInv, Zenon
  <2>8. QED
    BY <2>1, <2>2, <2>3, <2>4, <2>5, <2>6, <2>7, StutterInv, Zenon DEF Next
<1>3. QED
  BY <1>1, <1>2, PTL DEF Spec

\* Every variable of the orchestrator and of its workers keeps its type.
THEOREM SagaTypeCorrect == Spec => []TypeOK
<1>1. IInv => TypeOK
  BY Zenon DEF IInv
<1>2. QED
  BY <1>1, SagaInvariant, PTL

\* A saga that has not ended is of the current epoch: begin_step never meets
\* the EpochMismatch it checks for, and no compensation crosses an epoch.
THEOREM SagaActiveInEpoch == Spec => []ActiveInEpoch
<1>1. IInv => ActiveInEpoch
  BY Zenon DEF IInv
<1>2. QED
  BY <1>1, SagaInvariant, PTL

\* Completed is reported only for a saga all of whose forward actions took
\* effect and none of whose compensations did (complete_step).
THEOREM SagaCompletedIsApplied == Spec => []CompletedIsApplied
<1>1. IInv => CompletedIsApplied
  <2> SUFFICES ASSUME IInv, NEW s \in Sagas, state[s].tag = "Completed"
               PROVE  applied[s] = Steps /\ undone[s] = {}
    BY Zenon DEF CompletedIsApplied
  <2>1. Steps \subseteq applied[s] /\ undone[s] = {}
    BY Zenon DEF IInv, ForwardBooks, RecordsAreTrue, NothingUndone
  <2>2. applied[s] \subseteq Steps
    BY Zenon DEF IInv, TypeOK
  <2>3. QED
    BY <2>1, <2>2, Zenon
<1>2. QED
  BY <1>1, SagaInvariant, PTL

\* Compensation undoes what is on record, the last step first, and is reported
\* as done only when it was (next_compensation_step, complete_compensation).
THEOREM SagaCompensationIsReal == Spec => []CompensationIsReal
<1>1. IInv => CompensationIsReal
  BY Zenon DEF IInv
<1>2. QED
  BY <1>1, SagaInvariant, PTL
-----------------------------------------------------------------------------
\* The books as an undo stack: every call of the orchestrator is one of its
\* steps, or none.
phases == [s \in Sagas |-> Phase(s)]
stacks == [s \in Sagas |-> Outstanding(s)]

LEMMA StackFacts ==
  ASSUME IInv, NEW s \in Sagas
  PROVE  /\ state[s].tag = "Absent" => Phase(s) = "none"
         /\ state[s].tag \in {"Pending", "InProgress"} => Phase(s) = "forward"
         /\ state[s].tag = "Compensating" => Phase(s) = "undoing"
         /\ state[s].tag = "InProgress" => Outstanding(s) = 0..state[s].step - 1
         /\ state[s].tag = "Compensating" => Outstanding(s) = 0..state[s].step
<1>1. PICK k \in Steps : k = state[s].step /\ k \in Nat /\ k < N
  BY StepsFacts DEF IInv, TypeOK, Steps
<1>2. Outstanding(s) \subseteq Steps /\ N \in Nat /\ \A i : i \in Steps <=> i \in Nat /\ i < N
  BY StepsFacts DEF Outstanding, Recorded, Steps
<1>3. ASSUME state[s].tag = "InProgress"
      PROVE  Outstanding(s) = 0..state[s].step - 1
  <2>1. Recorded(s, "Compensate") = {}
    BY <1>3, Zenon DEF IInv, RecordsAreTrue, NothingUndone
  <2>2. \A i \in Steps : i \in Outstanding(s) <=> i < k
    BY <1>1, <1>3, <2>1, Zenon DEF IInv, ForwardBooks, Outstanding
  <2>3. \A i : i \in Outstanding(s) <=> i \in 0..k-1
    BY <1>1, <1>2, <2>2
  <2>4. Outstanding(s) = 0..k-1
    BY <2>3, Zenon
  <2>5. QED
    BY <1>1, <2>4, Zenon
<1>4. ASSUME state[s].tag = "Compensating"
      PROVE  Outstanding(s) = 0..state[s].step
  <2>1. \A i \in Steps : i \in Outstanding(s) <=> i <= k
    BY <1>1, <1>4, Zenon DEF IInv, UndoBooks
  <2>2. \A i : i \in Outstanding(s) <=> i \in 0..k
    BY <1>1, <1>2, <2>1
  <2>3. Outstanding(s) = 0..k
    BY <2>2, Zenon
  <2>4. QED
    BY <1>1, <2>3, Zenon
<1>5. QED
  BY <1>3, <1>4, Zenon DEF Phase

\* What stays of the phases and stacks when one saga moves.
LEMMA MoveFacts ==
  ASSUME NEW s \in Sagas, NEW p, NEW st,
         Phase(s)' = p, Outstanding(s)' = st,
         \A t \in Sagas \ {s} : Phase(t)' = Phase(t) /\ Outstanding(t)' = Outstanding(t)
  PROVE  Undo!Move(s, p, st)
<1>1. phases' = [phases EXCEPT ![s] = p]
  BY Zenon DEF phases
<1>2. stacks' = [stacks EXCEPT ![s] = st]
  BY Zenon DEF stacks
<1>3. QED
  BY <1>1, <1>2, Zenon DEF Undo!Move, phases, stacks

LEMMA CreateRefines ==
  ASSUME IInv, NEW s \in Sagas, CreateSaga(s)
  PROVE  Undo!Start(s)
<1>1. /\ state[s].tag = "Absent"
      /\ state' = [state EXCEPT ![s] = At("Pending", 0)]
      /\ records' = records
  BY Zenon DEF CreateSaga
<1>2. /\ state'[s].tag = "Pending"
      /\ \A t \in Sagas \ {s} : state'[t] = state[t]
  BY <1>1, Zenon DEF IInv, TypeOK, At
<1>3. /\ Phase(s)' = "forward" /\ Phase(s) = "none"
      /\ \A t \in Sagas \ {s} : Phase(t)' = Phase(t)
  BY <1>1, <1>2, Zenon DEF Phase
<1>4. \A t \in Sagas : Outstanding(t)' = Outstanding(t)
  BY <1>1, Zenon DEF Outstanding, Recorded
<1>5. Undo!Move(s, "forward", Outstanding(s))
  BY <1>3, <1>4, MoveFacts, Zenon
<1>6. QED
  BY <1>3, <1>5, Zenon DEF Undo!Start

LEMMA PickRefines ==
  ASSUME IInv, NEW s \in Sagas, Pick(s)
  PROVE  UNCHANGED <<phases, stacks>>
<1>1. PICK w \in Workers : BeginStep(w, s) \/ NextCompensationStep(w, s)
  BY Zenon DEF Pick
<1>2. records' = records
  BY <1>1, Zenon DEF BeginStep, NextCompensationStep, orchestrator
<1>3. stacks' = stacks
  BY <1>2, Zenon DEF stacks, Outstanding, Recorded
<1>4. CASE BeginStep(w, s)
  <2>1. /\ state[s].tag \in {"Pending", "InProgress"}
        /\ state' = [state EXCEPT ![s] = At("InProgress", state[s].step)]
    BY <1>4, Zenon DEF BeginStep
  <2>2. /\ state'[s].tag = "InProgress"
        /\ \A t \in Sagas \ {s} : state'[t] = state[t]
    BY <2>1, Zenon DEF IInv, TypeOK, At
  <2>3. \A t \in Sagas : Phase(t)' = Phase(t)
    BY <2>1, <2>2, Zenon DEF Phase
  <2>4. QED
    BY <1>3, <2>3, Zenon DEF phases
<1>5. CASE NextCompensationStep(w, s)
  BY <1>3, <1>5 DEF NextCompensationStep, orchestrator, phases, Phase
<1>6. QED
  BY <1>1, <1>4, <1>5, Zenon

LEMMA CompleteStepRefines ==
  ASSUME IInv, NEW m \in reports, NEW own_key \in BOOLEAN, CompleteStep(m, own_key)
  PROVE  Undo!Push(m.saga) \/ Undo!Fail(m.saga)
<1> DEFINE s == m.saga
           st == AfterForward(m)
<1>0. TypeOK /\ m \in Reports
  BY Zenon DEF IInv, TypeOK, Reports
<1>1. PICK k \in Steps : k = m.step /\ k \in Nat /\ k < N
  BY <1>0, StepsFacts DEF Reports, Steps
<1>2. s \in Sagas /\ m.ok \in BOOLEAN /\ N \in Nat
  BY <1>0, StepsFacts, Zenon DEF Reports
<1>3. /\ m.act = "Forward"
      /\ state[s].tag = "InProgress" /\ state[s].step = k
      /\ Record(m, st)
  BY <1>1 DEF CompleteStep, At
<1>4. /\ state'[s] = st
      /\ \A t \in Sagas \ {s} : state'[t] = state[t]
      /\ \A t \in Sagas \ {s}, a \in Acts : Recorded(t, a)' = Recorded(t, a)
      /\ \A a \in Acts : Recorded(s, a)' =
           IF m.ok /\ m.act = a THEN Recorded(s, a) \cup {k} ELSE Recorded(s, a)
  BY <1>0, <1>1, <1>3, AfterTypes, RecordEffect, Zenon
<1>5. /\ \A t \in Sagas \ {s} : Phase(t)' = Phase(t)
      /\ \A t \in Sagas \ {s} : Outstanding(t)' = Outstanding(t)
  BY <1>4, Zenon DEF Phase, Outstanding, Acts
<1>6. Phase(s) = "forward" /\ Outstanding(s) = 0..k-1
  BY <1>2, <1>3, StackFacts, Zenon
<1>7. Recorded(s, "Compensate") = {}
  BY <1>2, <1>3, Zenon DEF IInv, RecordsAreTrue, NothingUndone
<1>8. CASE m.ok
  <2>1. Outstanding(s)' = Outstanding(s) \cup {k}
    BY <1>3, <1>4, <1>7, <1>8, Zenon DEF Outstanding, Acts
  <2>2. Outstanding(s)' = 0..k
    BY <1>1, <1>6, <2>1
  <2>3. st.tag = IF k = N - 1 THEN "Completed" ELSE "InProgress"
    BY <1>1, <1>2, <1>8 DEF AfterForward, At
  <2>4. Phase(s)' = IF k = N - 1 THEN "committed" ELSE "forward"
    BY <1>4, <2>3, Zenon DEF Phase
  <2>5. Undo!Move(s, IF k = N - 1 THEN "committed" ELSE "forward", 0..k)
    BY <1>2, <1>5, <2>2, <2>4, MoveFacts, Zenon
  <2>6. Undo!Push(s)
    BY <1>1, <1>2, <1>6, <2>5, Zenon DEF Undo!Push, Undo!Steps, Steps
  <2>7. QED
    BY <2>6, Zenon
<1>9. CASE ~m.ok
  <2>1. Outstanding(s)' = Outstanding(s)
    BY <1>4, <1>9, Zenon DEF Outstanding, Acts
  <2>2. Outstanding(s) = {} <=> k = 0
    BY <1>1, <1>6
  <2>3. st.tag = IF k = 0 THEN "StepFailed" ELSE "Compensating"
    BY <1>1, <1>9, Zenon DEF AfterForward, At
  <2>4. Phase(s)' = IF Outstanding(s) = {} THEN "undone" ELSE "undoing"
    BY <1>4, <2>2, <2>3, Zenon DEF Phase
  <2>5. Undo!Move(s, IF Outstanding(s) = {} THEN "undone" ELSE "undoing", Outstanding(s))
    BY <1>2, <1>5, <2>1, <2>4, MoveFacts, Zenon
  <2>6. QED
    BY <1>2, <1>6, <2>5, Zenon DEF Undo!Fail
<1>10. QED
  BY <1>2, <1>8, <1>9, Zenon

LEMMA CompleteCompensationRefines ==
  ASSUME IInv, NEW m \in reports, NEW own_key \in BOOLEAN, CompleteCompensation(m, own_key)
  PROVE  Undo!Pop(m.saga) \/ Undo!Abandon
<1> DEFINE s == m.saga
           st == AfterCompensation(m)
<1>0. TypeOK /\ m \in Reports
  BY Zenon DEF IInv, TypeOK, Reports
<1>1. PICK k \in Steps : k = m.step /\ k \in Nat
  BY <1>0, StepsFacts, Zenon DEF Reports
<1>2. s \in Sagas /\ m.ok \in BOOLEAN
  BY <1>0, Zenon DEF Reports
<1>3. /\ m.act = "Compensate"
      /\ state[s].tag = "Compensating" /\ state[s].step = k
      /\ Record(m, st)
  BY <1>1 DEF CompleteCompensation, At
<1>4. /\ state'[s] = st
      /\ \A t \in Sagas \ {s} : state'[t] = state[t]
      /\ \A t \in Sagas \ {s}, a \in Acts : Recorded(t, a)' = Recorded(t, a)
      /\ \A a \in Acts : Recorded(s, a)' =
           IF m.ok /\ m.act = a THEN Recorded(s, a) \cup {k} ELSE Recorded(s, a)
  BY <1>0, <1>1, <1>3, AfterTypes, RecordEffect, Zenon
<1>5. /\ \A t \in Sagas \ {s} : Phase(t)' = Phase(t)
      /\ \A t \in Sagas \ {s} : Outstanding(t)' = Outstanding(t)
  BY <1>4, Zenon DEF Phase, Outstanding, Acts
<1>6. Phase(s) = "undoing" /\ Outstanding(s) = 0..k
  BY <1>2, <1>3, StackFacts, Zenon
<1>7. CASE m.ok
  <2>1. Outstanding(s)' = Outstanding(s) \ {k}
    BY <1>3, <1>4, <1>7, Zenon DEF Outstanding, Acts
  <2>2. Outstanding(s)' = 0..k-1
    BY <1>1, <1>6, <2>1
  <2>3. st.tag = IF k = 0 THEN "Compensated" ELSE "Compensating"
    BY <1>1, <1>7, Zenon DEF AfterCompensation, At
  <2>4. Phase(s)' = IF k = 0 THEN "undone" ELSE "undoing"
    BY <1>4, <2>3, Zenon DEF Phase
  <2>5. Undo!Move(s, IF k = 0 THEN "undone" ELSE "undoing", 0..k-1)
    BY <1>2, <1>5, <2>2, <2>4, MoveFacts, Zenon
  <2>6. Undo!Pop(s)
    BY <1>1, <1>2, <1>6, <2>5, Zenon DEF Undo!Pop, Undo!Steps, Steps
  <2>7. QED
    BY <2>6, Zenon
<1>8. CASE ~m.ok
  <2>1. \A t \in Sagas : Outstanding(t)' = Outstanding(t)
    BY <1>4, <1>5, <1>8, Zenon DEF Outstanding, Acts
  <2>2. Phase(s)' = "abandoned"
    BY <1>4, <1>8 DEF Phase, AfterCompensation, At
  <2>3. {s} \in SUBSET {t \in Sagas : Phase(t) \in {"forward", "undoing"}}
    BY <1>2, <1>6, Zenon
  <2>4. [t \in Sagas |-> Phase(t)]' =
          [t \in Sagas |-> IF t \in {s} THEN "abandoned" ELSE [u \in Sagas |-> Phase(u)][t]]
    BY <1>5, <2>2, Zenon
  <2>5. UNCHANGED [t \in Sagas |-> Outstanding(t)]
    BY <2>1, Zenon
  <2>6. Undo!Abandon
    BY <2>3, <2>4, <2>5, Zenon DEF Undo!Abandon
  <2>7. QED
    BY <2>6, Zenon
<1>9. QED
  BY <1>2, <1>7, <1>8, Zenon

LEMMA AdvanceEpochRefines ==
  ASSUME IInv, NEW e \in Epochs, AdvanceEpoch(e)
  PROVE  Undo!Abandon
<1> DEFINE S == {s \in Sagas : s \in Active /\ epoch[s] # e}
<1>1. /\ state' = [s \in Sagas |-> IF s \in Active /\ epoch[s] # e
                                   THEN At("EpochInvalidated", 0) ELSE state[s]]
      /\ records' = records
  BY Zenon DEF AdvanceEpoch
<1>2. \A s \in Sagas : Outstanding(s)' = Outstanding(s)
  BY <1>1, Zenon DEF Outstanding, Recorded
<1>3. /\ \A s \in S : Phase(s)' = "abandoned"
      /\ \A s \in Sagas \ S : Phase(s)' = Phase(s)
  BY <1>1, Zenon DEF Phase, At
<1>4. \A s \in S : state[s].tag \in {"Pending", "InProgress", "Compensating"}
  BY Zenon DEF IInv, TypeOK, Active, Terminal, Absent, Tags
<1>5. S \in SUBSET {s \in Sagas : Phase(s) \in {"forward", "undoing"}}
  BY <1>4, StackFacts, Zenon
<1>6. QED
  BY <1>2, <1>3, <1>5, Zenon DEF Undo!Abandon

LEMMA GcRefines ==
  ASSUME IInv, NEW S \in SUBSET Sagas, GcTerminal(S)
  PROVE  Undo!Forget
<1>1. /\ S \subseteq {s \in Sagas : Terminal(s)}
      /\ state' = [s \in Sagas |-> IF s \in S THEN At("Gone", 0) ELSE state[s]]
      /\ records' = [s \in Sagas |-> IF s \in S THEN {} ELSE records[s]]
  BY Zenon DEF GcTerminal
<1>2. /\ \A s \in S : Outstanding(s)' = {}
      /\ \A s \in Sagas \ S : Outstanding(s)' = Outstanding(s)
  BY <1>1, Zenon DEF Outstanding, Recorded
<1>3. /\ \A s \in S : Phase(s)' = "forgotten"
      /\ \A s \in Sagas \ S : Phase(s)' = Phase(s)
  BY <1>1, Zenon DEF Phase, At
<1>4. S \in SUBSET {s \in Sagas : Phase(s) \in {"committed", "undone", "abandoned"}}
  BY <1>1, Zenon DEF Phase, Terminal, Failures
<1>5. QED
  BY <1>2, <1>3, <1>4, Zenon DEF Undo!Forget

\* The orchestrator implements the undo stack: a report of success pushes or
\* pops the current step, a failed step turns the saga round, a failed
\* compensation or an epoch change abandons it, collection forgets it, and
\* handing out steps changes nothing.
THEOREM SagaRefinesUndoStack == Spec => UndoStackSpec
<1>1. Init => Undo!Init
  BY DEF Init, Undo!Init, Phase, At, Outstanding, Recorded
<1>2. IInv /\ [Next]_vars => [Undo!Next]_<<phases, stacks>>
  <2> SUFFICES ASSUME IInv, [Next]_vars
               PROVE  Undo!Next \/ UNCHANGED <<phases, stacks>>
    BY Zenon
  <2>0. ASSUME UNCHANGED orchestrator
        PROVE  UNCHANGED <<phases, stacks>>
    BY <2>0 DEF orchestrator, phases, stacks, Phase, Outstanding, Recorded
  <2>1. ASSUME NEW s \in Sagas, CreateSaga(s)
        PROVE  Undo!Next
    BY <2>1, CreateRefines, Zenon DEF Undo!Next
  <2>2. ASSUME NEW s \in Sagas, Pick(s)
        PROVE  UNCHANGED <<phases, stacks>>
    BY <2>2, PickRefines, Zenon
  <2>3. ASSUME NEW s \in Sagas, Work(s)
        PROVE  UNCHANGED <<phases, stacks>>
    BY <2>0, <2>3, Zenon DEF Work, Perform
  <2>4. ASSUME NEW s \in Sagas, HandIn(s)
        PROVE  Undo!Next
    <3>1. PICK m \in reports, own_key \in BOOLEAN :
            m.saga = s /\ (CompleteStep(m, own_key) \/ CompleteCompensation(m, own_key))
      BY <2>4, Zenon DEF HandIn
    <3>2. Undo!Push(s) \/ Undo!Fail(s) \/ Undo!Pop(s) \/ Undo!Abandon
      BY <3>1, CompleteStepRefines, CompleteCompensationRefines, Zenon
    <3>3. QED
      BY <3>2, Zenon DEF Undo!Next
  <2>5. ASSUME NEW w \in Workers, NEW happened \in BOOLEAN, Crash(w, happened)
        PROVE  UNCHANGED <<phases, stacks>>
    BY <2>0, <2>5, Zenon DEF Crash
  <2>6. ASSUME NEW e \in Epochs, AdvanceEpoch(e)
        PROVE  Undo!Next
    BY <2>6, AdvanceEpochRefines, Zenon DEF Undo!Next
  <2>7. ASSUME NEW S \in SUBSET Sagas, GcTerminal(S)
        PROVE  Undo!Next
    BY <2>7, GcRefines, Zenon DEF Undo!Next
  <2>8. ASSUME UNCHANGED vars
        PROVE  UNCHANGED <<phases, stacks>>
    BY <2>0, <2>8, Zenon DEF vars
  <2>9. QED
    BY <2>1, <2>2, <2>3, <2>4, <2>5, <2>6, <2>7, <2>8, Zenon DEF Next
<1>3. QED
  BY <1>1, <1>2, SagaInvariant, PTL DEF Spec, UndoStackSpec, Undo!Spec, phases, stacks
=============================================================================
