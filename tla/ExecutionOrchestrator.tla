----------------------- MODULE ExecutionOrchestrator ------------------------
(***************************************************************************)
(* ExecutionOrchestrator (execution_orchestrator.rs): what one call of     *)
(* execute or prepare_next_runtime_flow_guards does to the state that      *)
(* outlives the call, with the containment executor, the evidence ledger   *)
(* and the saga table it owns.                                             *)
(*                                                                         *)
(* Attempts are numbered; the number stands for the trace id, the decision *)
(* id and the id of the saga derived from it.  A package is one extension. *)
(* What the interpreter, the risk model and the cell answer is an input    *)
(* (fate, decided, stop): "interpreter" is any failure after the guards    *)
(* and before the evidence is in, "checkpoint" an open runtime checkpoint. *)
(* Lowering marks every declassification it lists as one that wants a      *)
(* receipt (lowering_pipeline.rs), so none passes without.                 *)
(*                                                                         *)
(* A receipt is minted for one attempt: its replay linkage and its         *)
(* decision contract name the trace and the decision of that attempt       *)
(* (minted_for; one whose two names disagree serves no attempt, -1).       *)
(* Everything else the check compares with the obligation - authorizer,    *)
(* signature, verdict, labels, route, clearance - is the set of the        *)
(* obligations it approves; which authorizers are trusted does not change. *)
(*                                                                         *)
(* The engine hands out its SagaOrchestrator by shared reference only, so  *)
(* its sagas are never taken further and sagas is the set of attempts with *)
(* an active saga; its containment executor is private, and nothing in the *)
(* engine calls resume.                                                    *)
(*                                                                         *)
(* handed, executed and granted are bookkeeping of the model: the ids      *)
(* prepare returned, the ids execute used, in order, and the               *)
(* declassifications that were granted, each with its receipt.             *)
(***************************************************************************)
EXTENDS ContainmentExecutor, FiniteSets, FiniteSetsExt

CONSTANTS Lowerable,            \* the packages that parse and lower
          Obligations,
          Needs,                \* Needs[p]: the obligations of p, in order
          DeclassReceipts,      \* the receipts callers may stage
          Decisions,            \* the containment actions the risk model may choose
          max_concurrent_sagas,
          MaxAttempts           \* bound on the attempts

ASSUME PackagesAreExtensions == Lowerable \subseteq Extensions
ASSUME NeedsSequences == DOMAIN Needs = Extensions
ASSUME ReceiptsMinted ==
  \A r \in DeclassReceipts :
    DOMAIN r = {"minted_for", "approves"} /\ r.approves \subseteq Extensions \X Obligations
ASSUME DecisionsAreActions == Decisions \subseteq ContainmentActions
ASSUME SagaLimit == max_concurrent_sagas \in Nat

VARIABLES attempt_counter, reserved, staged, ledger, sagas, execution_counter,
          handed, executed, granted

engine == <<attempt_counter, reserved, staged, ledger, sagas, execution_counter>>
ghosts == <<handed, executed, granted>>
vars == <<containment, engine, ghosts>>

NoneReserved == [attempt |-> -1, package |-> "none"]
Fates == {"checkpoint", "interpreter", "close", "done"}
SagaActions == {"Suspend", "Terminate", "Quarantine"}

Init == /\ ContainmentInit
        /\ attempt_counter = 0
        /\ reserved = NoneReserved
        /\ staged = {}
        /\ ledger = {}
        /\ sagas = {}
        /\ execution_counter = 0
        /\ handed = {}
        /\ executed = <<>>
        /\ granted = {}

\* Mutant: the reservation is not compared with the package.
MayProceedAlways(p) == TRUE

\* reserve_execution_context and take_or_allocate_execution_context: the ids
\* reserved for this package, or fresh ones when nothing is reserved.
MayProceed(p) == reserved = NoneReserved \/ reserved.package = p
Attempt == IF reserved = NoneReserved THEN attempt_counter ELSE reserved.attempt
CountAttempt == /\ reserved = NoneReserved => attempt_counter < MaxAttempts
                /\ attempt_counter' = IF reserved = NoneReserved THEN attempt_counter + 1
                                                                 ELSE attempt_counter

PrepareNextRuntimeFlowGuards(p) ==
  /\ MayProceed(p)
  /\ CountAttempt
  /\ IF p \in Lowerable
       THEN /\ reserved' = [attempt |-> Attempt, package |-> p]
            /\ handed' = handed \cup {[attempt |-> Attempt, package |-> p]}
       ELSE /\ reserved' = NoneReserved
            /\ UNCHANGED handed
  /\ UNCHANGED <<containment, staged, ledger, sagas, execution_counter, executed, granted>>

Key(k, o) == [attempt |-> k, obligation |-> o]

\* A caller stages any receipt under any ids, handed out or not, in use or
\* not; a second receipt for the same key replaces the first.
StageReceipt(k, o, receipt) ==
  /\ staged' = {s \in staged : s.key # Key(k, o)} \cup {[key |-> Key(k, o), receipt |-> receipt]}
  /\ UNCHANGED <<containment, attempt_counter, reserved, ledger, sagas, execution_counter, ghosts>>

\* Mutant: the receipt is not compared with the attempt.
VerifiesAnyAttempt(receipt, k, p, o) == <<p, o>> \in receipt.approves

\* use_declassification_with_receipt
Verifies(receipt, k, p, o) == receipt.minted_for = k /\ <<p, o>> \in receipt.approves

\* register_artifact_declassification_obligations refuses an id listed twice,
\* before any receipt is looked at.
Registers(p) == \A i, j \in DOMAIN Needs[p] : Needs[p][i] = Needs[p][j] => i = j

\* phase_enforce_runtime_flow_guards goes through the obligations in order
\* and stops at the first receipt that does not verify; the receipts it came
\* to are evicted whatever the outcome.
Tried(k, p, i) == {s \in staged : s.key = Key(k, Needs[p][i])}
Invalid(k, p) == {i \in DOMAIN Needs[p] :
                    \E s \in Tried(k, p, i) : ~Verifies(s.receipt, k, p, Needs[p][i])}
CameTo(k, p) == {i \in DOMAIN Needs[p] :
                   Registers(p) /\ (Invalid(k, p) # {} => i <= Min(Invalid(k, p)))}
Evicted(k, p) == UNION {Tried(k, p, i) : i \in CameTo(k, p)}

GuardsPass(k, p) ==
  /\ Registers(p)
  /\ Invalid(k, p) = {}
  /\ \A i \in DOMAIN Needs[p] : Tried(k, p, i) # {}

\* What the receipts of an attempt that passed were accepted for.
Grants(k, p) ==
  {[attempt |-> k, package |-> p, obligation |-> s.key.obligation, receipt |-> s.receipt] :
     s \in Evicted(k, p)}

\* The detector that says stop turns Allow into Sandbox.
Effective(decided, stop) == IF stop /\ decided = "Allow" THEN "Sandbox" ELSE decided

\* Mutant: the ledger gets the action before the override.
RecordDecided(k, p, decided, stop) ==
  ledger' = ledger \cup {[attempt |-> k, package |-> p, action |-> decided]}

\* phase_record_evidence
RecordEvidence(k, p, decided, stop) ==
  ledger' = ledger \cup {[attempt |-> k, package |-> p, action |-> Effective(decided, stop)]}

\* phase_execute_containment, then the close of the cell.  Containment that
\* succeeded is kept when the saga table is full or the cell does not close.
ContainAndClose(k, p, fate, action) ==
  LET contains == action # "Allow"
      refused == contains /\ Refuses(p, action, k)
      wants_saga == action \in SagaActions
      full == Cardinality(sagas) >= max_concurrent_sagas
      fails == refused \/ (wants_saga /\ full) \/ fate = "close"
  IN /\ IF contains /\ ~refused THEN Contain(p, action, k) ELSE RegisterOnly(p)
     /\ sagas' = IF wants_saga /\ ~refused /\ ~full THEN sagas \cup {k} ELSE sagas
     /\ execution_counter' = IF fails THEN execution_counter ELSE execution_counter + 1

\* The whole of execute.
Execute(p, fate, decided, stop) ==
  LET k == Attempt
      passes == GuardsPass(k, p) /\ fate # "checkpoint"
  IN /\ MayProceed(p)
     /\ CountAttempt
     /\ reserved' = NoneReserved
     /\ executed' = Append(executed, [attempt |-> k, package |-> p])
     /\ UNCHANGED handed
     /\ IF p \notin Lowerable
          THEN UNCHANGED <<containment, staged, ledger, sagas, execution_counter, granted>>
          ELSE /\ staged' = staged \ Evicted(k, p)
               /\ granted' = IF passes THEN granted \cup Grants(k, p) ELSE granted
               /\ IF passes /\ fate # "interpreter"
                    THEN /\ RecordEvidence(k, p, decided, stop)
                         /\ ContainAndClose(k, p, fate, Effective(decided, stop))
                    ELSE RegisterOnly(p) /\ UNCHANGED <<ledger, sagas, execution_counter>>

Next ==
  \/ \E p \in Extensions : PrepareNextRuntimeFlowGuards(p)
  \/ \E k \in 0..MaxAttempts-1, o \in Obligations, receipt \in DeclassReceipts :
       StageReceipt(k, o, receipt)
  \/ \E p \in Extensions, fate \in Fates, decided \in Decisions, stop \in BOOLEAN :
       Execute(p, fate, decided, stop)

Spec == Init /\ [][Next]_vars
-----------------------------------------------------------------------------
\* Ids belong to one package and one execution: what prepare handed out for a
\* package is used by no other package, and no two executions share ids, so
\* that receipts and evidence name exactly one attempt.
IdsBelongToOnePackage ==
  /\ \A i, j \in DOMAIN executed : executed[i].attempt = executed[j].attempt => i = j
  /\ \A h \in handed : \A e \in handed \cup {executed[i] : i \in DOMAIN executed} :
       h.attempt = e.attempt => h.package = e.package

\* A receipt serves one execution: staged early, late, again, under the ids of
\* other attempts or left behind by an attempt that failed, it is accepted for
\* no second execution and no second package, and one minted for ids that
\* prepare handed out is accepted for no package but that one ("reserved for
\* the next execute() call on the same package").
ReceiptServesOneExecution ==
  /\ \A g, h \in granted :
       g.receipt = h.receipt => g.attempt = h.attempt /\ g.package = h.package
  /\ \A g \in granted, h \in handed : g.receipt.minted_for = h.attempt => g.package = h.package

\* Every action the engine took on an extension is accounted for: the ledger
\* has that action under that attempt and extension, and an action that wants a
\* follow-up has its saga unless the saga table is full (execute then fails,
\* after the containment took effect).
ContainmentIsAccounted ==
  \A x \in Extensions : \A i \in DOMAIN receipts[x] :
    LET r == receipts[x][i]
    IN  r.decision >= 0 =>
          /\ [attempt |-> r.decision, package |-> x, action |-> r.action] \in ledger
          /\ r.action \in SagaActions /\ r.decision \notin sagas =>
               Cardinality(sagas) = max_concurrent_sagas
=============================================================================
