---------------------------- MODULE EngineProofs ----------------------------
(***************************************************************************)
(* Proofs about the execution engine and its containment executor, for any *)
(* packages and obligations, any saga limit and any number of attempts,    *)
(* about the checkpoint frontiers and about the epoch barrier.             *)
(***************************************************************************)
EXTENDS ExecutionOrchestrator, CheckpointFrontier, EpochBarrier,
        FiniteSetTheorems, TLAPS
-----------------------------------------------------------------------------
(* The execution engine and its containment executor. *)

Ids == [attempt : Nat, package : Extensions]
States == {"Unregistered"} \cup {TargetState[a] : a \in ContainmentActions}
Receipts == [action : ContainmentActions, decision : Int, previous : States, new : States]

ContainmentTypes ==
  /\ contained \in [Extensions -> States]
  /\ sandboxed \in [Extensions -> BOOLEAN]
  /\ receipts \in [Extensions -> Seq(Receipts)]

EngineTypes ==
  /\ attempt_counter \in Nat
  /\ reserved \in {NoneReserved} \cup Ids
  /\ handed \subseteq Ids
  /\ executed \in Seq(Ids)

\* Every number in use was taken from the counter.
NumbersAreSpent ==
  /\ \A h \in handed : h.attempt < attempt_counter
  /\ \A i \in DOMAIN executed : executed[i].attempt < attempt_counter

\* A reservation was handed out and is not executed yet.
ReservedIsOpen ==
  reserved # NoneReserved =>
    /\ reserved \in handed
    /\ \A i \in DOMAIN executed : executed[i].attempt # reserved.attempt

\* A receipt was accepted by an execution under the ids it was minted for.
GrantsWereExecuted ==
  \A g \in granted :
    /\ g.receipt.minted_for = g.attempt
    /\ \E i \in DOMAIN executed : executed[i].attempt = g.attempt /\ executed[i].package = g.package

\* The saga table never exceeds its limit.
SagaRoom == IsFiniteSet(sagas) /\ Cardinality(sagas) <= max_concurrent_sagas

IdInv == /\ EngineTypes
         /\ NumbersAreSpent
         /\ ReservedIsOpen
         /\ IdsBelongToOnePackage
         /\ GrantsWereExecuted

AccountInv == /\ EngineTypes
              /\ ContainmentTypes
              /\ SagaRoom
              /\ ContainmentIsAccounted
-----------------------------------------------------------------------------
\* The numbers an attempt uses: the reserved ones, or the counter's next.
LEMMA AttemptFacts ==
  ASSUME IdInv, NEW p \in Extensions, MayProceed(p)
  PROVE  /\ Attempt \in Nat
         /\ \/ reserved = NoneReserved /\ Attempt = attempt_counter
            \/ /\ reserved # NoneReserved
               /\ [attempt |-> Attempt, package |-> p] = reserved
               /\ reserved \in handed
               /\ Attempt < attempt_counter
         /\ \A i \in DOMAIN executed : executed[i].attempt # Attempt
         /\ \A h \in handed : h.attempt = Attempt => h.package = p
<1> USE DEF IdInv, EngineTypes, NumbersAreSpent, ReservedIsOpen, MayProceed, Attempt, Ids
<1>1. CASE reserved = NoneReserved
  BY <1>1
<1>2. CASE reserved # NoneReserved
  <2>1. /\ reserved \in Ids
        /\ reserved \in handed
        /\ reserved.package = p
        /\ Attempt = reserved.attempt
    BY <1>2, Zenon
  <2>2. \A h \in handed : h.attempt = reserved.attempt => h.package = p
    BY <2>1, Zenon DEF IdsBelongToOnePackage
  <2> QED
    BY <1>2, <2>1, <2>2, Zenon
<1> QED
  BY <1>1, <1>2, Zenon

LEMMA IdInit == Init => IdInv
<1> SUFFICES ASSUME Init PROVE IdInv
  BY Zenon
<1>1. executed = <<>> /\ DOMAIN executed = {}
  BY DEF Init
<1> QED
  BY <1>1 DEF Init, IdInv, EngineTypes, NumbersAreSpent, ReservedIsOpen,
              IdsBelongToOnePackage, GrantsWereExecuted

LEMMA IdPrepare ==
  ASSUME IdInv, NEW p \in Extensions, PrepareNextRuntimeFlowGuards(p)
  PROVE  IdInv'
<1> DEFINE id == [attempt |-> Attempt, package |-> p]
<1>1. /\ UNCHANGED <<executed, granted>>
      /\ attempt_counter' \in Nat
      /\ attempt_counter' >= attempt_counter
      /\ Attempt < attempt_counter'
      /\ id \in Ids
      /\ handed' = IF p \in Lowerable THEN handed \cup {id} ELSE handed
      /\ reserved' = IF p \in Lowerable THEN id ELSE NoneReserved
  BY AttemptFacts DEF PrepareNextRuntimeFlowGuards, CountAttempt, IdInv, EngineTypes, Ids
<1>2. /\ \A i \in DOMAIN executed : executed[i].attempt # Attempt
      /\ \A h \in handed : h.attempt = Attempt => h.package = p
  BY AttemptFacts, Zenon DEF PrepareNextRuntimeFlowGuards
<1>3. id.attempt = Attempt /\ id.package = p
  BY Zenon
<1> HIDE DEF id
<1>4. EngineTypes'
  BY <1>1, Zenon DEF IdInv, EngineTypes
<1>5. NumbersAreSpent'
  <2>1. \A i \in DOMAIN executed : executed[i] \in Ids
    BY DEF IdInv, EngineTypes
  <2> QED
    BY <1>1, <1>3, <2>1 DEF IdInv, EngineTypes, NumbersAreSpent, Ids
<1>6. ReservedIsOpen'
  BY <1>1, <1>2, <1>3, Zenon DEF ReservedIsOpen
<1>7. IdsBelongToOnePackage'
  BY <1>1, <1>2, <1>3 DEF IdInv, IdsBelongToOnePackage
<1>8. GrantsWereExecuted'
  BY <1>1, Zenon DEF IdInv, GrantsWereExecuted
<1> QED
  BY <1>4, <1>5, <1>6, <1>7, <1>8, Zenon DEF IdInv

\* Staging a receipt, under whatever ids, changes nothing of this.
LEMMA IdStage ==
  ASSUME IdInv, NEW k, NEW o, NEW receipt, StageReceipt(k, o, receipt)
  PROVE  IdInv'
<1>1. UNCHANGED <<attempt_counter, reserved, handed, executed, granted>>
  BY Zenon DEF StageReceipt, ghosts
<1> QED
  BY <1>1 DEF IdInv, EngineTypes, NumbersAreSpent, ReservedIsOpen,
              IdsBelongToOnePackage, GrantsWereExecuted

\* What execute does to the ids, whatever its outcome.
LEMMA ExecuteIds ==
  ASSUME NEW p \in Extensions, NEW fate, NEW decided, NEW stop, Execute(p, fate, decided, stop)
  PROVE  /\ MayProceed(p) /\ CountAttempt
         /\ reserved' = NoneReserved
         /\ executed' = Append(executed, [attempt |-> Attempt, package |-> p])
         /\ handed' = handed
         /\ \A g \in granted' : \/ g \in granted
                                \/ GuardsPass(Attempt, p) /\ g \in Grants(Attempt, p)
<1>1. CASE p \notin Lowerable
  BY <1>1, Zenon DEF Execute
<1>2. CASE p \in Lowerable
  BY <1>2, Zenon DEF Execute
<1> QED
  BY <1>1, <1>2, Zenon

\* Guards that pass accepted only receipts minted for this attempt.
LEMMA GrantedVerified ==
  ASSUME NEW k, NEW p, NEW g \in Grants(k, p), GuardsPass(k, p)
  PROVE  g.attempt = k /\ g.package = p /\ g.receipt.minted_for = k
<1>1. PICK s \in Evicted(k, p) :
        g = [attempt |-> k, package |-> p, obligation |-> s.key.obligation, receipt |-> s.receipt]
  BY Zenon DEF Grants
<1>2. PICK i \in DOMAIN Needs[p] : s \in Tried(k, p, i)
  BY Zenon DEF Evicted, CameTo
<1>3. s.receipt.minted_for = k
  BY <1>2, Zenon DEF GuardsPass, Invalid, Verifies
<1> QED
  BY <1>1, <1>3, Zenon

LEMMA IdExecute ==
  ASSUME IdInv, NEW p \in Extensions, NEW fate, NEW decided, NEW stop,
         Execute(p, fate, decided, stop)
  PROVE  IdInv'
<1> DEFINE id == [attempt |-> Attempt, package |-> p]
<1>1. /\ reserved' = NoneReserved
      /\ executed' = Append(executed, id)
      /\ handed' = handed
      /\ attempt_counter' \in Nat
      /\ attempt_counter' >= attempt_counter
      /\ Attempt < attempt_counter'
      /\ id \in Ids
  BY AttemptFacts, ExecuteIds DEF CountAttempt, IdInv, EngineTypes, Ids
<1>2. /\ \A i \in DOMAIN executed : executed[i].attempt # Attempt
      /\ \A h \in handed : h.attempt = Attempt => h.package = p
  BY AttemptFacts, ExecuteIds, Zenon
<1>3. id.attempt = Attempt /\ id.package = p
  BY Zenon
<1> HIDE DEF id
<1>4. /\ executed' \in Seq(Ids)
      /\ \A i \in DOMAIN executed' : \/ i \in DOMAIN executed /\ executed'[i] = executed[i]
                                     \/ i = Len(executed) + 1 /\ executed'[i] = id
      /\ DOMAIN executed \subseteq DOMAIN executed'
      /\ Len(executed) \in Nat
      /\ DOMAIN executed = 1..Len(executed)
  BY <1>1 DEF IdInv, EngineTypes
<1>5. EngineTypes'
  BY <1>1, <1>4, Zenon DEF IdInv, EngineTypes
<1>6. NumbersAreSpent'
  <2>1. \A i \in DOMAIN executed : executed[i] \in Ids
    BY DEF IdInv, EngineTypes
  <2> QED
    BY <1>1, <1>3, <1>4, <2>1 DEF IdInv, EngineTypes, NumbersAreSpent, Ids
<1>7. ReservedIsOpen'
  BY <1>1, Zenon DEF ReservedIsOpen
<1>8. IdsBelongToOnePackage'
  BY <1>1, <1>2, <1>3, <1>4 DEF IdInv, IdsBelongToOnePackage
<1>9. GrantsWereExecuted'
  <2> SUFFICES ASSUME NEW g \in granted'
               PROVE  /\ g.receipt.minted_for = g.attempt
                      /\ \E i \in DOMAIN executed' :
                           executed'[i].attempt = g.attempt /\ executed'[i].package = g.package
    BY Zenon DEF GrantsWereExecuted
  <2>1. CASE g \in granted
    <3>1. \A i \in DOMAIN executed : executed'[i] = executed[i]
      BY <1>1, <1>4 DEF IdInv, EngineTypes
    <3>2. PICK i \in DOMAIN executed :
            executed[i].attempt = g.attempt /\ executed[i].package = g.package
      BY <2>1, Zenon DEF IdInv, GrantsWereExecuted
    <3>3. i \in DOMAIN executed' /\ g.receipt.minted_for = g.attempt
      BY <1>4, <2>1, Zenon DEF IdInv, GrantsWereExecuted
    <3> QED
      BY <3>1, <3>2, <3>3, Zenon
  <2>2. CASE GuardsPass(Attempt, p) /\ g \in Grants(Attempt, p)
    <3>1. g.attempt = Attempt /\ g.package = p /\ g.receipt.minted_for = Attempt
      BY <2>2, GrantedVerified, Zenon
    <3>2. Len(executed) + 1 \in DOMAIN executed' /\ executed'[Len(executed) + 1] = id
      BY <1>1, <1>4 DEF IdInv, EngineTypes
    <3> QED
      BY <1>3, <3>1, <3>2, Zenon
  <2> QED
    BY <2>1, <2>2, ExecuteIds, Zenon
<1> QED
  BY <1>5, <1>6, <1>7, <1>8, <1>9, Zenon DEF IdInv

LEMMA IdStep == IdInv /\ [Next]_vars => IdInv'
<1> SUFFICES ASSUME IdInv, [Next]_vars PROVE IdInv'
  BY Zenon
<1>1. ASSUME NEW p \in Extensions, PrepareNextRuntimeFlowGuards(p) PROVE IdInv'
  BY <1>1, IdPrepare, Zenon
<1>2. ASSUME NEW k, NEW o, NEW receipt, StageReceipt(k, o, receipt) PROVE IdInv'
  BY <1>2, IdStage, Zenon
<1>3. ASSUME NEW p \in Extensions, NEW fate \in Fates, NEW decided \in Decisions,
             NEW stop \in BOOLEAN, Execute(p, fate, decided, stop)
      PROVE  IdInv'
  BY <1>3, IdExecute, Zenon
<1>4. CASE UNCHANGED vars
  BY <1>4 DEF vars, engine, ghosts, IdInv, EngineTypes, NumbersAreSpent, ReservedIsOpen,
              IdsBelongToOnePackage, GrantsWereExecuted
<1> QED
  BY <1>1, <1>2, <1>3, <1>4, Zenon DEF Next

\* No two executions of the engine share their ids, and the ids that
\* prepare_next_runtime_flow_guards handed out for a package are used by no
\* other, over every interleaving of prepare, staging and execute
\* (reserve_execution_context, take_or_allocate_execution_context).
THEOREM EngineIdsBelongToOnePackage == Spec => []IdsBelongToOnePackage
<1>1. IdInv => IdsBelongToOnePackage
  BY Zenon DEF IdInv
<1> QED
  BY <1>1, IdInit, IdStep, PTL DEF Spec

\* A receipt that phase_enforce_runtime_flow_guards accepted serves one
\* execution of one package, whatever was staged, when, how often and under
\* which ids; if its ids were handed out by prepare, that is the package they
\* were handed out to.
THEOREM EngineReceiptServesOneExecution == Spec => []ReceiptServesOneExecution
<1>1. IdInv => ReceiptServesOneExecution
  <2> SUFFICES ASSUME IdInv PROVE ReceiptServesOneExecution
    BY Zenon
  <2>1. ASSUME NEW g \in granted, NEW h \in granted, g.receipt = h.receipt
        PROVE  g.attempt = h.attempt /\ g.package = h.package
    <3>1. g.attempt = h.attempt
      BY <2>1, Zenon DEF IdInv, GrantsWereExecuted
    <3>2. PICK i \in DOMAIN executed : executed[i].attempt = g.attempt /\ executed[i].package = g.package
      BY Zenon DEF IdInv, GrantsWereExecuted
    <3>3. PICK j \in DOMAIN executed : executed[j].attempt = h.attempt /\ executed[j].package = h.package
      BY Zenon DEF IdInv, GrantsWereExecuted
    <3>4. i = j
      BY <3>1, <3>2, <3>3, Zenon DEF IdInv, IdsBelongToOnePackage
    <3> QED
      BY <3>1, <3>2, <3>3, <3>4, Zenon
  <2>2. ASSUME NEW g \in granted, NEW h \in handed, g.receipt.minted_for = h.attempt
        PROVE  g.package = h.package
    <3>1. PICK i \in DOMAIN executed : executed[i].attempt = g.attempt /\ executed[i].package = g.package
      BY Zenon DEF IdInv, GrantsWereExecuted
    <3>2. g.attempt = h.attempt
      BY <2>2, Zenon DEF IdInv, GrantsWereExecuted
    <3> QED
      BY <3>1, <3>2, Zenon DEF IdInv, IdsBelongToOnePackage
  <2> QED
    BY <2>1, <2>2, Zenon DEF ReceiptServesOneExecution
<1> QED
  BY <1>1, IdInit, IdStep, PTL DEF Spec
-----------------------------------------------------------------------------
LEMMA ActionFacts ==
  /\ ContainmentActions = {"Allow", "Challenge", "Sandbox", "Suspend", "Terminate", "Quarantine"}
  /\ States = {"Unregistered", "Running", "Challenged", "Sandboxed", "Suspended",
               "Terminated", "Quarantined"}
  /\ \A a \in ContainmentActions : TargetState[a] \in States
BY DEF ContainmentActions, States, TargetState

LEMMA DecisionFacts ==
  ASSUME NEW decided \in Decisions, NEW stop \in BOOLEAN
  PROVE  Effective(decided, stop) \in ContainmentActions
BY DecisionsAreActions, ActionFacts, Zenon DEF Effective

\* What an accepted action appends to the receipts of the extension.
LEMMA ContainFacts ==
  ASSUME ContainmentTypes, NEW x \in Extensions, NEW action \in ContainmentActions,
         NEW decision \in Int, Contain(x, action, decision)
  PROVE  /\ ContainmentTypes'
         /\ \A y \in Extensions : \A i \in DOMAIN receipts'[y] :
              \/ i \in DOMAIN receipts[y] /\ receipts'[y][i] = receipts[y][i]
              \/ /\ y = x
                 /\ receipts'[y][i].action = action
                 /\ receipts'[y][i].decision = decision
<1>1. CASE Repeated(x, action, decision)
  BY <1>1, Zenon DEF Contain, ContainmentTypes, containment
<1>2. CASE ~Repeated(x, action, decision)
  <2> DEFINE r == [action |-> action, decision |-> decision,
                   previous |-> Registered(x), new |-> TargetState[action]]
  <2>1. /\ contained' = [contained EXCEPT ![x] = TargetState[action]]
        /\ sandboxed' = [sandboxed EXCEPT ![x] = @ \/ action = "Sandbox"]
        /\ receipts' = [receipts EXCEPT ![x] = Append(@, r)]
    BY <1>2, Zenon DEF Contain
  <2>2. Registered(x) \in States
    BY ActionFacts, Zenon DEF Registered, ContainmentTypes
  <2>3. r \in Receipts /\ r.action = action /\ r.decision = decision
    BY <2>2, ActionFacts, Zenon DEF Receipts
  <2> HIDE DEF r
  <2>4. contained' \in [Extensions -> States]
    BY <2>1, ActionFacts, Zenon DEF ContainmentTypes
  <2>5. sandboxed' \in [Extensions -> BOOLEAN]
    BY <2>1, Zenon DEF ContainmentTypes
  <2>6. receipts' \in [Extensions -> Seq(Receipts)]
    BY <2>1, <2>3 DEF ContainmentTypes
  <2>7. ASSUME NEW y \in Extensions, NEW i \in DOMAIN receipts'[y]
        PROVE  \/ i \in DOMAIN receipts[y] /\ receipts'[y][i] = receipts[y][i]
               \/ y = x /\ receipts'[y][i] = r
    <3>1. CASE y # x
      BY <3>1, <2>1, Zenon DEF ContainmentTypes
    <3>2. CASE y = x
      <4>1. receipts[x] \in Seq(Receipts) /\ receipts'[x] = Append(receipts[x], r)
        BY <2>1, Zenon DEF ContainmentTypes
      <4> QED
        BY <3>2, <4>1, <2>3
    <3> QED
      BY <3>1, <3>2, Zenon
  <2> QED
    BY <2>3, <2>4, <2>5, <2>6, <2>7, Zenon DEF ContainmentTypes
<1> QED
  BY <1>1, <1>2, Zenon

LEMMA RegisterFacts ==
  ASSUME ContainmentTypes, NEW x \in Extensions, RegisterOnly(x)
  PROVE  ContainmentTypes' /\ receipts' = receipts
BY ActionFacts, Zenon DEF RegisterOnly, Registered, ContainmentTypes

LEMMA ResumeFacts ==
  ASSUME ContainmentTypes, NEW x \in Extensions, NEW decision \in Int, Resume(x, decision)
  PROVE  ContainmentTypes'
<1> DEFINE r == [action |-> "Allow", decision |-> decision,
                 previous |-> contained[x], new |-> ResumesTo(x)]
<1>1. ResumesTo(x) \in States /\ contained[x] \in States
  BY ActionFacts, Zenon DEF ResumesTo, ContainmentTypes
<1>2. r \in Receipts
  BY <1>1, ActionFacts, Zenon DEF Receipts
<1>3. /\ contained' = [contained EXCEPT ![x] = ResumesTo(x)]
      /\ receipts' = [receipts EXCEPT ![x] = Append(@, r)]
      /\ UNCHANGED sandboxed
  BY Zenon DEF Resume
<1> HIDE DEF r
<1> QED
  BY <1>1, <1>2, <1>3 DEF ContainmentTypes

LEMMA AccountInit == Init => AccountInv
<1> SUFFICES ASSUME Init PROVE AccountInv
  BY Zenon
<1>1. EngineTypes
  BY IdInit, Zenon DEF IdInv
<1>2. ContainmentTypes
  BY ActionFacts DEF Init, ContainmentInit, ContainmentTypes
<1>3. SagaRoom
  BY FS_EmptySet, SagaLimit DEF Init, SagaRoom
<1>4. \A x \in Extensions : DOMAIN receipts[x] = {}
  <2>1. \A x \in Extensions : receipts[x] = <<>>
    BY Zenon DEF Init, ContainmentInit
  <2>2. DOMAIN <<>> = {}
    OBVIOUS
  <2> QED
    BY <2>1, <2>2, Zenon
<1>5. ContainmentIsAccounted
  BY <1>4, Zenon DEF ContainmentIsAccounted
<1> QED
  BY <1>1, <1>2, <1>3, <1>5, Zenon DEF AccountInv

\* Receipts and saga table untouched: nothing new to account for.
LEMMA AccountUntouched ==
  ASSUME AccountInv, EngineTypes', ContainmentTypes', receipts' = receipts, sagas' = sagas,
         ledger \subseteq ledger'
  PROVE  AccountInv'
BY Zenon DEF AccountInv, SagaRoom, ContainmentIsAccounted

LEMMA AttemptIsNat == ASSUME EngineTypes PROVE Attempt \in Nat
BY Zenon DEF EngineTypes, Attempt, Ids

LEMMA AccountContain ==
  ASSUME AccountInv, EngineTypes', NEW p \in Extensions, NEW fate, NEW decided \in Decisions,
         NEW stop \in BOOLEAN, RecordEvidence(Attempt, p, decided, stop),
         ContainAndClose(Attempt, p, fate, Effective(decided, stop))
  PROVE  AccountInv'
<1>1. PICK action \in ContainmentActions : action = Effective(decided, stop)
  BY DecisionFacts, Zenon
<1>2. PICK k \in Nat : k = Attempt
  BY AttemptIsNat, Zenon DEF AccountInv
<1> DEFINE contains == action # "Allow"
           refused == contains /\ Refuses(p, action, k)
           wants_saga == action \in SagaActions
           full == Cardinality(sagas) >= max_concurrent_sagas
<1>3. /\ ledger' = ledger \cup {[attempt |-> k, package |-> p, action |-> action]}
      /\ IF contains /\ ~refused THEN Contain(p, action, k) ELSE RegisterOnly(p)
      /\ sagas' = IF wants_saga /\ ~refused /\ ~full THEN sagas \cup {k} ELSE sagas
  BY <1>1, <1>2, Zenon DEF RecordEvidence, ContainAndClose
<1>4. /\ IsFiniteSet(sagas) /\ Cardinality(sagas) \in Nat
      /\ Cardinality(sagas) <= max_concurrent_sagas
      /\ max_concurrent_sagas \in Nat
  BY FS_CardinalityType, SagaLimit, Zenon DEF AccountInv, SagaRoom
<1>5. SagaRoom'
  <2>1. CASE wants_saga /\ ~refused /\ ~full
    <3>1. /\ IsFiniteSet(sagas \cup {k})
          /\ \/ Cardinality(sagas \cup {k}) = Cardinality(sagas)
             \/ Cardinality(sagas \cup {k}) = Cardinality(sagas) + 1
      BY <1>4, FS_AddElement, Zenon
    <3> QED
      BY <1>3, <1>4, <2>1, <3>1 DEF SagaRoom
  <2>2. CASE ~(wants_saga /\ ~refused /\ ~full)
    BY <1>3, <1>4, <2>2, Zenon DEF SagaRoom
  <2> QED
    BY <2>1, <2>2, Zenon
<1>6. CASE contains /\ ~refused
  <2>1. Contain(p, action, k)
    BY <1>3, <1>6, Zenon
  <2>2. /\ ContainmentTypes'
        /\ \A y \in Extensions : \A i \in DOMAIN receipts'[y] :
             \/ i \in DOMAIN receipts[y] /\ receipts'[y][i] = receipts[y][i]
             \/ /\ y = p
                /\ receipts'[y][i].action = action
                /\ receipts'[y][i].decision = k
    BY <2>1, ContainFacts DEF AccountInv
  <2>3. ASSUME NEW y \in Extensions, NEW i \in DOMAIN receipts'[y], receipts'[y][i].decision >= 0
        PROVE  /\ [attempt |-> receipts'[y][i].decision, package |-> y,
                   action |-> receipts'[y][i].action] \in ledger'
               /\ receipts'[y][i].action \in SagaActions /\ receipts'[y][i].decision \notin sagas' =>
                    Cardinality(sagas') = max_concurrent_sagas
    <3>1. CASE i \in DOMAIN receipts[y] /\ receipts'[y][i] = receipts[y][i]
      <4>1. /\ [attempt |-> receipts[y][i].decision, package |-> y,
                action |-> receipts[y][i].action] \in ledger
            /\ receipts[y][i].action \in SagaActions /\ receipts[y][i].decision \notin sagas =>
                 Cardinality(sagas) = max_concurrent_sagas
        BY <2>3, <3>1, Zenon DEF AccountInv, ContainmentIsAccounted
      <4> QED
        BY <3>1, <4>1, <1>3, <1>4, Zenon
    <3>2. CASE /\ y = p
               /\ receipts'[y][i].action = action
               /\ receipts'[y][i].decision = k
      BY <3>2, <1>3, <1>4, <1>6
    <3> QED
      BY <2>2, <3>1, <3>2, Zenon
  <2>4. ContainmentIsAccounted'
    BY <2>3, Zenon DEF ContainmentIsAccounted
  <2> QED
    BY <1>5, <2>2, <2>4, Zenon DEF AccountInv
<1>7. CASE ~(contains /\ ~refused)
  <2>1. RegisterOnly(p)
    BY <1>3, <1>7, Zenon
  <2>2. sagas' = sagas
    BY <1>3, <1>7, Zenon DEF SagaActions
  <2> QED
    BY <1>3, <2>1, <2>2, RegisterFacts, AccountUntouched, Zenon DEF AccountInv
<1> QED
  BY <1>6, <1>7, Zenon

LEMMA AccountStep == AccountInv /\ IdInv /\ IdInv' /\ [Next]_vars => AccountInv'
<1> SUFFICES ASSUME AccountInv, IdInv, IdInv', [Next]_vars PROVE AccountInv'
  BY Zenon
<1>1. EngineTypes'
  BY Zenon DEF IdInv
<1>2. ASSUME NEW p \in Extensions, PrepareNextRuntimeFlowGuards(p) PROVE AccountInv'
  BY <1>1, <1>2, AccountUntouched, Zenon
     DEF PrepareNextRuntimeFlowGuards, containment, AccountInv, ContainmentTypes
<1>3. ASSUME NEW k, NEW o, NEW receipt, StageReceipt(k, o, receipt) PROVE AccountInv'
  BY <1>1, <1>3, AccountUntouched, Zenon DEF StageReceipt, containment, AccountInv,
     ContainmentTypes
<1>4. ASSUME NEW p \in Extensions, NEW fate \in Fates, NEW decided \in Decisions,
             NEW stop \in BOOLEAN, Execute(p, fate, decided, stop)
      PROVE  AccountInv'
  <2>1. CASE p \notin Lowerable
    BY <1>1, <1>4, <2>1, AccountUntouched, Zenon DEF Execute, containment, AccountInv,
       ContainmentTypes
  <2>2. CASE p \in Lowerable
    <3>1. \/ /\ RecordEvidence(Attempt, p, decided, stop)
             /\ ContainAndClose(Attempt, p, fate, Effective(decided, stop))
          \/ RegisterOnly(p) /\ UNCHANGED <<ledger, sagas, execution_counter>>
      BY <1>4, <2>2, Zenon DEF Execute
    <3> QED
      BY <1>1, <3>1, AccountContain, AccountUntouched, RegisterFacts, Zenon DEF AccountInv
  <2> QED
    BY <2>1, <2>2, Zenon
<1>5. CASE UNCHANGED vars
  BY <1>1, <1>5, AccountUntouched, Zenon DEF vars, engine, containment, AccountInv,
     ContainmentTypes
<1> QED
  BY <1>2, <1>3, <1>4, <1>5, Zenon DEF Next

\* Every containment action the engine took is in the evidence ledger under
\* the attempt that decided it, and has its follow-up saga unless the saga
\* table is full (phase_record_evidence before phase_execute_containment).
THEOREM EngineContainmentIsAccounted == Spec => []ContainmentIsAccounted
<1>1. AccountInv => ContainmentIsAccounted
  BY Zenon DEF AccountInv
<1> QED
  BY <1>1, IdInit, IdStep, AccountInit, AccountStep, PTL DEF Spec
-----------------------------------------------------------------------------
\* The executor by itself, driven by any callers.
ExecutorNext ==
  \E x \in Extensions, action \in ContainmentActions, decision \in Int :
    ContainmentNext(x, action, decision)
ExecutorSpec == ContainmentInit /\ [][ExecutorNext]_containment

\* What a step may never do to the containment of the extensions.
Sticks ==
  \A x \in Extensions :
    /\ Freedom[contained[x]] >= 1 /\ sandboxed[x] => Freedom[contained'[x]] >= 1
    /\ Freedom[contained[x]] = 3 => contained'[x] = contained[x]

LEMMA FreedomFacts ==
  /\ Freedom["Unregistered"] = 0 /\ Freedom["Running"] = 0 /\ Freedom["Challenged"] = 0
  /\ Freedom["Sandboxed"] = 1 /\ Freedom["Suspended"] = 2
  /\ Freedom["Terminated"] = 3 /\ Freedom["Quarantined"] = 3
BY Zenon DEF Freedom

LEMMA ValidActionFacts ==
  /\ ValidActions["Sandboxed"] = {"Suspend", "Terminate", "Quarantine"}
  /\ ValidActions["Suspended"] = {"Terminate", "Quarantine"}
  /\ ValidActions["Terminated"] = {} /\ ValidActions["Quarantined"] = {}
  /\ TargetState["Suspend"] = "Suspended"
  /\ TargetState["Terminate"] = "Terminated"
  /\ TargetState["Quarantine"] = "Quarantined"
BY Zenon DEF ValidActions, TargetState

LEMMA ContainSticks ==
  ASSUME ContainmentTypes, NEW p \in Extensions, NEW action \in ContainmentActions,
         NEW decision \in Int, Contain(p, action, decision)
  PROVE  Sticks
<1>1. CASE Repeated(p, action, decision)
  BY <1>1, Zenon DEF Contain, containment, Sticks
<1>2. CASE ~Repeated(p, action, decision)
  <2>1. /\ contained' = [contained EXCEPT ![p] = TargetState[action]]
        /\ action \in ValidActions[Registered(p)]
    BY <1>2, Zenon DEF Contain, Refuses
  <2>2. \A x \in Extensions \ {p} : contained'[x] = contained[x]
    BY <2>1, Zenon DEF ContainmentTypes
  <2>3. contained[p] \in States /\ contained'[p] = TargetState[action]
    BY <2>1, Zenon DEF ContainmentTypes
  <2>4. /\ Freedom[contained[p]] >= 1 => Freedom[contained'[p]] >= 1
        /\ Freedom[contained[p]] # 3
    <3>1. CASE contained[p] \in {"Unregistered", "Running", "Challenged"}
      BY <3>1, FreedomFacts
    <3>2. CASE contained[p] = "Sandboxed"
      <4>1. action \in {"Suspend", "Terminate", "Quarantine"}
        BY <2>1, <3>2, ValidActionFacts, Zenon DEF Registered
      <4>2. contained'[p] \in {"Suspended", "Terminated", "Quarantined"}
        BY <2>3, <4>1, ValidActionFacts, Zenon
      <4> QED
        BY <3>2, <4>2, FreedomFacts
    <3>3. CASE contained[p] = "Suspended"
      <4>1. action \in {"Terminate", "Quarantine"}
        BY <2>1, <3>3, ValidActionFacts, Zenon DEF Registered
      <4>2. contained'[p] \in {"Terminated", "Quarantined"}
        BY <2>3, <4>1, ValidActionFacts, Zenon
      <4> QED
        BY <3>3, <4>2, FreedomFacts
    <3>4. CASE contained[p] \in {"Terminated", "Quarantined"}
      BY <2>1, <3>4, ValidActionFacts, Zenon DEF Registered
    <3> QED
      BY <2>3, <3>1, <3>2, <3>3, <3>4, ActionFacts, Zenon
  <2> QED
    BY <2>2, <2>4, Zenon DEF Sticks
<1> QED
  BY <1>1, <1>2, Zenon

LEMMA RegisterSticks ==
  ASSUME ContainmentTypes, NEW p \in Extensions, RegisterOnly(p)
  PROVE  Sticks
<1>1. \A x \in Extensions : contained[x] # "Unregistered" => contained'[x] = contained[x]
  BY Zenon DEF RegisterOnly, Registered, ContainmentTypes
<1> QED
  BY <1>1, FreedomFacts DEF Sticks

LEMMA ResumeSticks ==
  ASSUME ContainmentTypes, NEW p \in Extensions, NEW decision \in Int, Resume(p, decision)
  PROVE  Sticks
<1>1. /\ \A x \in Extensions \ {p} : contained'[x] = contained[x]
      /\ contained[p] = "Suspended"
      /\ sandboxed[p] => contained'[p] = "Sandboxed"
  BY Zenon DEF Resume, ResumesTo, ContainmentTypes
<1> QED
  BY <1>1, FreedomFacts DEF Sticks

\* Whoever calls the ContainmentExecutor and however often it suspends and
\* resumes, a sandboxed extension never leaves its sandbox and a terminated or
\* quarantined one stays as it is (ValidActions, resume).
THEOREM ExecutorContainmentSticks == ExecutorSpec => ContainmentSticks
<1>1. ContainmentInit => ContainmentTypes
  BY ActionFacts DEF ContainmentInit, ContainmentTypes
<1>2. ContainmentTypes /\ [ExecutorNext]_containment => ContainmentTypes' /\ [Sticks]_containment
  <2> SUFFICES ASSUME ContainmentTypes, [ExecutorNext]_containment
               PROVE  ContainmentTypes' /\ [Sticks]_containment
    BY Zenon
  <2>1. ASSUME NEW x \in Extensions, NEW action \in ContainmentActions, NEW decision \in Int,
               ContainmentNext(x, action, decision)
        PROVE  ContainmentTypes' /\ Sticks
    BY <2>1, ContainFacts, RegisterFacts, ResumeFacts, ContainSticks, RegisterSticks,
       ResumeSticks, Zenon
       DEF ContainmentNext
  <2>2. CASE UNCHANGED containment
    BY <2>2, Zenon DEF containment, ContainmentTypes
  <2> QED
    BY <2>1, <2>2, Zenon DEF ExecutorNext
<1> QED
  BY <1>1, <1>2, PTL DEF ExecutorSpec, ContainmentSticks, Sticks

\* The same of the engine: no execution, whatever the risk model and the
\* detector decide, frees an extension an earlier one contained.
THEOREM EngineContainmentSticks == Spec => ContainmentSticks
<1>1. AccountInv /\ [Next]_vars => [Sticks]_containment
  <2> SUFFICES ASSUME AccountInv, [Next]_vars PROVE [Sticks]_containment
    BY Zenon
  <2>1. ContainmentTypes /\ Attempt \in Nat
    BY AttemptIsNat, Zenon DEF AccountInv
  <2>2. ASSUME NEW p \in Extensions, NEW fate \in Fates, NEW decided \in Decisions,
               NEW stop \in BOOLEAN, Execute(p, fate, decided, stop)
        PROVE  [Sticks]_containment
    <3>1. \/ UNCHANGED containment
          \/ RegisterOnly(p)
          \/ Contain(p, Effective(decided, stop), Attempt)
      BY <2>2, Zenon DEF Execute, ContainAndClose
    <3> QED
      BY <2>1, <3>1, DecisionFacts, ContainSticks, RegisterSticks
  <2> QED
    BY <2>2, Zenon DEF Next, PrepareNextRuntimeFlowGuards, StageReceipt, vars
<1> QED
  BY <1>1, IdInit, IdStep, AccountInit, AccountStep, PTL DEF Spec, ContainmentSticks,
     Sticks
-----------------------------------------------------------------------------
(***************************************************************************)
(* The frontiers, for every set of zones and checkpoints and every window  *)
(* size: the ratchet holds across crashes.  Memory is all that a           *)
(* checkpoint is compared with, so the proof needs that memory mirrors the *)
(* disk whenever a manager runs, and that the frontier on disk bounds      *)
(* everything ever accepted in its zone.                                   *)
(***************************************************************************)

\* What the proofs need of the types: the state is per zone, and frontiers
\* carry numbers.
FrontierTyped ==
  /\ disk = [z \in Zones |-> disk[z]]
  /\ accepted = [z \in Zones |-> accepted[z]]
  /\ up \in BOOLEAN
  /\ \A z \in Zones : /\ disk[z].seq \in Nat
                      /\ disk[z].epoch \in Nat
                      /\ disk[z].accept_count \in Nat
                      /\ accepted[z] \subseteq Nat

\* A zone without a frontier accepted nothing yet; elsewhere the frontier is
\* an upper bound of what was accepted.
FrontierBounds ==
  \A z \in Zones : /\ disk[z] = NoFrontier => accepted[z] = {}
                   /\ \A s \in accepted[z] : s <= disk[z].seq

FrontierInv == FrontierTyped /\ MirrorsDisk /\ FrontierBounds

LEMMA FrontierInitInv == FrontierInit => FrontierInv
BY DEF FrontierInit, NoZones, NoFrontier, FrontierInv, FrontierTyped, MirrorsDisk,
   FrontierBounds

\* The fields of an advanced frontier that the ratchet is about.
LEMMA AdvanceFields ==
  ASSUME NEW f, NEW c \in Checkpoints, f.accept_count \in Nat
  PROVE  /\ Advance(f, c).seq = c.seq
         /\ Advance(f, c).epoch = c.epoch
         /\ Advance(f, c).accept_count = f.accept_count + 1
         /\ Advance(f, c) # NoFrontier
<1>1. /\ Advance(f, c).seq = c.seq
      /\ Advance(f, c).epoch = c.epoch
      /\ Advance(f, c).accept_count = f.accept_count + 1
  BY Zenon DEF Advance
<1>2. NoFrontier.accept_count = 0
  BY Zenon DEF NoFrontier
<1>3. f.accept_count + 1 # 0
  OBVIOUS
<1>4. QED
  BY <1>1, <1>2, <1>3, Zenon

\* Both ways to accept write the same to disk: the zone's frontier advances,
\* every other zone is left alone.
LEMMA PersistPreserves ==
  ASSUME FrontierInv, NEW z \in Zones, NEW c \in Checkpoints, up, Passes(zones[z], c),
         disk' = [disk EXCEPT ![z] = Advance(zones[z], c)],
         accepted' = [accepted EXCEPT ![z] = @ \cup {c.seq}],
         up' \in BOOLEAN
  PROVE  FrontierTyped' /\ FrontierBounds'
<1>0. zones[z] = disk[z] /\ c.seq \in Nat /\ c.epoch \in Nat
  BY CheckpointsAssumption, Zenon DEF FrontierInv, MirrorsDisk
<1>1. /\ disk'[z].seq = c.seq
      /\ disk'[z].epoch = c.epoch
      /\ disk'[z].accept_count = disk[z].accept_count + 1
      /\ disk'[z] # NoFrontier
  BY <1>0, AdvanceFields, Zenon DEF FrontierInv, FrontierTyped
<1>2. accepted'[z] = accepted[z] \cup {c.seq}
  BY Zenon DEF FrontierInv, FrontierTyped
<1>3. \A y \in Zones \ {z} : disk'[y] = disk[y] /\ accepted'[y] = accepted[y]
  BY Zenon DEF FrontierInv, FrontierTyped
<1>4. \A s \in accepted[z] : s < c.seq
  BY <1>0 DEF FrontierInv, FrontierTyped, FrontierBounds, Passes
<1>5. disk' = [y \in Zones |-> disk'[y]] /\ accepted' = [y \in Zones |-> accepted'[y]]
  BY Zenon DEF FrontierInv, FrontierTyped
<1>6. FrontierTyped'
  BY <1>0, <1>1, <1>2, <1>3, <1>5 DEF FrontierInv, FrontierTyped
<1>7. FrontierBounds'
  BY <1>0, <1>1, <1>2, <1>3, <1>4 DEF FrontierInv, FrontierTyped, FrontierBounds
<1>8. QED
  BY <1>6, <1>7, Zenon

LEMMA FrontierNextInv == FrontierInv /\ [FrontierNext]_frontier_vars => FrontierInv'
<1> SUFFICES ASSUME FrontierInv, [FrontierNext]_frontier_vars PROVE FrontierInv'
  BY Zenon
<1>1. ASSUME NEW z \in Zones, NEW c \in Checkpoints, AcceptCheckpoint(z, c)
      PROVE  FrontierInv'
  <2>1. FrontierTyped' /\ FrontierBounds'
    BY <1>1, PersistPreserves, Zenon DEF AcceptCheckpoint
  <2>2. MirrorsDisk'
    BY <1>1, Zenon DEF AcceptCheckpoint, FrontierInv, MirrorsDisk
  <2>3. QED
    BY <2>1, <2>2, Zenon DEF FrontierInv
<1>2. ASSUME NEW z \in Zones, NEW c \in Checkpoints, AcceptThenCrash(z, c)
      PROVE  FrontierInv'
  <2>1. FrontierTyped' /\ FrontierBounds'
    BY <1>2, PersistPreserves, Zenon DEF AcceptThenCrash
  <2>2. MirrorsDisk'
    BY <1>2, Zenon DEF AcceptThenCrash, MirrorsDisk
  <2>3. QED
    BY <2>1, <2>2, Zenon DEF FrontierInv
<1>3. CASE Crash
  BY <1>3, Zenon DEF Crash, FrontierInv, FrontierTyped, MirrorsDisk, FrontierBounds
<1>4. CASE Recover
  BY <1>4, Zenon DEF Recover, FrontierInv, FrontierTyped, MirrorsDisk, FrontierBounds
<1>5. CASE UNCHANGED frontier_vars
  BY <1>5, Zenon DEF frontier_vars, FrontierInv, FrontierTyped, MirrorsDisk,
     FrontierBounds
<1>6. QED
  BY <1>1, <1>2, <1>3, <1>4, <1>5, Zenon DEF FrontierNext

\* The inductive invariant holds in every reachable state.
THEOREM FrontierInvariant == FrontierSpec => []FrontierInv
BY FrontierInitInv, FrontierNextInv, PTL DEF FrontierSpec

\* A running manager's frontiers are those on disk, at every crash point.
THEOREM FrontierMirrorsDisk == FrontierSpec => []MirrorsDisk
BY FrontierInvariant, PTL DEF FrontierInv

\* A step that accepts compares with the frontier, which bounds the history.
LEMMA AcceptIsNewer ==
  ASSUME FrontierInv, NEW z \in Zones, NEW c \in Checkpoints, up, Passes(zones[z], c),
         disk' = [disk EXCEPT ![z] = Advance(zones[z], c)],
         accepted' = [accepted EXCEPT ![z] = @ \cup {c.seq}],
         NEW y \in Zones
  PROVE  /\ \A s \in accepted'[y] \ accepted[y] : \A t \in accepted[y] : s > t
         /\ disk[y].epoch <= disk'[y].epoch
<1>0. zones[z] = disk[z] /\ c.seq \in Nat /\ c.epoch \in Nat
  BY CheckpointsAssumption, Zenon DEF FrontierInv, MirrorsDisk
<1>1. CASE y # z
  BY <1>1 DEF FrontierInv, FrontierTyped
<1>2. CASE y = z
  <2>1. disk'[z].epoch = c.epoch
    BY <1>0, AdvanceFields, Zenon DEF FrontierInv, FrontierTyped
  <2>2. accepted'[z] = accepted[z] \cup {c.seq}
    BY Zenon DEF FrontierInv, FrontierTyped
  <2>3. \A t \in accepted[z] : t < c.seq
    BY <1>0 DEF FrontierInv, FrontierTyped, FrontierBounds, Passes
  <2>4. \A s \in accepted'[z] \ accepted[z] : s = c.seq
    BY <2>2, Zenon
  <2>5. \A t \in accepted[z] : t \in Nat
    BY Zenon DEF FrontierInv, FrontierTyped
  <2>6. disk[z].epoch <= c.epoch
    <3>1. CASE disk[z] = NoFrontier
      <4>1. disk[z].epoch = 0
        BY <3>1 DEF NoFrontier
      <4>2. QED
        BY <4>1, <1>0
    <3>2. CASE disk[z] # NoFrontier
      BY <3>2, <1>0, Zenon DEF Passes, FrontierInv, FrontierTyped
    <3>3. QED
      BY <3>1, <3>2, Zenon
  <2>7. QED
    BY <1>2, <1>0, <2>1, <2>3, <2>4, <2>5, <2>6, Zenon
<1>3. QED
  BY <1>1, <1>2, Zenon

\* What both action properties say of one step.
LEMMA StepIsNewer ==
  ASSUME FrontierInv, FrontierNext, NEW y \in Zones
  PROVE  /\ \A s \in accepted'[y] \ accepted[y] : \A t \in accepted[y] : s > t
         /\ disk[y].epoch <= disk'[y].epoch
<1>1. ASSUME NEW z \in Zones, NEW c \in Checkpoints,
             AcceptCheckpoint(z, c) \/ AcceptThenCrash(z, c)
      PROVE  /\ up /\ Passes(zones[z], c)
             /\ disk' = [disk EXCEPT ![z] = Advance(zones[z], c)]
             /\ accepted' = [accepted EXCEPT ![z] = @ \cup {c.seq}]
  BY <1>1, Zenon DEF AcceptCheckpoint, AcceptThenCrash
<1>2. CASE \E z \in Zones, c \in Checkpoints :
             AcceptCheckpoint(z, c) \/ AcceptThenCrash(z, c)
  BY <1>1, <1>2, AcceptIsNewer, Zenon
<1>3. CASE Crash \/ Recover
  BY <1>3 DEF Crash, Recover, FrontierInv, FrontierTyped
<1>4. QED
  BY <1>2, <1>3, Zenon DEF FrontierNext

\* Unconditional rollback rejection: for any zones, checkpoints and crashes,
\* whatever is accepted is newer than everything accepted before it, and the
\* frontier's epoch never decreases.
THEOREM FrontierNeverRollsBack == FrontierSpec => NeverRollsBack
<1>1. FrontierInv /\ [FrontierNext]_frontier_vars =>
        [\A z \in Zones :
           /\ \A s \in accepted'[z] \ accepted[z] : \A t \in accepted[z] : s > t
           /\ disk[z].epoch <= disk'[z].epoch]_frontier_vars
  BY StepIsNewer, Zenon
<1>2. QED
  BY <1>1, FrontierInvariant, PTL DEF FrontierSpec, NeverRollsBack
\* The history of a zone: its frontier f against what was accepted.
HistoryOk(f, A) ==
  /\ IsFiniteSet(A) /\ f.accept_count \in Nat /\ f.accept_count = Cardinality(A)
  /\ f.recent \in Seq(Checkpoints)
  /\ Len(f.recent) = IF f.accept_count < MaxRecent THEN f.accept_count ELSE MaxRecent
  /\ f.recent # <<>> => f.recent[Len(f.recent)].id = f.id

HistoryInv == \A z \in Zones : HistoryOk(disk[z], accepted[z])

\* The window takes the new checkpoint in at its end and stays within its size.
LEMMA AdvanceWindow ==
  ASSUME NEW f, NEW c \in Checkpoints, NEW n \in Nat, n = f.accept_count, NEW q \in Seq(Checkpoints),
         q = f.recent, Len(q) = IF n < MaxRecent THEN n ELSE MaxRecent
  PROVE  /\ Advance(f, c).recent \in Seq(Checkpoints)
         /\ Len(Advance(f, c).recent) = IF n + 1 < MaxRecent THEN n + 1 ELSE MaxRecent
         /\ Advance(f, c).recent[Len(Advance(f, c).recent)] = c
<1>1. PICK m \in Nat : m = MaxRecent /\ m > 0
  BY MaxRecentAssumption
<1>2. PICK all \in Seq(Checkpoints) : /\ all = Append(q, c) /\ Len(all) = Len(q) + 1
                                      /\ all[Len(all)] = c
  <2>1. /\ Append(q, c) \in Seq(Checkpoints) /\ Len(Append(q, c)) = Len(q) + 1
        /\ Append(q, c)[Len(q) + 1] = c
    OBVIOUS
  <2> QED
    BY <2>1, Zenon
<1>3. PICK r : r = IF Len(all) - m > 0 THEN SubSeq(all, (Len(all) - m) + 1, Len(all)) ELSE all
  BY Zenon
<1>4. Advance(f, c).recent = r
  BY <1>1, <1>2, <1>3, Zenon DEF Advance
<1>5. CASE n < m
  <2>1. Len(all) = n + 1 /\ r = all
    BY <1>1, <1>2, <1>3, <1>5
  <2> QED
    BY <1>1, <1>2, <1>4, <1>5, <2>1
<1>6. CASE ~(n < m)
  <2>1. Len(all) = m + 1 /\ r = SubSeq(all, 2, m + 1)
    BY <1>1, <1>2, <1>3, <1>6
  <2>2. r \in Seq(Checkpoints) /\ Len(r) = m /\ r[m] = all[m + 1]
    BY <1>1, <2>1
  <2> QED
    BY <1>1, <1>2, <1>4, <1>6, <2>1, <2>2
<1> QED
  BY <1>5, <1>6, Zenon

LEMMA AcceptHistory ==
  ASSUME FrontierInv, HistoryInv, NEW z \in Zones, NEW c \in Checkpoints, up, Passes(zones[z], c),
         disk' = [disk EXCEPT ![z] = Advance(zones[z], c)],
         accepted' = [accepted EXCEPT ![z] = @ \cup {c.seq}]
  PROVE  HistoryInv'
<1>1. zones[z] = disk[z] /\ c.seq \in Nat
  BY CheckpointsAssumption, Zenon DEF FrontierInv, MirrorsDisk
<1>2. PICK f, A : f = disk[z] /\ A = accepted[z] /\ HistoryOk(f, A)
  BY Zenon DEF HistoryInv
<1>3. disk'[z] = Advance(f, c) /\ accepted'[z] = A \cup {c.seq}
  BY <1>1, <1>2, Zenon DEF FrontierInv, FrontierTyped
<1>4. \A y \in Zones \ {z} : disk'[y] = disk[y] /\ accepted'[y] = accepted[y]
  BY Zenon DEF FrontierInv, FrontierTyped
<1>5. c.seq \notin A
  BY <1>1, <1>2 DEF FrontierInv, FrontierTyped, FrontierBounds, Passes
<1>6. PICK n \in Nat : n = f.accept_count /\ n = Cardinality(A)
  BY <1>2, Zenon DEF HistoryOk
<1>7. IsFiniteSet(A \cup {c.seq}) /\ Cardinality(A \cup {c.seq}) = n + 1
  BY <1>2, <1>5, <1>6, FS_AddElement DEF HistoryOk
<1>8. Advance(f, c).accept_count = n + 1 /\ Advance(f, c).id = c.id
  BY <1>6, Zenon DEF Advance
<1>9. PICK q \in Seq(Checkpoints) : q = f.recent /\ Len(q) = IF n < MaxRecent THEN n ELSE MaxRecent
  BY <1>2, <1>6, Zenon DEF HistoryOk
<1>10. /\ Advance(f, c).recent \in Seq(Checkpoints)
       /\ Len(Advance(f, c).recent) = IF n + 1 < MaxRecent THEN n + 1 ELSE MaxRecent
       /\ Advance(f, c).recent[Len(Advance(f, c).recent)] = c
  BY <1>6, <1>9, AdvanceWindow, Zenon
<1>11. n + 1 \in Nat
  OBVIOUS
<1>12. PICK g : g = Advance(f, c)
  BY Zenon
<1>13. HistoryOk(g, A \cup {c.seq})
  BY <1>7, <1>8, <1>10, <1>11, <1>12, Zenon DEF HistoryOk
<1> QED
  BY <1>3, <1>4, <1>12, <1>13, Zenon DEF HistoryInv

LEMMA HistoryInitInv == FrontierInit => HistoryInv
<1> SUFFICES ASSUME FrontierInit, NEW z \in Zones PROVE HistoryOk(disk[z], accepted[z])
  BY Zenon DEF HistoryInv
<1>1. disk[z] = NoFrontier /\ accepted[z] = {}
  BY Zenon DEF FrontierInit, NoZones
<1>2. NoFrontier.accept_count = 0 /\ NoFrontier.recent = <<>>
  BY Zenon DEF NoFrontier
<1>3. <<>> \in Seq(Checkpoints) /\ Len(<<>>) = 0
  OBVIOUS
<1>4. 0 = IF 0 < MaxRecent THEN 0 ELSE MaxRecent
  BY MaxRecentAssumption
<1>5. IsFiniteSet({}) /\ Cardinality({}) = 0 /\ 0 \in Nat
  BY FS_EmptySet, Zenon
<1> QED
  BY <1>1, <1>2, <1>3, <1>4, <1>5, Zenon DEF HistoryOk

LEMMA HistoryNextInv ==
  FrontierInv /\ HistoryInv /\ [FrontierNext]_frontier_vars => HistoryInv'
<1> SUFFICES ASSUME FrontierInv, HistoryInv, [FrontierNext]_frontier_vars PROVE HistoryInv'
  BY Zenon
<1>1. ASSUME NEW z \in Zones, NEW c \in Checkpoints,
             AcceptCheckpoint(z, c) \/ AcceptThenCrash(z, c)
      PROVE  HistoryInv'
  BY <1>1, AcceptHistory, Zenon DEF AcceptCheckpoint, AcceptThenCrash
<1>2. CASE Crash \/ Recover \/ UNCHANGED frontier_vars
  BY <1>2, Zenon DEF Crash, Recover, frontier_vars, HistoryInv
<1> QED
  BY <1>1, <1>2, Zenon DEF FrontierNext

\* The forensic window of every zone is the end of its history, for any window
\* size: accept_count counts the distinct sequence numbers accepted across
\* crashes, and the window has its full size once enough were.
THEOREM FrontierRecentIsHistory == FrontierSpec => []RecentIsHistory
<1>1. HistoryInv => RecentIsHistory
  BY Zenon DEF HistoryInv, HistoryOk, RecentIsHistory
<1> QED
  BY <1>1, HistoryInitInv, HistoryNextInv, FrontierInvariant, PTL DEF FrontierSpec
-----------------------------------------------------------------------------
(***************************************************************************)
(* The barrier, for every finite set of operations and every bound on      *)
(* epochs. It decrements its count for any guard of the current epoch, so  *)
(* a guard that was cancelled could take another operation's place.  That  *)
(* it never does rests on CancelledGuardsInert: a cancelled guard has the  *)
(* current epoch only while its transition is still draining at count      *)
(* zero.                                                                   *)
(***************************************************************************)

\* A guard of the current epoch whose operation is not running was cancelled
\* in the transition under way, and the count is zero.
CancelledGuardsInert ==
  \A p \in Ops \ running :
    guard[p] = 1 + current_epoch => barrier_state = "Draining" /\ in_flight_count = 0

GuardsNotFromFuture == \A p \in Ops : guard[p] <= 1 + current_epoch

PendingIsLater == barrier_state = "Draining" => pending_new_epoch > current_epoch

BarrierInv == /\ BarrierTypeOK /\ NoStraddle /\ CountIsExact /\ EvidenceAccounts
              /\ CancelledGuardsInert /\ GuardsNotFromFuture /\ PendingIsLater

\* Entering adds one to the number of running operations, leaving takes one.
LEMMA CountOne ==
  ASSUME NEW S \in SUBSET Ops, NEW p \in Ops
  PROVE  /\ Cardinality(S) \in Nat
         /\ p \notin S => Cardinality(S \cup {p}) = Cardinality(S) + 1
         /\ p \in S => Cardinality(S \ {p}) = Cardinality(S) - 1
         /\ p \notin S => Cardinality(S \ {p}) = Cardinality(S)
<1>1. IsFiniteSet(S)
  BY OpsFinite, FS_Subset, Zenon
<1>2. Cardinality(S) \in Nat
  BY <1>1, FS_CardinalityType, Zenon
<1>3. p \notin S => Cardinality(S \cup {p}) = Cardinality(S) + 1
  BY <1>1, FS_AddElement, Zenon
<1>4. p \in S => Cardinality(S \ {p}) = Cardinality(S) - 1
  BY <1>1, FS_RemoveElement, Zenon
<1>5. p \notin S => S \ {p} = S
  BY Zenon
<1>6. QED
  BY <1>2, <1>3, <1>4, <1>5, Zenon

\* A count of zero means that nobody runs.
LEMMA CountZero ==
  ASSUME NEW S \in SUBSET Ops
  PROVE  Cardinality(S) = 0 <=> S = {}
BY OpsFinite, FS_Subset, FS_EmptySet, Zenon

LEMMA BarrierInitInv == BarrierInit => BarrierInv
<1> SUFFICES ASSUME BarrierInit PROVE BarrierInv
  BY Zenon
<1>1. BarrierTypeOK
  BY MaxEpochNat DEF BarrierInit, BarrierTypeOK, Epochs
<1>2. CountIsExact
  BY FS_EmptySet, Zenon DEF BarrierInit, CountIsExact
<1>3. QED
  BY <1>1, <1>2 DEF BarrierInit, BarrierInv, NoStraddle, EvidenceAccounts,
     CancelledGuardsInert, GuardsNotFromFuture, PendingIsLater

LEMMA EnterPreserves ==
  ASSUME BarrierInv, NEW p \in Ops, EnterCritical(p)
  PROVE  BarrierInv'
<1> USE MaxEpochNat DEF BarrierInv, BarrierTypeOK, EnterCritical, Epochs
<1>1. p \notin running
  BY DEF NoStraddle
<1>2. BarrierTypeOK'
  OBVIOUS
<1>3. CountIsExact'
  BY <1>1, CountOne, Zenon DEF CountIsExact
<1>4. NoStraddle'
  BY Zenon DEF NoStraddle
<1>5. CancelledGuardsInert'
  BY Zenon DEF CancelledGuardsInert
<1>6. GuardsNotFromFuture'
  BY DEF GuardsNotFromFuture
<1>7. EvidenceAccounts' /\ PendingIsLater'
  BY Zenon DEF EvidenceAccounts, PendingIsLater
<1>8. QED
  BY <1>2, <1>3, <1>4, <1>5, <1>6, <1>7, Zenon

LEMMA ReleasePreserves ==
  ASSUME BarrierInv, NEW p \in Ops, ReleaseGuard(p)
  PROVE  BarrierInv'
<1> USE MaxEpochNat DEF BarrierInv, BarrierTypeOK, ReleaseGuard, Epochs
<1>1. Accepts(p) <=> p \in running
  <2>1. p \in running => in_flight_count # 0
    BY CountZero, Zenon DEF CountIsExact
  <2>2. p \in running => Accepts(p)
    BY <2>1 DEF NoStraddle, Accepts
  <2>3. Accepts(p) => p \in running
    BY DEF Accepts, CancelledGuardsInert
  <2>4. QED
    BY <2>2, <2>3, Zenon
<1>2. Accepts(p) => in_flight_count - 1 \in Nat
  BY DEF Accepts
<1>3. BarrierTypeOK'
  BY <1>2
<1>4. CountIsExact'
  BY <1>1, CountOne, Zenon DEF CountIsExact
<1>5. NoStraddle'
  BY Zenon DEF NoStraddle
<1>6. CancelledGuardsInert'
  <2>1. ASSUME NEW q \in Ops \ running', guard'[q] = 1 + current_epoch'
        PROVE  barrier_state' = "Draining" /\ in_flight_count' = 0
    <3>1. q # p
      BY <2>1
    <3>2. q \notin running /\ guard[q] = 1 + current_epoch
      BY <2>1, <3>1, Zenon
    <3>3. barrier_state = "Draining" /\ in_flight_count = 0
      BY <3>2, Zenon DEF CancelledGuardsInert
    <3>4. QED
      BY <3>3 DEF Accepts
  <2>2. QED
    BY <2>1, Zenon DEF CancelledGuardsInert
<1>7. GuardsNotFromFuture'
  BY DEF GuardsNotFromFuture
<1>8. EvidenceAccounts'
  BY <1>2 DEF EvidenceAccounts
<1>9. PendingIsLater'
  BY Zenon DEF PendingIsLater
<1>10. QED
  BY <1>3, <1>4, <1>5, <1>6, <1>7, <1>8, <1>9, Zenon

LEMMA BeginPreserves ==
  ASSUME BarrierInv, NEW e \in Epochs, BeginTransition(e)
  PROVE  BarrierInv'
<1> USE MaxEpochNat DEF BarrierInv, BarrierTypeOK, BeginTransition, Epochs
<1>1. BarrierTypeOK' /\ CountIsExact'
  BY Zenon DEF CountIsExact
<1>2. NoStraddle' /\ GuardsNotFromFuture'
  BY Zenon DEF NoStraddle, GuardsNotFromFuture
<1>3. CancelledGuardsInert'
  BY Zenon DEF CancelledGuardsInert
<1>4. EvidenceAccounts' /\ PendingIsLater'
  BY DEF EvidenceAccounts, PendingIsLater
<1>5. QED
  BY <1>1, <1>2, <1>3, <1>4, Zenon

LEMMA ForcePreserves ==
  ASSUME BarrierInv, ForceCancelRemaining
  PROVE  BarrierInv'
<1> USE MaxEpochNat DEF BarrierInv, BarrierTypeOK, ForceCancelRemaining, Epochs
<1>1. BarrierTypeOK'
  OBVIOUS
<1>2. CountIsExact'
  BY FS_EmptySet, Zenon DEF CountIsExact
<1>3. NoStraddle' /\ GuardsNotFromFuture' /\ CancelledGuardsInert'
  BY Zenon DEF NoStraddle, GuardsNotFromFuture, CancelledGuardsInert
<1>4. EvidenceAccounts' /\ PendingIsLater'
  BY DEF EvidenceAccounts, PendingIsLater
<1>5. QED
  BY <1>1, <1>2, <1>3, <1>4, Zenon

\* Moving to a later epoch: the guards out all belong to earlier ones.
LEMMA CompletePreserves ==
  ASSUME BarrierInv, CompleteTransition
  PROVE  BarrierInv'
<1> USE MaxEpochNat DEF BarrierInv, BarrierTypeOK, CompleteTransition, Epochs
<1>1. running = {}
  BY CountZero, Zenon DEF CountIsExact
<1>2. BarrierTypeOK'
  OBVIOUS
<1>3. CountIsExact'
  BY <1>1, FS_EmptySet, Zenon DEF CountIsExact
<1>4. NoStraddle'
  BY <1>1, Zenon DEF NoStraddle
<1>5. GuardsNotFromFuture' /\ CancelledGuardsInert'
  BY DEF GuardsNotFromFuture, CancelledGuardsInert, PendingIsLater
<1>6. EvidenceAccounts' /\ PendingIsLater'
  BY Zenon DEF EvidenceAccounts, PendingIsLater
<1>7. QED
  BY <1>2, <1>3, <1>4, <1>5, <1>6, Zenon

LEMMA NowPreserves ==
  ASSUME BarrierInv, NEW e \in Epochs, TransitionNow(e)
  PROVE  BarrierInv'
<1> USE MaxEpochNat DEF BarrierInv, BarrierTypeOK, TransitionNow, Epochs
<1>1. BarrierTypeOK'
  OBVIOUS
<1>2. CountIsExact'
  BY FS_EmptySet, Zenon DEF CountIsExact
<1>3. NoStraddle'
  BY Zenon DEF NoStraddle
<1>4. GuardsNotFromFuture' /\ CancelledGuardsInert'
  BY DEF GuardsNotFromFuture, CancelledGuardsInert
<1>5. EvidenceAccounts' /\ PendingIsLater'
  BY Zenon DEF EvidenceAccounts, PendingIsLater
<1>6. QED
  BY <1>1, <1>2, <1>3, <1>4, <1>5, Zenon

LEMMA BarrierNextInv == BarrierInv /\ [BarrierNext]_barrier_vars => BarrierInv'
<1> SUFFICES ASSUME BarrierInv, [BarrierNext]_barrier_vars PROVE BarrierInv'
  BY Zenon
<1>1. CASE UNCHANGED barrier_vars
  BY <1>1, Zenon DEF barrier_vars, barrier, BarrierInv, BarrierTypeOK, NoStraddle,
     CountIsExact,
     EvidenceAccounts, CancelledGuardsInert, GuardsNotFromFuture, PendingIsLater
<1>2. CASE \E p \in Ops : EnterCritical(p) \/ ReleaseGuard(p)
  BY <1>2, EnterPreserves, ReleasePreserves
<1>3. CASE \E e \in Epochs : BeginTransition(e) \/ TransitionNow(e)
  BY <1>3, BeginPreserves, NowPreserves, Zenon
<1>4. CASE ForceCancelRemaining
  BY <1>4, ForcePreserves, Zenon
<1>5. CASE CompleteTransition
  BY <1>5, CompletePreserves, Zenon
<1>6. QED
  BY <1>1, <1>2, <1>3, <1>4, <1>5, Zenon DEF BarrierNext

\* The inductive invariant holds in every reachable state.
THEOREM BarrierInvariant == BarrierSpec => []BarrierInv
BY BarrierInitInv, BarrierNextInv, PTL DEF BarrierSpec

\* Every variable of the barrier keeps its type; in particular release_guard
\* never takes the count below zero.
THEOREM BarrierTypeCorrect == BarrierSpec => []BarrierTypeOK
BY BarrierInvariant, PTL DEF BarrierInv

\* No running critical operation ever belongs to an epoch other than the
\* current one, whatever guards are cancelled and handed in late.
THEOREM BarrierNoStraddle == BarrierSpec => []NoStraddle
BY BarrierInvariant, PTL DEF BarrierInv

\* in_flight_count is always the exact number of running operations.
THEOREM BarrierCountExact == BarrierSpec => []CountIsExact
BY BarrierInvariant, PTL DEF BarrierInv

\* The transition evidence accounts for every guard out at its start.
THEOREM BarrierEvidence == BarrierSpec => []EvidenceAccounts
BY BarrierInvariant, PTL DEF BarrierInv

\* A transition is a barrier: nobody enters while it drains, and the epoch
\* moves forward only, to the announced one, once nobody runs.
THEOREM BarrierTransition == BarrierSpec => TransitionIsBarrier
<1> DEFINE Step ==
      /\ barrier_state = "Draining" => running' \subseteq running
      /\ barrier_state = "Draining" /\ current_epoch' # current_epoch =>
           running = {} /\ current_epoch' = pending_new_epoch
      /\ current_epoch' >= current_epoch
<1>1. BarrierInv /\ [BarrierNext]_barrier_vars => [Step]_barrier_vars
  <2> SUFFICES ASSUME BarrierInv, BarrierNext PROVE Step
    BY Zenon
  <2> USE DEF BarrierInv, BarrierTypeOK, Epochs
  <2>1. CASE \E p \in Ops : EnterCritical(p) \/ ReleaseGuard(p)
    BY <2>1, MaxEpochNat DEF EnterCritical, ReleaseGuard
  <2>2. CASE \E e \in Epochs : BeginTransition(e) \/ TransitionNow(e)
    BY <2>2, MaxEpochNat DEF BeginTransition, TransitionNow
  <2>3. CASE ForceCancelRemaining
    BY <2>3, MaxEpochNat DEF ForceCancelRemaining
  <2>4. CASE CompleteTransition
    <3>1. running = {}
      BY <2>4, CountZero, Zenon DEF CompleteTransition, CountIsExact
    <3>2. running' = running /\ current_epoch' = pending_new_epoch
      BY <2>4, Zenon DEF CompleteTransition
    <3>3. current_epoch' >= current_epoch
      BY <2>4, <3>2, MaxEpochNat DEF CompleteTransition, PendingIsLater
    <3>4. QED
      BY <3>1, <3>2, <3>3, Zenon
  <2>5. QED
    BY <2>1, <2>2, <2>3, <2>4, Zenon DEF BarrierNext
<1>2. QED
  BY <1>1, BarrierInvariant, PTL DEF BarrierSpec, TransitionIsBarrier
=============================================================================
