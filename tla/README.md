# A TLA+ verification of FrankenEngine's control core

FrankenEngine (`crates/franken-engine`) is a Rust runtime for untrusted
extensions. Around a JavaScript front end and interpreter it has a large control
core: regions and cells that own running work, cancellation, epochs, leases,
idempotent retries, sagas, checkpoints, containment, a fleet protocol, and a
lock-free read path for shared snapshots.
That core is where orders, failures and limits interact, and it is what this
project models and model-checks with TLC. Every safety property the runs check is
also proved with TLAPS, for all values of the constants.

All paths below are relative to `src/crates/franken-engine/src/` unless they say
otherwise. `PROJECT.json` has, for every definition that models code, the lines it
models.

## 1. The system and its parts

**Modelled so far**

| Part | Source | State | Operations | Interacts with |
|---|---|---|---|---|
| Seqlock fast path | `seqlock_fastpath.rs` | sequence, initialized flag, snapshot behind a RwLock, writer mutex, counters | publish, seed_if_uninitialized, read_clone_or_else | threads of the runtime |
| Region close protocol | `region_lifecycle.rs` | a tree of regions: phase, obligations, drain clock | add_child, register/commit/abort_obligation, cancel, drain, drain_tick, finalize, close | cells |
| Execution cells | `execution_cell.rs` | a region, the budget of the caller's context | execute_effect, obligations, initiate_close, drain, finalize, close | region; cancellation; host; binding |
| Cancellation lifecycle | `cancellation_lifecycle.rs` | set of cells already cancelled | cancel_cell for five lifecycle events | cells; host |
| Extension host | `extension_host_lifecycle.rs` | extension records, session sets, cells, archive, shutdown flag | load, unload, cancel, create/close session, obligations, shutdown | cancellation; cells |
| Host binding | `execution_cell.rs` | one map of cells for extensions and sessions | load_extension, start_session, unload_extension, unload_all | cells |
| Epoch barrier | `epoch_barrier.rs` | epoch, phase, in-flight count, transition evidence | enter_critical, release_guard, begin/complete_transition, force_cancel_remaining, transition_now | critical operations |
| Checkpoint frontier | `checkpoint_frontier.rs` | per-zone frontier in memory and on disk | accept_checkpoint, accept_genesis, recover | persistence backend |
| Lease tracker | `lease_tracker.rs` | leases, expiry index, epoch | grant, renew, check, release, scan_expired, advance_epoch | epochs; a clock |
| Idempotency store | `idempotency_key.rs` | entries by key, epoch | check_and_claim, mark_completed, mark_failed, eviction, advance_epoch | remote executions; epochs; a clock |
| Saga orchestrator | `saga_orchestrator.rs` | sagas: state, epoch, step records | create_saga, begin_step, complete_step, next_compensation_step, complete_compensation, advance_epoch, gc_terminal | workers; epochs; engine |
| Containment executor | `containment_executor.rs` | per extension: containment state, sandbox policy, receipts | register, execute, resume | engine |
| Execution orchestrator (the engine) | `execution_orchestrator.rs` | attempt counter, reserved ids, staged receipts, ledger, sagas | execute, prepare_next_runtime_flow_guards, stage_declassification_receipt | containment; sagas; cells |
| Fleet immune protocol | `fleet_immune_protocol.rs` | per node: accepted numbers, evidence, heartbeats, pending intents, checkpoint number | process_evidence / _intent / _heartbeat, build_checkpoint | gossip; other nodes; convergence |
| Fleet convergence engine | `fleet_convergence.rs` | executed actions, escalation depth, partition mode | process_fleet_state, escalate, apply_checkpoint_decisions, update_partition_state | fleet protocol |

**Not modelled yet, or not to be modelled**: `PROJECT.json` lists these with the
reason. The planned ones, in order of what a model would add, are in section 7.
The parser, the lowering and optimisation passes, the interpreter and standard
library, the statistics of the guardplane, the release gates and reports, the
byte encodings and the command line stay out: they are pure functions over large
inputs, or I/O, with no state that steps of several actors reach.

**What makes the modelled parts hard.** Readers race publications without holding
the writer's lock. A teardown is a sequence of budgeted steps over several cells,
each of which may fail half way. Guards, leases and reports come back after the
thing they refer to was cancelled, expired or replaced. A process dies between
writing the disk and answering, a worker between acting and reporting. Gossip is
lost, repeated and overtaken. Work of one phase stays done when a later phase fails. An index, a count, a record of what was already
done is a second copy of state that every operation must keep in step. The
hazards are listed one by one, at the line where each bites, in `PROJECT.json`.

## 2. Modules

| Module | Kind |
|---|---|
| `SnapshotRegister` | abstract: an atomic register with reads that may decline |
| `SeqlockFastpath` | every shared access of the fast path; implements `SnapshotRegister` |
| `SeqlockFastpathProofs` | its theorems |
| `RegionLifecycle` | the region tree |
| `ExecutionCell`, `CancellationLifecycle` | operators on the value of a cell; no variables |
| `ExtensionHost`, `HostBinding` | two managers composed from those operators |
| `BindingProofs`, `HostProofs` | theorems about the binding and about the lifecycle manager |
| `SecurityEpoch`, `VirtualClock` | the epoch and the clock, with their bounds, that components below share |
| `EpochBarrier` | the barrier |
| `CheckpointFrontier` | the frontier with crashes |
| `LeaseTracker` | the lease store |
| `IdempotencyStore` | the dedup store and the executions it admits |
| `ProtocolProofs` | theorems about the region tree, the leases and the store |
| `UndoStack` | abstract: steps done in order, undone in reverse, or abandoned |
| `SagaOrchestrator` | the sagas and the workers that carry them out; implements `UndoStack` |
| `SagaOrchestratorProofs` | its theorems |
| `ContainmentExecutor` | the containment states and receipts |
| `ExecutionOrchestrator` | the engine, composed with the containment executor |
| `EngineProofs` | theorems about both, the checkpoint frontier and the barrier |
| `FleetProtocol` | the nodes of the fleet and the gossip between them |
| `FleetConvergence` | the engine that acts on what a node knows; extends `FleetProtocol` |
| `FleetProofs` | theorems about both |
| `SequenceFolds` | `FoldLeft` and `Front` as the community modules define them |
| `FoldLemmas` | induction over numbers, and what the folds of the community modules compute |
| `MCSeqlockFastpath`, `MCRegionLifecycle`, `MCExtensionHost`, `MCLeaseTracker`, `MCSagaOrchestrator`, `MCExecutionOrchestrator`, `MCFleet` | instances for TLC |
| `MCHosts` | both hosts over execution cells |
| `MCEpochState` | barrier and frontier, the two ratchets |
| `MCRemote` | leases and the idempotency store on one clock and one epoch |

`MCHosts`, `MCEpochState`, `MCRemote` and `MCExecutionOrchestrator` put specifications, or
sides of one, side by side: `focus`, chosen initially, says which of them moves.
`MCRemote` is a real composition: leases and executions share the clock and the epoch.

Definitions introduced by a comment that begins "Mutant:" are altered copies of the
definition that follows them. Each is a plausible mistake in that code, and for
each checked property one of them makes TLC report a violation. No specification
uses them.

### SeqlockFastpath

One action per access another thread can observe; `pc[t]` is the position of
thread `t`. `sequence`, `initialized`, `snapshot`, `writer_gate`, `rwWriter` and
`rwReaders` are the fields of `SnapshotFastPath`; `start`, `attempts`, `pressure`
and `cloned` are locals of `read_clone_or_else`. A stored value is the ticket of
the call that supplied it, `None` is ticket 0. `committed` is the value of the last
write that finished and `result[t]` the outcome of the thread's last read; both
exist for the properties.

Interleaving single accesses assumes sequential consistency. The code's weaker
orderings add no outcome, by this argument, which is not machine-checked. All
accesses to the snapshot are inside the RwLock and all writers inside the mutex.
If a reader's read lock follows a writer's write lock, the reader synchronises with
that writer and its second load sees at least the odd sequence the writer stored
before; if it precedes it, the clone is older than that write, and a second load
that misses the write belongs to a read that can be ordered before it. A reader
that sees `initialized` (Release/Acquire) sees the snapshot stored before it. The
telemetry counters are relaxed but only incremented, so their sums do not depend
on the order; their increments are folded into the access they follow.

### RegionLifecycle

A region owns its children by value, so an attached child is driven only through
the root. The tree is the set of ancestors of each region, and each recursive
descent of the code is the set of regions it reaches. `region_state` (the
field `state`), `status`, `deadline`, `elapsed` and `escalated` are the fields of a region;
`succeeded` records the regions whose finalize reported success. `Finalizing` is entered and
left inside finalize and is no state between calls.

### ExecutionCell, CancellationLifecycle, ExtensionHost, HostBinding

A cell is a record of phase, pending obligations and drain clock. Calls that can
fail return a record with `ok`, the cell and the remaining budget, so that a
manager's action threads one budget through all the cells of a teardown, in the
order the code's ordered maps iterate (`InKeyOrder`). `ExtensionHost` has one action per public
call; `last` describes what the latest call archived and what budget it left.
Sessions' errors inside the teardown of an extension are dropped, as in the code.
`HostBinding` is the other manager over the same cells: one id space for
extensions and sessions, where a second load under a live id replaces the cell. Its
variables and actions are named apart from the host's (`bound_cells`, `BindExtension`),
so that one module can state theorems about both.
Identifiers of sessions and extensions are assumed not to collide in
`ExtensionHost`; the code does not check it. Both managers lend out whole cells
(`cell_manager_mut`, `get_mut`); the models take the borrowers to register and resolve
obligations and nothing else.

### EpochBarrier

The barrier holds a count, not a set of guards. `barrier_state` is its field `state`. `guard[p]` is the copy operation
`p` holds (0: none; otherwise one more than its epoch), `running` the operations
nobody has cancelled. Operations may hand in their guard at any later time, after
a forced cancellation and in a later epoch included. Each does so once.

### CheckpointFrontier

`zones` is the manager's memory, `disk` the backend, `up` whether the process
runs. `AcceptThenCrash` is the death of the process after persist succeeded;
`Crash` is any other. A persist that fails changes nothing. `accepted` records the
sequence numbers that were made durable.

### LeaseTracker

All callers read one clock. `index` is the expiration index as a set of pairs,
`escalations` counts escalation actions per lease, `scanned` is the time of the last
scan. `advance_epoch` accepts any epoch, also an earlier one, and so does the
model. `check` and a `renew` that comes too late share `ExpireLate`.

### IdempotencyStore

A key is an input and an epoch. `started`, `executing` and `done` describe the
executions the store admitted, which it does not see itself; an execution reports
at any later time or never. Epochs only grow here, as `security_epoch.rs` requires
of its callers.

### SagaOrchestrator, UndoStack

The orchestrator keeps books and others act, so the model has both. A worker gets
its job from `begin_step` or `next_compensation_step`, carries it out, and makes a
report; `reports` keeps every report made, to be handed in any number of times,
in any order, under the action's idempotency key or one of its own. A worker may
crash before or after its action took effect. `applied` and `undone` are what really
happened, `records` what is on the books: the properties relate the two. The
refinement maps a saga to the steps on record as done and not undone.

### ContainmentExecutor, ExecutionOrchestrator

One call of `execute` is one action: what outlives the call is the state, and the
phases in between (lowering, guards, interpreter, evidence, containment, saga, cell
close) are the places where `fate` lets it fail. An attempt's number stands for the
trace, decision and saga ids made from it. A declassification receipt names the
attempt it was minted for and the obligations it approves; `stage_declassification_receipt`
takes any receipt under any ids at any time, and what keeps a receipt from serving
another attempt is the check at the time of use (`Verifies`, which stands for
`use_declassification_with_receipt` of `flow_lattice.rs`). Trusted authorizers are
fixed. A decision of the executor stands for its id and its epoch. The engine gives its saga table out by
shared reference only and keeps its containment executor private, so in the
composition sagas are created and never taken further and nothing resumes an
extension; the executor's own calls, resume included, are explored by themselves.

### FleetProtocol, FleetConvergence

`sent[m]` is the sequence of messages node `m` numbered; any observer may be handed
any of them at any later time, again, or never. `fleet[n]` is the protocol state of
an observer. One extension is followed; the code keeps different ones apart by key.
The convergence engine of an observer takes decisions from four sides (posterior,
failed containment, checkpoints of any node, partition detector) in any order.
Posteriors and thresholds are numbers from 0 to 100, actions are severities. The code's
sums of deltas saturate at the ends of `i64` and `u64`; the model's do not, so
`EvidenceCountedOnce` is about sums below that.

## 3. Runs

`tlc -config <cfg> <module>` reproduces each.

| Run | Config, module | Distinct states | Shows |
|---|---|---|---|
| `seqlock_register` | `MCSeqlockFastpath.cfg`, `MCSeqlockFastpath` | 318,492 | The fast path implements an atomic register (`RegisterSpec`), so fast-path reads never return a superseded value or go back in time. A validated clone is the last finished write, a reader in its loop never meets `None`, the read counters account for every read (in flight, served fast, or fallen back for one of three reasons), and both retry budgets hold. The counters of writes and of writer-pressure observations are modelled and appear in no property. |
| `seqlock_progress` | `MCSeqlockFastpathFair.cfg`, `MCSeqlockFastpath` | 221,357 | Every operation that started returns (`OperationsReturn`). |
| `region_protocol` | `MCRegionLifecycle.cfg`, `MCRegionLifecycle` | 663,905 | Whatever region of a tree the phases are called on: phases only advance, nothing becomes pending after cancel, an escalated region closes with everything resolved, success is never reported over unfinished work, in the region or in anything below it that the call closed. |
| `hosts` | `MCHosts.cfg`, `MCHosts` | 117,918 | With budgets that run dry anywhere in a teardown: no session cell outlives its extension and loaded records and cells agree, a first teardown leaves nothing pending, a shutdown that could have afforded more missed nothing, and from the first shutdown on, over any number of retries, no cell comes to life. For the binding, the close report is exact and unload_all misses no cell it could pay for. |
| `host_reused_session` | `MCHostReusedSession.cfg`, `MCExtensionHost` | violation | See finding 1. |
| `epoch_state` | `MCEpochState.cfg`, `MCEpochState` | 4,437 | Barrier: no operation straddles an epoch, the count is exact in spite of cancelled and outdated guards, the transition evidence adds up, and an epoch changes only to the announced one with nobody inside. Frontier, across crashes at every point: memory and disk agree, nothing is accepted that is not newer than everything accepted before, epochs never regress, the forensic window is the end of the history. |
| `remote` | `MCRemote.cfg`, `MCRemote` | 1,370,142 | The expiry index has every active lease exactly at its expiry, active leases are of the current epoch and were not overdue at the last scan, a lease that ended is neither revived nor escalated again. Every answer about a key is true, and executions of a key begin at least the time to live apart. |
| `lease_escalation` | `MCLeaseEscalation.cfg`, `MCLeaseTracker` | violation | See finding 2. |
| `saga` | `MCSaga.cfg`, `MCSagaOrchestrator` | 42,788 | Completed means that every action took effect and none was undone, compensated means that every step on record was undone, in reverse order; an active saga is of the current epoch; the books implement `UndoStack`; every saga ends. |
| `engine` | `MCEngine.cfg`, `MCExecutionOrchestrator` | 227,829 | Ids belong to one package and one execution; a declassification receipt, whatever ids it is staged under and when, serves one execution of one package, and only the package its ids were handed out for; whatever was done to an extension is on the ledger and has its saga unless the table is full; an extension never leaves its sandbox or its grave. |
| `fleet` | `MCFleet.cfg`, `MCFleet` | 1,975,784 | A trace counts once, an intent is decided by one checkpoint of a node, observers with the same intents choose the same winner, an applied checkpoint is a floor for containment, and containment only escalates. |
| `fleet_minority` | `MCFleetMinority.cfg`, `MCFleet` | violation | See finding 3. |

**Deadlock** is checked except in `region_protocol`, where a tree that is closed
has nothing left to do, and `engine`, where every attempt may have been used and an
extension that is terminated takes no action. Where the bounds of a model end its
behaviours, the specification of the fast path says so with a step of its own (`Rest`).

**Bounds.** The seqlock bounds make each of the three fallbacks happen, let a second
writer queue behind the first and let two readers overlap; three writes are what
exhausting one retry takes. Three regions make a chain with a grandchild as well as
a parent with two children; deadlines are zero and not zero. The host's budgets lie
on both sides of every threshold of a teardown (3 for the effect, 5 for a cell, 9
running dry in the second cell). Four operations and six epochs let a guard come back
two epochs late while others run. The checkpoints are a chain, a fork under the same
sequence number, a skip, an older epoch and one without quorum. Three leases with two
lifetimes share and swap index slots. Two executions of a key and two times to live
are what an overlap, and an eviction that spares a neighbour, need. Three steps are
the fewest with a step before and one after the step that fails, two workers the
fewest that disagree about one. Three attempts let a reservation be used, skipped and
used again, and a saga table of one be full. The engine is looked at from two sides. In
one, receipts are staged as prepare asks for them and everything after the guards varies;
in the other, two receipts at a time are staged under any ids for packages that share an
obligation or list one twice, and what follows the guards fails. Three messages are two intents and a
trace, two orders and a repetition; two checkpoints are what deciding an intent twice
would take; the one trace (60) lies between the suspend and the terminate threshold
(50, 80) and reaches the latter when the thresholds are tightened to three quarters.

**Symmetry** is used for threads, regions, obligations, operations and zones, which
the code compares only for identity, and never in the run that checks liveness.

**Fairness.** Two runs check liveness. `seqlock_progress` assumes weak fairness of the
steps of each thread inside an operation: a runnable thread is eventually scheduled.
Nothing is assumed about calls, nor strong fairness of the locks; bounded numbers of
calls take the place of a fair mutex, so starvation by an endless stream of writers is
outside the model, as it is outside what the standard library promises. `saga` assumes,
for each saga, that its driver keeps asking for the next action (the loop
`resumable_sagas` is made for), that workers do not crash every time, and that a report
which would be accepted is handed in some time. The first two are strong fairness,
because an idle worker and a running job come and go. Nothing is assumed about the
outcome of an action, about epochs or about garbage collection.

## 4. Proofs

Each proof follows the same argument: an inductive invariant, a lemma
per action that it is preserved, the temporal theorem by PTL, and the other
theorems from the invariant. The assumptions named below are `ASSUME`s of the modules
that declare the constants; TLC evaluates them in the runs.

Every invariant and every action property of a passing run is a theorem, and so are
both refinements. Only the two liveness properties are not.

**`SeqlockFastpathProofs`**, for any set of threads, any policy and any number of
operations below wrap-around. Assumes `NoThreadAssumption`, `BoundsAssumption` and
`NoWrapAssumption` (the 64-bit sequence does not wrap, which at a write per
nanosecond takes three centuries). `ValidatedCloneIsCommitted` says nothing about
writers in flight, so it is not inductive. `IInv` adds what the gate's holder has
done so far at each program point (`WriterPhase`), that everything is settled while
nobody is inside (`Settled`), that exactly the holder is inside (`GateOwner`), and
what a reader may conclude (`ReaderPhase`: while the sequence is still its start,
its clone is the visible content). Theorems: `SeqlockInvariant`,
`SeqlockTypeCorrect`, `SeqlockValidatedClone`, `SeqlockLoopSeesASnapshot`, and
`SeqlockRefinesRegister`, the refinement of `SnapshotRegister`: a write takes
effect when the sequence becomes even again (a seed, when it raises `initialized`),
a read when its second load validates. `SeqlockTelemetryAccounts` bounds a sum over the
reads in flight. Its invariant `TeleInv` counts a set instead: `Owing` has a pair for
every retry that some reader may still make, a call adds a whole budget of pairs, a
retry takes one away.

**`ProtocolProofs`** has three sections, one per component.

*Regions*, for any tree of regions, any obligations and deadlines
(`DeadlinesAssumption`: deadlines are numbers of ticks). `EscalationResolvesAll` is
inductive with the types (`RegionInv`). One lemma (`StepGood`) says of every step that it preserves the
invariant, moves no region back, brings no work back and reports success honestly; it
rests on what the recursion reaches beside its root (`ReachFacts`) and on what `finalize`
and `close` have in common (`ClosingFacts`). Theorems: `RegionInvariant`,
`RegionTypeCorrect`, `RegionEscalationResolves`, `RegionPhasesOnlyAdvance`,
`RegionNoNewWork`, `RegionSuccessIsHonest`.

*Leases*, for any number of leases and any times to live above zero (`LeaseBounds`).
`LeaseInv` adds to `IndexTracksActive` and `ActiveIsCurrent` that an id not given out
has neither a lease nor an index entry, and that a granted lease has a time to live;
without these a grant could meet an old entry, and a renewal could fall behind the last
scan. Theorems: `LeaseInvariant`, `LeaseTypeCorrect`, `LeaseIndexTracksActive`,
`LeaseActiveIsCurrent`, `LeaseEndedForGood`, and `LeaseEscalatedOnce`, the other half of
what the finding on lost escalations shows: a lease is escalated at most once, by a scan
or by an epoch change, and never while it is active.

*Idempotency store*, for any inputs and times to live (`StoreConfigured`: they are
natural numbers). `OncePerTtl` is about a time the store does not keep; `StoreInv` ties
it to the entry (`EntryIsLatest`: an entry was created when the latest execution of its
key began) and says why a key has no entry (`GoneIsOld`: never claimed, expired, or of
an epoch that is over). That epochs only grow is used here. Theorems:
`StoreInvariant`, `StoreAnswersAreTrue`, `StoreOncePerTtl`.

**`BindingProofs`** and **`HostProofs`**, for any extensions, sessions, obligations, events and budgets
(`ExtensionHostAssumption`, `HostBindingAssumption`: ids, deadlines and budgets are
natural numbers). A teardown folds one budget over the cells in key order, so the
invariants are about a manager as a value. `GoodHosts` are the managers whose records
and cells agree; every call maps `GoodHosts` to itself, and `HostInv` says that the state
is one. The argument that carries the proof is about money: cancelling a cell costs the
same whatever cell it is, and a budget that could not pay for a session cannot pay for
the extension that comes after it, so an extension is never archived before its
sessions. The loops are folds over any number of cells; that the order visits every key
is proved of `InKeyOrder`. Theorems: `HostRecordsMatchCells`, `HostTeardownIsQuiescent`,
`HostShutdownIsExhaustive` (with `NoCellAfterShutdown`: every call that shutdown still
admits tears down or changes a live cell), and for the binding `BindingReportsAreHonest`,
`BindingUnloadsAll`. TLC checked both inductive invariants on the instance of run `hosts`.

**`SagaOrchestratorProofs`**, for any finite set of sagas, any number of steps above zero,
any workers and any bound on epochs (`NPositive`, `SagasFinite`, `MaxEpochNat`). The
properties relate what the orchestrator reports to what workers did, so `IInv` connects
the two: a report of success was made after the effect (`ReportsAreTrue`), hence so was a
record (`RecordsAreTrue`); a saga going forward has on record exactly the steps before its
current one (`ForwardBooks`), a compensating one has outstanding exactly those up to it
(`UndoBooks`); nothing is undone before compensation begins (`NothingUndone`); and a
worker that is still on a compensation, however long ago it was handed out, may carry it
out (`CompensationJobs`). Theorems: `SagaInvariant`, `SagaTypeCorrect`,
`SagaActiveInEpoch`, `SagaCompletedIsApplied`, `SagaCompensationIsReal`, and
`SagaRefinesUndoStack`, the refinement of `UndoStack`: a report of success pushes or pops
the current step, a failed step turns the saga round, a failed compensation or an epoch
change abandons it, and handing out steps is a stutter.

**`EngineProofs`** has three sections.

*Engine and containment executor*, for any packages, obligations and number of attempts
and any saga limit (`PackagesAreExtensions`, `NeedsSequences`, `ReceiptsMinted`, `DecisionsAreActions`,
`SagaLimit`). `IdInv` adds that every number in use was taken from the counter
(`NumbersAreSpent`), that a reservation was handed out and is not executed yet
(`ReservedIsOpen`), and that every grant was made in an execution, under the number its
receipt was minted for (`GrantsWereExecuted`), so that one receipt in two grants would be
two executions under one number. `AccountInv` adds
that the saga table never exceeds its limit (`SagaRoom`): a containment without its saga
then means that the table is full and, because the engine removes no saga, stays full.
Theorems: `EngineIdsBelongToOnePackage`, `EngineReceiptServesOneExecution`,
`EngineContainmentIsAccounted`, `EngineContainmentSticks`, and
`ExecutorContainmentSticks` for the executor under all its own calls, resume included.

*Frontier*, for any zones and checkpoints and any window (`CheckpointsAssumption`,
`MaxRecentAssumption`). `NeverRollsBack` compares with everything ever accepted, also
before a crash; what makes it follow from a comparison with the frontier is
`FrontierBounds` (the frontier on disk is at least everything accepted) with
`MirrorsDisk`. The same bound shows that a sequence number is accepted once, so that
`accept_count` is the size of the history and the window its end (`HistoryInv`).
Theorems: `FrontierInvariant`, `FrontierMirrorsDisk`, `FrontierNeverRollsBack`,
`FrontierRecentIsHistory`.

*Barrier*, for any finite set of operations and any bound on epochs (`OpsFinite`,
`MaxEpochNat`). `BarrierInv` adds to the checked invariants that a cancelled guard is
inert: it can be of the current epoch only while the count is zero and nobody new can
enter (`CancelledGuardsInert`), that no guard is from the future, and that a pending
epoch is later than the current one. Theorems: `BarrierInvariant`,
`BarrierTypeCorrect`, `BarrierNoStraddle`, `BarrierCountExact`, `BarrierEvidence`,
`BarrierTransition`.

**`FleetProofs`**, for any nodes, evidence, intents and thresholds, and any loss,
repetition and reordering of messages (`FleetNodes`, `FleetData`, `EnginesObserve`,
`ThresholdsOrdered`). `ObserverInv` says of each observer that its pending intents are
distinct messages of their senders, in the order of the senders' numbers and not beyond
the last number accepted, that a checkpoint decided only intents that are no longer
pending, and that the posterior is the sum over the traces seen. `FleetWinnersAgree` is
a statement about a fold: `ResolveAll` over a list in which each sender's intents are in
order is the minimum of an order on intents (`Precedes`), and a minimum does not depend
on the order of arrival. `EngineInv` gives `AppliedIsContained`. Theorems:
`FleetIntentDecidedOnce`, `FleetEvidenceCountedOnce`, `FleetWinnersAgree`,
`FleetAppliedIsContained`, `FleetEscalatesOnly`.

**`FoldLemmas`** has what `BindingProofs`, `HostProofs` and `FleetProofs` need about data. The induction theorems of the
library take an operator as a parameter, which the provers cannot instantiate; here
induction is stated for a set of numbers (`Induction`, from `Least`, from the
well-foundedness of the strict subset order). From it follow that a recursion over
finite sets has one solution (`Recursion`, `RecursionUnique`), that `SumFunctionOnSet`
adds one element at a time (`SumOneMore`), and what `FoldLeft` computes step by step
(`LeftFold`).

Some definitions are written the way they are for the prover's sake. `InKeyOrder` replaces
a library sort that the prover does not open. The arms of `Resolve` overlapped, which in
TLA+ leaves open which one is taken; they are now exclusive, in the code's order.
`SequenceFolds` defines `FoldLeft` as `SequencesExt` does, without the bags that module
brings along: tlapm carries every definition in sight through every obligation. The
specifications that share a proof module have names of their own, and the clock and the
epoch a module each, so that they can be combined. Leaves cite `Zenon` wherever it is
enough, because the translation for the SMT solver slows down as a module grows.

**Only model-checked.** Liveness (`OperationsReturn`, `SagasEnd`) is out of the prover's
reach. The three findings are counterexamples.

## 5. Findings

1. **A session id that is used again is archived while it runs**
   (`cancellation_lifecycle.rs:338`, run `host_reused_session`). The record of
   cancelled cells is never cleared; closing a session whose id was used before takes
   the idempotent path on a new Running cell, reports success and archives it with
   its obligations pending.
2. **An escalation can be lost** (`lease_tracker.rs:517`, run `lease_escalation`).
   `check`, or a renewal that comes too late, marks the lease expired without
   escalating, and the scan then skips it.
3. **A growing partition keeps the thresholds of its first loss**
   (`fleet_convergence.rs:797`, run `fleet_minority`). While Degraded, the engine does
   not refresh the partition info; when more nodes fall silent and it is left with less
   than a quorum, the thresholds do not tighten.

## 6. Recorded behaviours

Other places where the models follow the code and a comment suggests more. No run
asserts them; they are recorded so that the properties above are read rightly.

- `Region::finalize` closes a region over pending obligations unless its own drain
  timed out, for example with a deadline of zero ticks (`region_lifecycle.rs:407`;
  line 351 says it "asserts all obligations resolved"). It then reports
  `success = false`, which is what `SuccessIsHonest` is about.
- An unload that cannot pay for the extension cell has archived the sessions it
  could pay for and leaves their ids on record (`extension_host_lifecycle.rs:512`).
- `cancel_cell` does not read `force_abort_on_timeout`; Suspend aborts like any other
  event (`cancellation_lifecycle.rs:425`).
- `ExtensionHostBinding::unload_extension` leaves the extension's sessions running
  (`execution_cell.rs:885`); `unload_all` closes them.
- `release_guard` takes a guard by reference and looks only at its epoch; a release
  made twice counts for two operations (`epoch_barrier.rs:327`). The model has every
  operation release once.
- `accept_checkpoint` does not read `prev_checkpoint`: a checkpoint that skips or forks
  the chain is accepted if it is newer and has its quorum (`checkpoint_frontier.rs:469`;
  line 394 lists "Chain linkage verification" as its third check).
- A manager of the frontier must be recovered before it is used
  (`checkpoint_frontier.rs:407`); the model starts every manager with `recover`.
- The step whose failure is on record is not compensated, although a second worker may
  have carried it out (`saga_orchestrator.rs:597`): the result of a first attempt that
  is reported after a failed retry is refused. An epoch change, also to an older epoch,
  ends sagas where they stand and their effects stay (`saga_orchestrator.rs:766`).
- The engine never takes a saga it created any further (`execution_orchestrator.rs:485`
  gives them out by shared reference), so after `max_concurrent_sagas` of them every
  action that wants one makes `execute` fail after the containment took effect.
- Receipts are staged without asking whether their ids were handed out
  (`execution_orchestrator.rs:507`). One minted and staged ahead for the next number serves
  whichever package draws that number, if it approves that package's obligation; one left
  over stays in the map.
- A package that was prepared and is never executed blocks the others
  (`execution_orchestrator.rs:738`).
- A message of the fleet that is overtaken by a later one of its sender is refused for
  good (`fleet_immune_protocol.rs:502`). `ReconciliationRequest` (line 293, "evidence
  gaps after partition heal") is declared and no handler takes it.
- With two nodes half is one: both sides of an even split reach the quorum
  (`fleet_immune_protocol.rs:908`).
- The idempotency store evicts entries by age, those in progress included
  (`idempotency_key.rs:493`), so that a retry after the time to live runs beside the
  first execution, and `mark_completed` overwrites whatever entry it finds. At most
  once holds per time to live: `OncePerTtl`.

## 7. Not modelled, and the plan

`PROJECT.json` names every part that is not modelled, with the reason. The next ones,
in the order of what a model would add:

1. `obligation_channel.rs`, `obligation_leak_policy.rs`: two-phase obligations,
   composed with regions: what a leak means for a close.
2. `revocation_chain.rs`, `revocation_enforcement.rs`, `revocation_freshness.rs`: the
   append-only chain and decisions on a stale head.
3. `anti_entropy.rs`: the exchange that would repair the gaps of the fleet protocol.
4. `supervision.rs`, `scheduler_lane.rs`, `bulkhead.rs`: restart budgets, bounded
   queues, fairness between lanes.
5. `promise_model.rs`, `module_async_evaluation.rs`: settling once, evaluation order.
6. `evidence_ledger.rs`, `marker_stream.rs`: hash-linked logs and their recovery.

Proofs to come: the components of this list, once they are modelled. What is modelled now
has a theorem for every safety property of its runs.
