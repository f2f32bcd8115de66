----------------------- MODULE CancellationLifecycle -----------------------
(***************************************************************************)
(* CancellationManager (cancellation_lifecycle.rs): cancel_cell as an      *)
(* operator on the cell, the idempotency record and the caller's budget.   *)
(* Evidence events and the list of outcomes are left out; an outcome is    *)
(* returned.                                                               *)
(***************************************************************************)
EXTENDS ExecutionCell

LifecycleEvents == {"Unload", "Quarantine", "Suspend", "Terminate", "Revocation"}

\* CancellationMode::for_event: drain_budget_ticks.  force_abort_on_timeout and
\* propagate_to_children are configured per event and read nowhere.
DrainBudgetTicks ==
  [ev \in LifecycleEvents |->
     CASE ev = "Unload" -> 10000 [] ev = "Quarantine" -> 1000
       [] ev = "Suspend" -> 5000 [] ev = "Terminate" -> 0
       [] ev = "Revocation" -> 500]

\* Mutant: a zero-tick budget runs no tick at all.
EffectiveTicksPlain(cell, ev) == DrainBudgetTicks[ev]

\* One tick even on a zero budget when something is pending.
EffectiveTicks(cell, ev) ==
  IF DrainBudgetTicks[ev] = 0 /\ cell.pending # {} THEN 1 ELSE DrainBudgetTicks[ev]

Failed(cell, budget) ==
  [ok |-> FALSE, cell |-> cell, budget |-> budget,
   idempotent |-> FALSE, success |-> FALSE, aborted |-> {}]

\* Mutant: both charges are tested before either is made.
CancelCellPrepaid(cell, cancelled, budget, ev) ==
  IF cancelled \/ cell.state = "Closed"
  THEN [ok |-> TRUE, cell |-> cell, budget |-> budget,
        idempotent |-> TRUE, success |-> TRUE, aborted |-> {}]
  ELSE IF budget < LifecycleTransitionCost + CellTransitionCost
  THEN Failed(cell, budget)
  ELSE LET e == ExecuteEffect(cell, LifecycleTransitionCost, budget)
           c == InitiateClose(e.cell, e.budget, DrainBudgetTicks[ev])
           f == Finalize(DrainTicks(c.cell, EffectiveTicks(c.cell, ev)))
       IN [ok |-> TRUE, cell |-> f.cell, budget |-> c.budget,
           idempotent |-> FALSE, success |-> f.success /\ f.aborted = {},
           aborted |-> f.aborted]

\* cancel_cell: a cell already on record, or already Closed, is left as it is
\* and reported successful; otherwise effect, cancel, drain, finalize.  What is
\* still pending after the ticks is the timeout escalation.
CancelCell(cell, cancelled, budget, ev) ==
  IF cancelled \/ cell.state = "Closed"
  THEN [ok |-> TRUE, cell |-> cell, budget |-> budget,
        idempotent |-> TRUE, success |-> TRUE, aborted |-> {}]
  ELSE LET e == ExecuteEffect(cell, LifecycleTransitionCost, budget)
           c == InitiateClose(e.cell, e.budget, DrainBudgetTicks[ev])
           f == Finalize(DrainTicks(c.cell, EffectiveTicks(c.cell, ev)))
       IN IF ~e.ok THEN Failed(cell, budget)
          ELSE IF ~c.ok THEN Failed(c.cell, c.budget)
          ELSE [ok |-> TRUE, cell |-> f.cell, budget |-> c.budget,
                idempotent |-> FALSE, success |-> f.success /\ c.cell.pending = {},
                aborted |-> f.aborted]
=============================================================================
