--------------------------- MODULE ExecutionCell ---------------------------
(***************************************************************************)
(* ExecutionCell (execution_cell.rs): a region together with the budget of *)
(* the caller's context, as operators on the cell's value.  A call that    *)
(* can fail returns a record with ok, the cell and the budget left.        *)
(*                                                                         *)
(* Of the region (region_lifecycle.rs, module RegionLifecycle) a cell here *)
(* keeps its phase, its pending obligations and its drain clock.  The copy *)
(* of a session's region that create_session attaches to the parent never  *)
(* holds an obligation and follows the parent's phases, so it changes no   *)
(* result and is left out, as are logs and identifiers.                    *)
(***************************************************************************)
EXTENDS Naturals, FiniteSets

\* Budget costs, in milliseconds.
LifecycleTransitionCost == 3
CellTransitionCost == 2

\* The keys of an ordered map, in the order its iterators visit them.
InKeyOrder(S) ==
  CHOOSE q \in [1..Cardinality(S) -> S] :
    \A i, j \in 1..Cardinality(S) : i < j => q[i] < q[j]

NoCell == [state |-> "absent", pending |-> {}, deadline |-> 0, escalated |-> FALSE]
NewCell == [NoCell EXCEPT !.state = "Running"]

RegisterObligation(cell, o) ==
  IF cell.state = "Running" THEN [cell EXCEPT !.pending = @ \cup {o}] ELSE cell

\* commit_obligation and abort_obligation
ResolveObligation(cell, o) == [cell EXCEPT !.pending = @ \ {o}]

\* Only running cells accept effects; a refused effect costs nothing.
ExecuteEffect(cell, cost, budget) ==
  LET ok == cell.state = "Running" /\ budget >= cost
  IN [ok |-> ok, cell |-> cell, budget |-> IF ok THEN budget - cost ELSE budget]

\* cancel, then drain.  The budget is charged before the phase is tested.
InitiateClose(cell, budget, deadline) ==
  LET paid == budget >= CellTransitionCost
      ok == paid /\ cell.state = "Running"
  IN [ok |-> ok,
      cell |-> IF ok THEN [cell EXCEPT !.state = "Draining", !.deadline = deadline]
                     ELSE cell,
      budget |-> IF paid THEN budget - CellTransitionCost ELSE budget]

\* Up to n drain ticks, none once nothing is pending; ticks resolve nothing.
DrainTicks(cell, n) ==
  IF cell.pending = {} THEN cell
  ELSE [cell EXCEPT !.escalated = @ \/ (n > 0 /\ n >= cell.deadline)]

\* A drain that timed out aborts what is pending; Closed is reached either way.
Finalize(cell) ==
  LET left == IF cell.escalated THEN {} ELSE cell.pending
  IN [cell |-> [cell EXCEPT !.state = "Closed", !.pending = left],
      success |-> left = {},
      aborted |-> cell.pending \ left]

\* Mutant: success is what the drain saw, not what finalize left.
CloseReportsDrain(cell, budget, deadline) ==
  LET r == InitiateClose(cell, budget, deadline)
      f == Finalize(DrainTicks(r.cell, deadline))
  IN IF r.ok THEN [ok |-> TRUE, cell |-> f.cell, budget |-> r.budget,
                   success |-> TRUE, aborted |-> f.aborted]
     ELSE [ok |-> FALSE, cell |-> r.cell, budget |-> r.budget,
           success |-> FALSE, aborted |-> {}]

\* The whole of close: initiate_close, the drain loop, finalize.
Close(cell, budget, deadline) ==
  LET r == InitiateClose(cell, budget, deadline)
      f == Finalize(DrainTicks(r.cell, deadline))
  IN IF r.ok THEN [ok |-> TRUE, cell |-> f.cell, budget |-> r.budget,
                   success |-> f.success, aborted |-> f.aborted]
     ELSE [ok |-> FALSE, cell |-> r.cell, budget |-> r.budget,
           success |-> FALSE, aborted |-> {}]
=============================================================================
