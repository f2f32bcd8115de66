---------------------------- MODULE HostBinding ----------------------------
(***************************************************************************)
(* ExtensionHostBinding over CellManager (execution_cell.rs): the binding  *)
(* that loads extensions, starts sessions and unloads through close_cell.  *)
(*                                                                         *)
(* Extension and session ids share one map, so any id may name either and  *)
(* a second load or start under a live id replaces the cell.  owner records*)
(* the extension a session cell was started in.  Evidence entries and the  *)
(* decision and policy ids they carry are left out.                        *)
(***************************************************************************)
EXTENDS ExecutionCell, SequenceFolds

CONSTANTS Ids,              \* cell ids; numbers, in the order of the map
          BoundObligations, \* obligation ids, per cell
          Deadlines,        \* default_drain_deadline.max_ticks of a binding
          BoundBudgets      \* budgets a caller's context may carry

ASSUME HostBindingAssumption ==
  Ids \subseteq Nat /\ Deadlines \subseteq Nat /\ BoundBudgets \subseteq Nat

VARIABLES bound_cells,  \* CellManager.cells
          owner,        \* owner[x]: the extension of session x, 0 for none
          deadline,     \* default_drain_deadline
          bound_last    \* what the last call was, closed and left over

bound == <<bound_cells, owner, deadline, bound_last>>

Idle == [call |-> "other", closed |-> {}, left |-> 0]

BindingInit == /\ bound_cells = [x \in Ids |-> NoCell]
               /\ owner = [x \in Ids |-> 0]
               /\ deadline \in Deadlines
               /\ bound_last = Idle

Bound == {x \in Ids : bound_cells[x] # NoCell}

\* The manager as a value, threaded through unload_all.
Bindings(b) == [cells |-> bound_cells, owner |-> owner, closed |-> {}, budget |-> b]

Unloaded(call, m) ==
  /\ bound_cells' = m.cells
  /\ owner' = m.owner
  /\ bound_last' = [call |-> call, closed |-> m.closed, left |-> m.budget]
  /\ UNCHANGED deadline

\* close_cell: a cell whose close failed stays as the close left it.
CloseCell(m, x) ==
  LET r == Close(m.cells[x], m.budget, deadline)
  IN IF r.ok
     THEN [m EXCEPT !.cells[x] = NoCell, !.owner[x] = 0, !.budget = r.budget,
                    !.closed = @ \cup {[id |-> x, cell |-> r.cell,
                                        success |-> r.success]}]
     ELSE [m EXCEPT !.cells[x] = r.cell, !.budget = r.budget]

BindExtension(x, b) ==
  /\ b >= CellTransitionCost
  /\ bound_cells' = [bound_cells EXCEPT ![x] = NewCell]
  /\ owner' = [owner EXCEPT ![x] = 0]
  /\ bound_last' = Idle
  /\ UNCHANGED deadline

StartSession(x, s) ==
  /\ bound_cells[x].state = "Running"
  /\ bound_cells' = [bound_cells EXCEPT ![s] = NewCell]
  /\ owner' = [owner EXCEPT ![s] = x]
  /\ bound_last' = Idle
  /\ UNCHANGED deadline

\* unload_extension, on whatever cell has that id.
UnloadExtension(x, b) ==
  /\ bound_cells[x] # NoCell
  /\ Unloaded("unload", CloseCell(Bindings(b), x))

\* Mutant: the loop stops one short.
UnloadAllButLast(b) ==
  LET live == InKeyOrder(Bound)
  IN Unloaded("unload_all",
              FoldLeft(CloseCell, Bindings(b), IF live = <<>> THEN live ELSE Front(live)))

\* unload_all: every id present at the start, in order.
UnloadAll(b) ==
  Unloaded("unload_all", FoldLeft(CloseCell, Bindings(b), InKeyOrder(Bound)))

\* The code of the extension, on its own cell, by cell_manager_mut and get_mut:
\* of what the borrowed cell allows, obligations are registered and resolved.
BoundRegister(x, o) ==
  /\ bound_cells[x].state = "Running"
  /\ bound_cells' = [bound_cells EXCEPT ![x] = RegisterObligation(@, o)]
  /\ bound_last' = Idle
  /\ UNCHANGED <<owner, deadline>>

BoundResolve(x, o) ==
  /\ o \in bound_cells[x].pending
  /\ bound_cells' = [bound_cells EXCEPT ![x] = ResolveObligation(@, o)]
  /\ bound_last' = Idle
  /\ UNCHANGED <<owner, deadline>>

BindingNext ==
  \/ \E x \in Ids, b \in BoundBudgets : BindExtension(x, b) \/ UnloadExtension(x, b)
  \/ \E x, s \in Ids : StartSession(x, s)
  \/ \E b \in BoundBudgets : UnloadAll(b)
  \/ \E x \in Ids, o \in BoundObligations : BoundRegister(x, o) \/ BoundResolve(x, o)

BindingSpec == BindingInit /\ [][BindingNext]_bound

(***************************************************************************)
(* Properties.                                                             *)
(***************************************************************************)
\* The report of close_cell is honest: success is reported exactly when the
\* destroyed cell had nothing pending, a zero-tick deadline included.
ReportIsHonest ==
  \A a \in bound_last.closed :
    a.cell.state = "Closed" /\ (a.success <=> a.cell.pending = {})

\* An unload_all that could still pay for one more close left no cell behind,
\* sessions whose extension was closed before them included.
UnloadAllIsExhaustive ==
  bound_last.call = "unload_all" /\ bound_last.left >= CellTransitionCost => Bound = {}
=============================================================================
