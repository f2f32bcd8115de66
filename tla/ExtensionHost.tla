--------------------------- MODULE ExtensionHost ---------------------------
(***************************************************************************)
(* ExtensionHostLifecycleManager (extension_host_lifecycle.rs): loads,     *)
(* sessions and teardown over the cells of a CellManager and the           *)
(* idempotency record of a CancellationManager.                            *)
(*                                                                         *)
(* Every public call is one action; the context handed to it carries a     *)
(* budget, spent across all the cells the call tears down.  Extensions and *)
(* sessions are numbers, which fixes the order the ordered maps iterate    *)
(* in.  The cell of session s of extension e is <<e, s>>, the extension's  *)
(* own cell is <<e, 0>>: identifiers are assumed not to collide.  The list *)
(* of closed cells is represented by the entries the last call appended.   *)
(***************************************************************************)
EXTENDS CancellationLifecycle, SequenceFolds

CONSTANTS Extensions,   \* extension ids
          Sessions,     \* the session ids used in each extension, all positive
          Obligations,  \* obligation ids, per cell
          Events,       \* lifecycle events extensions are cancelled with
          Budgets       \* budgets a caller's context may carry

ASSUME ExtensionHostAssumption ==
  /\ Extensions \subseteq Nat
  /\ Sessions \in [Extensions -> SUBSET (Nat \ {0})]
  /\ Events \subseteq LifecycleEvents
  /\ Budgets \subseteq Nat

VARIABLES ext,            \* ExtensionRecord: "absent", "loaded" or "unloaded"
          sessions,       \* ExtensionRecord.sessions
          cells,          \* CellManager.cells
          cancelled,      \* CancellationManager.cancelled_cells
          shutting_down,
          last            \* what the last call was, appended and left over

vars == <<ext, sessions, cells, cancelled, shutting_down, last>>

CellIds == UNION {{e} \X ({0} \cup Sessions[e]) : e \in Extensions}
Quiet == [call |-> "other", archived |-> {}, left |-> 0]

Init == /\ ext = [e \in Extensions |-> "absent"]
        /\ sessions = [e \in Extensions |-> {}]
        /\ cells = [c \in CellIds |-> NoCell]
        /\ cancelled = {}
        /\ shutting_down = FALSE
        /\ last = Quiet

(***************************************************************************)
(* The manager as a value, threaded through the loops of one call.         *)
(***************************************************************************)
Manager(b) == [ext |-> ext, sessions |-> sessions, cells |-> cells,
               cancelled |-> cancelled, archived |-> {}, budget |-> b]

Return(call, m) ==
  /\ ext' = m.ext
  /\ sessions' = m.sessions
  /\ cells' = m.cells
  /\ cancelled' = m.cancelled
  /\ last' = [call |-> call, archived |-> m.archived, left |-> m.budget]

\* cancel_cell on the manager's cell c: the cell, the record and the budget.
Cancelled(m, c, ev, r) ==
  [m EXCEPT !.cells[c] = r.cell, !.budget = r.budget,
            !.cancelled = IF r.ok /\ ~r.idempotent THEN @ \cup {c} ELSE @]

\* archive_cell: the cell is dropped as it is, its result is appended.
Archive(m, c, ev, r) ==
  [m EXCEPT !.cells[c] = NoCell,
            !.archived = @ \cup {[id |-> c, event |-> ev, cell |-> m.cells[c],
                                  idempotent |-> r.idempotent,
                                  success |-> r.success, aborted |-> r.aborted]}]

\* Cancel c and archive it if that succeeded.
TearDown(m, c, ev) ==
  LET r == CancelCell(m.cells[c], c \in m.cancelled, m.budget, ev)
      done == Cancelled(m, c, ev, r)
  IN IF r.ok THEN Archive(done, c, ev, r) ELSE done

\* Mutant: sessions are left to the extension's region.
CancelSessionsNone(m, e, ev) == m

\* Cancel the extension's sessions in order; errors are dropped.
CancelSessions(m, e, ev) ==
  FoldLeft(LAMBDA n, s : IF n.cells[<<e, s>>].state = "Running"
                         THEN TearDown(n, <<e, s>>, ev) ELSE n,
           m, InKeyOrder(m.sessions[e]))

\* The extension's sessions, then its own cell.  If that fails the record is
\* kept as it was, whatever happened to the sessions.
CancelledExtension(m, e, ev) ==
  LET n == TearDown(CancelSessions(m, e, ev), <<e, 0>>, ev)
  IN IF n.cells[<<e, 0>>] = NoCell
     THEN [n EXCEPT !.ext[e] = "unloaded", !.sessions[e] = {}]
     ELSE n

(***************************************************************************)
(* The calls.                                                              *)
(***************************************************************************)
LoadExtension(e) ==
  /\ ~shutting_down
  /\ ext[e] = "absent"
  /\ ext' = [ext EXCEPT ![e] = "loaded"]
  /\ cells' = [cells EXCEPT ![<<e, 0>>] = NewCell]
  /\ last' = Quiet
  /\ UNCHANGED <<sessions, cancelled, shutting_down>>

CreateSession(e, s) ==
  /\ ~shutting_down
  /\ ext[e] = "loaded"
  /\ s \notin sessions[e]
  /\ cells[<<e, 0>>].state = "Running"
  /\ cells' = [cells EXCEPT ![<<e, s>>] = NewCell]
  /\ sessions' = [sessions EXCEPT ![e] = @ \cup {s}]
  /\ last' = Quiet
  /\ UNCHANGED <<ext, cancelled, shutting_down>>

CloseSession(e, s, b) ==
  /\ s \in sessions[e]
  /\ cells[<<e, s>>] # NoCell
  /\ LET m == TearDown(Manager(b), <<e, s>>, "Unload") IN
     Return("close_session",
            IF m.cells[<<e, s>>] = NoCell
            THEN [m EXCEPT !.sessions[e] = @ \ {s}] ELSE m)
  /\ UNCHANGED shutting_down

\* cancel_extension; unload_extension is the same with event Unload.
CancelExtension(e, ev, b) ==
  /\ ext[e] = "loaded"
  /\ Return("cancel", CancelledExtension(Manager(b), e, ev))
  /\ UNCHANGED shutting_down

\* Every loaded extension in order, whatever the ones before it returned.
Shutdown(b) ==
  /\ shutting_down' = TRUE
  /\ Return("shutdown",
            FoldLeft(LAMBDA m, e : CancelledExtension(m, e, "Terminate"),
                     Manager(b),
                     InKeyOrder({e \in Extensions : ext[e] = "loaded"})))

\* The code of an extension or session, on its own cell.  cell_manager_mut and
\* get_mut lend the whole cell; what callers do with it is taken to be
\* registering and resolving obligations.
CellRegister(c, o) ==
  /\ cells[c].state = "Running"
  /\ cells' = [cells EXCEPT ![c] = RegisterObligation(@, o)]
  /\ last' = Quiet
  /\ UNCHANGED <<ext, sessions, cancelled, shutting_down>>

CellResolve(c, o) ==
  /\ o \in cells[c].pending
  /\ cells' = [cells EXCEPT ![c] = ResolveObligation(@, o)]
  /\ last' = Quiet
  /\ UNCHANGED <<ext, sessions, cancelled, shutting_down>>

Next ==
  \/ \E e \in Extensions :
       \/ LoadExtension(e)
       \/ \E s \in Sessions[e] :
            CreateSession(e, s) \/ \E b \in Budgets : CloseSession(e, s, b)
       \/ \E ev \in Events, b \in Budgets : CancelExtension(e, ev, b)
  \/ \E b \in Budgets : Shutdown(b)
  \/ \E c \in CellIds, o \in Obligations : CellRegister(c, o) \/ CellResolve(c, o)

Spec == Init /\ [][Next]_vars

(***************************************************************************)
(* Properties.                                                             *)
(***************************************************************************)
Live == {c \in CellIds : cells[c] # NoCell}

\* Records and cells agree.  A record says loaded exactly while the extension's
\* cell is there (is_extension_running), and no session cell outlives its
\* extension: a live one belongs to a loaded extension that still lists it.  The
\* teardown of an extension drops the errors of its sessions, so this rests on
\* the budget: a session that could not be paid for leaves too little for the
\* extension cell as well.
RecordsMatchCells ==
  \A e \in Extensions :
    /\ ext[e] = "loaded" <=> <<e, 0>> \in Live
    /\ \A s \in Sessions[e] :
         <<e, s>> \in Live => ext[e] = "loaded" /\ s \in sessions[e]

\* A cell torn down for the first time is archived Closed with nothing
\* pending, for every event and every way the drain ended.
TeardownIsQuiescent ==
  \A a \in last.archived :
    ~a.idempotent => a.cell.state = "Closed" /\ a.cell.pending = {}

ShutdownMissedNothing ==
  last.call = "shutdown" /\ last.left >= LifecycleTransitionCost =>
    Live = {} /\ \A e \in Extensions : ext[e] # "loaded"

\* Shutdown is exhaustive and final.  One that could still pay for one more
\* transition missed nothing: no cell is left and no extension counts as
\* running.  And from the first shutdown on, however many retries it takes and
\* whatever is called between them, no cell comes to life, so what a shutdown
\* cleared stays clear.
ShutdownIsExhaustive ==
  [][ShutdownMissedNothing' /\ (shutting_down => Live' \subseteq Live)]_vars

\* "No dangling work survives region destruction": every archived cell,
\* those reported by the idempotent path included, is Closed and drained.
ArchivedIsQuiescent ==
  \A a \in last.archived : a.cell.state = "Closed" /\ a.cell.pending = {}
=============================================================================
