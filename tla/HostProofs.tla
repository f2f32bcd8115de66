----------------------------- MODULE HostProofs -----------------------------
(***************************************************************************)
(* Proofs about the extension host's lifecycle manager: for any            *)
(* extensions, sessions, obligations and budgets, and loops over any       *)
(* number of cells.                                                        *)
(***************************************************************************)
EXTENDS ExtensionHost, BindingProofs
-----------------------------------------------------------------------------
(* The lifecycle manager: one cell. *)

LEMMA Ticks ==
  ASSUME NEW O, NEW c \in Cells(O), NEW ev \in LifecycleEvents
  PROVE  /\ DrainBudgetTicks[ev] \in Nat /\ EffectiveTicks(c, ev) \in Nat
         /\ EffectiveTicks(c, ev) >= DrainBudgetTicks[ev]
         /\ c.pending # {} => EffectiveTicks(c, ev) > 0
<1>1. DrainBudgetTicks[ev] \in Nat
  BY DEF DrainBudgetTicks, LifecycleEvents
<1> QED
  BY <1>1 DEF EffectiveTicks

\* What cancel_cell returns, for a cell c that is absent or runs.
CancelResults(O) == [ok : BOOLEAN, cell : Cells(O), budget : Nat, idempotent : BOOLEAN,
                     success : BOOLEAN, aborted : SUBSET O]
CancelResult(c, k, b, r) ==
  /\ r.budget <= b
  /\ r.ok /\ ~r.idempotent => /\ r.cell.state = "Closed" /\ r.cell.pending = {}
                              /\ b >= LifecycleTransitionCost
  /\ ~r.ok => r.cell = c /\ (c = NoCell \/ r.budget < LifecycleTransitionCost)
  /\ r.ok /\ r.idempotent => k
  /\ r.idempotent => r.ok

LEMMA FailedCancel ==
  ASSUME NEW O, NEW c \in Held(O), NEW k \in BOOLEAN, NEW b \in Nat, NEW left \in Nat, left <= b,
         c = NoCell \/ left < LifecycleTransitionCost
  PROVE  Failed(c, left) \in CancelResults(O) /\ CancelResult(c, k, b, Failed(c, left))
<1>1. c \in Cells(O)
  BY HeldIsRecord, Zenon
<1> QED
  BY <1>1, Zenon DEF Failed, CancelResults, CancelResult

LEMMA CancelledCell ==
  ASSUME NEW O, NEW c \in Held(O), NEW k \in BOOLEAN, NEW b \in Nat, NEW ev \in LifecycleEvents
  PROVE  /\ CancelCell(c, k, b, ev) \in CancelResults(O)
         /\ CancelResult(c, k, b, CancelCell(c, k, b, ev))
<1>1. c \in Cells(O) /\ c.state # "Closed" /\ (c.state = "Running" <=> c # NoCell)
  BY HeldIsRecord, Zenon
<1>2. PICK q : q = CancelCell(c, k, b, ev)
  BY Zenon
<1>3. PICK e, d, f : /\ e = ExecuteEffect(c, LifecycleTransitionCost, b)
                     /\ d = InitiateClose(e.cell, e.budget, DrainBudgetTicks[ev])
                     /\ f = Finalize(DrainTicks(d.cell, EffectiveTicks(d.cell, ev)))
  BY Zenon
<1>4. CASE k
  <2>1. q = [ok |-> TRUE, cell |-> c, budget |-> b,
             idempotent |-> TRUE, success |-> TRUE, aborted |-> {}]
    BY <1>2, <1>4, Zenon DEF CancelCell
  <2> QED
    <3>1. q \in CancelResults(O)
      BY <1>1, <2>1, Zenon DEF CancelResults
    <3>2. q.ok /\ q.idempotent /\ q.budget = b
      BY <2>1, Zenon
    <3>3. b <= b
      OBVIOUS
    <3> QED
      BY <1>2, <1>4, <3>1, <3>2, <3>3, Zenon DEF CancelResult
<1>5. CASE ~k
  <2>1. q = IF ~e.ok THEN Failed(c, b)
            ELSE IF ~d.ok THEN Failed(d.cell, d.budget)
            ELSE [ok |-> TRUE, cell |-> f.cell, budget |-> d.budget, idempotent |-> FALSE,
                  success |-> f.success /\ d.cell.pending = {}, aborted |-> f.aborted]
    BY <1>1, <1>2, <1>3, <1>5, Zenon DEF CancelCell
  <2>2. PICK ok \in BOOLEAN : ok = (c.state = "Running" /\ b >= LifecycleTransitionCost)
    BY Zenon
  <2>7. ok <=> c # NoCell /\ b >= LifecycleTransitionCost
    BY <1>1, <2>2, Zenon
  <2>3. e = [ok |-> ok, cell |-> c,
             budget |-> IF ok THEN b - LifecycleTransitionCost ELSE b]
    BY <1>3, <2>2, Zenon DEF ExecuteEffect
  <2>4. e.ok = ok /\ e.cell = c /\ (ok => e.budget = b - LifecycleTransitionCost)
    BY <2>3, Zenon
  <2>5. CASE ~ok
    <3>1. q = Failed(c, b)
      BY <2>1, <2>4, <2>5, Zenon
    <3>2. c = NoCell \/ b < LifecycleTransitionCost
      BY <2>5, <2>7 DEF LifecycleTransitionCost
    <3> QED
      BY <1>2, <3>1, <3>2, FailedCancel
  <2>6. CASE ok
    <3>1. PICK p \in Nat : p = e.budget /\ p = b - LifecycleTransitionCost
      BY <2>4, <2>6, <2>7 DEF LifecycleTransitionCost
    <3>2. PICK n \in Nat : n = DrainBudgetTicks[ev]
      BY <1>1, Ticks, Zenon
    <3>3. d = InitiateClose(c, p, n)
      BY <1>3, <2>4, <3>1, <3>2, Zenon
    <3>4. /\ d.ok \in BOOLEAN /\ d.cell \in Cells(O) /\ d.budget \in Nat /\ d.budget <= p
          /\ d.ok <=> p >= CellTransitionCost /\ c # NoCell
          /\ d.ok => d.cell.pending = c.pending /\ d.cell.deadline = n
          /\ ~d.ok => d.cell = c
          /\ p < CellTransitionCost => d.budget = p
      BY <3>3, InitiatedClose
    <3>5. CASE ~d.ok
      <4>1. q = Failed(c, d.budget)
        BY <2>1, <2>4, <2>6, <3>4, <3>5, Zenon
      <4>2. c = NoCell \/ d.budget < LifecycleTransitionCost
        BY <3>4, <3>5 DEF LifecycleTransitionCost, CellTransitionCost
      <4>3. d.budget <= b
        BY <3>1, <3>4 DEF LifecycleTransitionCost
      <4> QED
        BY <1>2, <3>4, <4>1, <4>2, <4>3, FailedCancel, Zenon
    <3>6. CASE d.ok
      <4>1. PICK g \in Cells(O), t \in Nat : g = d.cell /\ t = EffectiveTicks(g, ev)
        BY <3>4, Ticks, Zenon
      <4>2. t >= n /\ (g.pending # {} => t > 0) /\ g.deadline = n
        BY <3>2, <3>4, <3>6, <4>1, Ticks, Zenon
      <4>3. PICK h \in Cells(O) : h = DrainTicks(g, t) /\ h.pending = g.pending
                                  /\ (g.pending # {} => h.escalated)
        BY <4>1, <4>2, DrainedCell, Zenon
      <4>4. f = Finalize(h)
        BY <1>3, <4>1, <4>3, Zenon
      <4>5. /\ f.cell \in Cells(O) /\ f.cell.state = "Closed" /\ f.success \in BOOLEAN
            /\ f.aborted \in SUBSET O /\ f.cell.pending = {}
        BY <4>3, <4>4, FinalizedCell
      <4>6. PICK yes \in BOOLEAN : yes = (f.success /\ d.cell.pending = {})
        BY <4>5, Zenon
      <4>7. q = [ok |-> TRUE, cell |-> f.cell, budget |-> d.budget, idempotent |-> FALSE,
                 success |-> yes, aborted |-> f.aborted]
        BY <2>1, <2>4, <2>6, <3>6, <4>6, Zenon
      <4>8. d.budget <= b /\ b >= LifecycleTransitionCost
        BY <2>6, <2>7, <3>1, <3>4 DEF LifecycleTransitionCost
      <4>9. q \in CancelResults(O)
        BY <3>4, <4>5, <4>7, Zenon DEF CancelResults
      <4> QED
        BY <1>2, <4>5, <4>7, <4>8, <4>9 DEF CancelResult
    <3> QED
      BY <3>4, <3>5, <3>6, Zenon
  <2> QED
    BY <2>5, <2>6, Zenon
<1> QED
  BY <1>4, <1>5, Zenon

ArchivedCells ==
  {a \in [id : CellIds, event : LifecycleEvents, cell : Cells(Obligations), idempotent : BOOLEAN,
          success : BOOLEAN, aborted : SUBSET Obligations] :
     ~a.idempotent => a.cell.state = "Closed" /\ a.cell.pending = {}}

Hosts ==
  [ext : [Extensions -> {"absent", "loaded", "unloaded"}], sessions : [Extensions -> SUBSET Nat],
   cells : [CellIds -> Held(Obligations)], cancelled : SUBSET CellIds,
   archived : SUBSET ArchivedCells, budget : Nat]

\* From m to n cells of D were torn down, and records left alone.
Shrinks(m, n, D) ==
  /\ n.ext = m.ext /\ n.sessions = m.sessions /\ n.budget <= m.budget
  /\ \A d \in CellIds : n.cells[d] = m.cells[d] \/ (d \in D /\ n.cells[d] = NoCell)
  /\ \A d \in CellIds : d \in n.cancelled => d \in m.cancelled \/ d \in D

\* What tearing down c makes of the manager m.
TornDown(m, n, c) ==
  /\ Shrinks(m, n, {c})
  /\ n.budget >= LifecycleTransitionCost => n.cells[c] = NoCell
  /\ n.cells[c] # NoCell /\ c \in n.cancelled => c \in m.cancelled
  /\ m.cells[c] # NoCell /\ n.cells[c] = NoCell =>
       c \in m.cancelled \/ m.budget >= LifecycleTransitionCost

LEMMA TearDownStep ==
  ASSUME NEW m \in Hosts, NEW c \in CellIds, NEW ev \in LifecycleEvents
  PROVE  TearDown(m, c, ev) \in Hosts /\ TornDown(m, TearDown(m, c, ev), c)
<1>1. PICK d \in Held(Obligations) : d = m.cells[c]
  BY Zenon DEF Hosts
<1>2. PICK b \in Nat : b = m.budget
  BY Zenon DEF Hosts
<1>3. PICK k \in BOOLEAN : k = (c \in m.cancelled)
  <2>1. CASE c \in m.cancelled
    <3>1. TRUE = (c \in m.cancelled)
      BY <2>1, Zenon
    <3> QED
      BY <3>1, Zenon
  <2>2. CASE c \notin m.cancelled
    <3>1. FALSE = (c \in m.cancelled)
      BY <2>2
    <3> QED
      BY <3>1, Zenon
  <2> QED
    BY <2>1, <2>2, Zenon
<1>4. PICK r : r = CancelCell(d, k, b, ev)
  BY Zenon
<1>5. r \in CancelResults(Obligations) /\ CancelResult(d, k, b, r)
  BY <1>4, CancelledCell, Zenon
<1>6. PICK can \in SUBSET CellIds : can = IF r.ok /\ ~r.idempotent THEN m.cancelled \cup {c}
                                                                   ELSE m.cancelled
  BY Zenon DEF Hosts
<1>7. PICK done : done = Cancelled(m, c, ev, r)
  BY Zenon
<1>8. TearDown(m, c, ev) = IF r.ok THEN Archive(done, c, ev, r) ELSE done
  BY <1>1, <1>2, <1>3, <1>4, <1>7, Zenon DEF TearDown
<1>9. done = [ext |-> m.ext, sessions |-> m.sessions, cells |-> [m.cells EXCEPT ![c] = r.cell],
              cancelled |-> can, archived |-> m.archived, budget |-> r.budget]
  BY <1>6, <1>7, Zenon DEF Cancelled, Hosts
<1>10. r.budget \in Nat /\ r.ok \in BOOLEAN /\ r.budget <= b /\ r.idempotent \in BOOLEAN
  BY <1>5, Zenon DEF CancelResults, CancelResult
<1>11. CASE r.ok
  <2>1. PICK a : a = [id |-> c, event |-> ev, cell |-> r.cell, idempotent |-> r.idempotent,
                      success |-> r.success, aborted |-> r.aborted]
    BY Zenon
  <2>2. a \in ArchivedCells
    <3>1. a \in [id : CellIds, event : LifecycleEvents, cell : Cells(Obligations),
                 idempotent : BOOLEAN, success : BOOLEAN, aborted : SUBSET Obligations]
      BY <1>5, <2>1, Zenon DEF CancelResults
    <3>2. a.cell = r.cell /\ a.idempotent = r.idempotent
      BY <2>1, Zenon
    <3> QED
      BY <1>5, <1>11, <3>1, <3>2, Zenon DEF ArchivedCells, CancelResult
  <2>3. PICK w : w = [m.cells EXCEPT ![c] = NoCell]
    BY Zenon
  <2>4. /\ w \in [CellIds -> Held(Obligations)] /\ w[c] = NoCell
        /\ \A y \in CellIds : y # c => w[y] = m.cells[y]
    BY <2>3, NewCellHeld, Zenon DEF Hosts
  <2>5. done.cells[c] = r.cell
    BY <1>9, Zenon DEF Hosts
  <2>6. Archive(done, c, ev, r) = [ext |-> m.ext, sessions |-> m.sessions, cells |-> w,
          cancelled |-> can, archived |-> m.archived \cup {a}, budget |-> r.budget]
    <3>1. Archive(done, c, ev, r) = [done EXCEPT !.cells[c] = NoCell, !.archived = @ \cup {a}]
      BY <2>1, <2>5, Zenon DEF Archive
    <3>2. [[m.cells EXCEPT ![c] = r.cell] EXCEPT ![c] = NoCell] = w
      BY <2>3, Zenon DEF Hosts
    <3> QED
      BY <1>9, <3>1, <3>2, Zenon
  <2>7. PICK n : n = TearDown(m, c, ev)
    OBVIOUS
  <2>8. /\ n.ext = m.ext /\ n.sessions = m.sessions /\ n.cells = w /\ n.cancelled = can
        /\ n.budget = r.budget
    BY <1>8, <1>11, <2>6, <2>7
  <2>9. n \in Hosts
    BY <1>8, <1>10, <1>11, <2>2, <2>4, <2>6, <2>7 DEF Hosts
  <2>10. Shrinks(m, n, {c})
    BY <1>2, <1>6, <1>10, <2>4, <2>8, Zenon DEF Shrinks
  <2>11. c \in m.cancelled \/ m.budget >= LifecycleTransitionCost
    BY <1>2, <1>3, <1>5, <1>11, Zenon DEF CancelResult
  <2> QED
    BY <2>4, <2>7, <2>8, <2>9, <2>10, <2>11 DEF TornDown
<1>12. CASE ~r.ok
  <2>1. r.cell = d /\ (d = NoCell \/ r.budget < LifecycleTransitionCost)
    BY <1>5, <1>12, Zenon DEF CancelResult
  <2>2. can = m.cancelled
    BY <1>6, <1>12, Zenon
  <2>3. [m.cells EXCEPT ![c] = r.cell] = m.cells
    BY <1>1, <2>1, Zenon DEF Hosts
  <2>4. TearDown(m, c, ev) = [ext |-> m.ext, sessions |-> m.sessions, cells |-> m.cells,
          cancelled |-> m.cancelled, archived |-> m.archived, budget |-> r.budget]
    BY <1>8, <1>9, <1>12, <2>2, <2>3
  <2>5. PICK n : n = TearDown(m, c, ev)
    BY Zenon
  <2>6. /\ n.ext = m.ext /\ n.sessions = m.sessions /\ n.cells = m.cells
        /\ n.cancelled = m.cancelled /\ n.budget = r.budget
    BY <2>4, <2>5
  <2>7. n \in Hosts
    BY <1>10, <2>4, <2>5 DEF Hosts
  <2>8. Shrinks(m, n, {c})
    BY <1>2, <1>10, <2>6, Zenon DEF Shrinks
  <2> QED
    BY <1>1, <1>2, <1>10, <2>1, <2>5, <2>6, <2>7, <2>8 DEF TornDown,
       LifecycleTransitionCost
<1> QED
  BY <1>10, <1>11, <1>12, Zenon
-----------------------------------------------------------------------------
(* The lifecycle manager: the sessions of an extension. *)

\* cancel_extension cancels the sessions of e in order.
CancelSession(e, ev, n, s) ==
  IF n.cells[<<e, s>>].state = "Running" THEN TearDown(n, <<e, s>>, ev) ELSE n
SessionAll(e, ev, b, q) ==
  FoldLeft(LAMBDA n, s : IF n.cells[<<e, s>>].state = "Running"
                         THEN TearDown(n, <<e, s>>, ev) ELSE n,
           b, q)
SessionKeeps(e, ev, S, V) == \A v \in V, x \in S : CancelSession(e, ev, v, x) \in V
SessionOp(e, ev, n, q, V) == [k \in 1..n |-> [v \in V |-> CancelSession(e, ev, v, q[k])]]
SessionStep(e, ev, b, q, D, h) ==
  [s \in SUBSET D |-> IF s = {} THEN b ELSE CancelSession(e, ev, h[s \ {Max(s)}], q[Max(s)])]
SessionIter(e, ev, b, q, D) == CHOOSE iter : iter = SessionStep(e, ev, b, q, D, iter)
SessionRuns(e, ev, acc, n, b, q, V) ==
  /\ acc \in [0..n -> V]
  /\ acc[0] = b
  /\ \A k \in 1..n : acc[k] = CancelSession(e, ev, acc[k - 1], q[k])

LEMMA SessionFold ==
  ASSUME NEW e, NEW ev, NEW n \in Nat, NEW S, NEW V, NEW b \in V, NEW q, Visits(q, n, S),
         SessionKeeps(e, ev, S, V)
  PROVE  \E acc : SessionRuns(e, ev, acc, n, b, q, V) /\ acc[n] = SessionAll(e, ev, b, q)
<1>1. PICK I, C : I = 1..n /\ C = MaxPick(n) /\ I = DOMAIN q
  BY Zenon DEF Visits
<1>2. PICK iter : iter = SessionIter(e, ev, b, q, I)
  BY Zenon
<1>3. SessionAll(e, ev, b, q) = iter[I]
  <2>1. SessionAll(e, ev, b, q) = SessionIter(e, ev, b, q, DOMAIN q)[DOMAIN q]
    BY Zenon DEF SessionAll, FoldLeft, MapThenFoldSet, SessionIter, SessionStep,
       CancelSession
  <2> QED
    BY <1>1, <1>2, <2>1, Zenon
<1>4. PICK Op : Op = SessionOp(e, ev, n, q, V)
  BY Zenon
<1>5. \A k \in I : \A v \in V : Op[k][v] = CancelSession(e, ev, v, q[k])
  BY <1>1, <1>4, Zenon DEF SessionOp
<1>6. Closed(Op, I, V)
  BY <1>1, <1>5, Zenon DEF Closed, Visits, SessionKeeps
<1>7. IsFiniteSet(I) /\ Picks(C, I)
  BY <1>1, MaxPicks, FS_Interval
<1>8. PICK g : Maps(g, I, V) /\ Obeys(g, I, b, C, Op, V)
  BY <1>6, <1>7, Recursion, Zenon
<1>9. \A s \in SUBSET I : C[s] = Max(s)
  BY <1>1, Zenon DEF MaxPick
<1>10. \A s \in SUBSET I : s # {} => Max(s) \in I /\ s \ {Max(s)} \in SUBSET I
  BY <1>7, <1>9, Zenon DEF Picks
<1>11. g = SessionStep(e, ev, b, q, I, g)
  <2>1. ASSUME NEW s \in SUBSET I
        PROVE  g[s] = IF s = {} THEN b ELSE CancelSession(e, ev, g[s \ {Max(s)}], q[Max(s)])
    BY <1>5, <1>8, <1>9, <1>10, Zenon DEF Maps, Obeys, ObeysAt
  <2> QED
    BY <1>8, <2>1, Zenon DEF Maps, SessionStep
<1>12. iter = SessionStep(e, ev, b, q, I, iter)
  BY <1>2, <1>11, Zenon DEF SessionIter
<1>13. Obeys(iter, I, b, C, Op, V)
  <2> SUFFICES ASSUME NEW s \in SUBSET I PROVE ObeysAt(iter, s, b, C, Op, V)
    BY Zenon DEF Obeys
  <2>1. iter[s] = IF s = {} THEN b ELSE CancelSession(e, ev, iter[s \ {Max(s)}], q[Max(s)])
    BY <1>12, Zenon DEF SessionStep
  <2>2. CASE s = {}
    BY <2>1, <2>2, Zenon DEF ObeysAt
  <2>3. CASE s # {}
    <3>1. PICK c \in I : c = Max(s) /\ c = C[s]
      BY <1>9, <1>10, <2>3, Zenon
    <3>2. iter[s] = CancelSession(e, ev, iter[s \ {c}], q[c])
      BY <2>1, <2>3, <3>1, Zenon
    <3>3. ASSUME iter[s \ {c}] \in V PROVE iter[s] = Op[c][iter[s \ {c}]]
      BY <1>5, <3>2, <3>3
    <3> QED
      BY <2>3, <3>1, <3>3 DEF ObeysAt
  <2> QED
    BY <2>2, <2>3, Zenon
<1>14. PICK acc : Runs(acc, n, b, Op, V) /\ acc[n] = iter[1..n]
  BY <1>1, <1>6, <1>13, LeftFold
<1>15. ASSUME NEW k \in 1..n PROVE acc[k] = CancelSession(e, ev, acc[k - 1], q[k])
  <2>1. acc[k] = Op[k][acc[k - 1]] /\ acc[k - 1] \in V
    <3>1. k - 1 \in 0..n
      OBVIOUS
    <3> QED
      BY <1>14, <3>1, Zenon DEF Runs
  <2> QED
    BY <1>1, <1>5, <2>1, Zenon
<1> QED
  BY <1>1, <1>3, <1>14, <1>15, Zenon DEF Runs, SessionRuns

SessionCells(e) == {e} \X Sessions[e]

LEMMA SessionCellIds ==
  ASSUME NEW e \in Extensions
  PROVE  /\ SessionCells(e) \subseteq CellIds /\ <<e, 0>> \in CellIds /\ <<e, 0>> \notin SessionCells(e)
         /\ \A s \in Sessions[e] : <<e, s>> \in SessionCells(e)
         /\ \A f \in Extensions : f # e => <<f, 0>> \notin SessionCells(e)
                                    /\ \A s \in Sessions[f] : <<f, s>> \notin SessionCells(e)
BY ExtensionHostAssumption DEF SessionCells, CellIds

LEMMA ShrinksTwice ==
  ASSUME NEW m \in Hosts, NEW n \in Hosts, NEW k \in Hosts, NEW D \in SUBSET CellIds,
         Shrinks(m, n, D), Shrinks(n, k, D)
  PROVE  Shrinks(m, k, D)
<1>1. m.budget \in Nat /\ n.budget \in Nat /\ k.budget \in Nat
  BY Zenon DEF Hosts
<1>2. k.budget <= m.budget
  BY <1>1 DEF Shrinks
<1> QED
  BY <1>2, Zenon DEF Shrinks

LEMMA SessionStepped ==
  ASSUME NEW m \in Hosts, NEW e \in Extensions, NEW ev \in LifecycleEvents, NEW s \in Sessions[e]
  PROVE  /\ CancelSession(e, ev, m, s) \in Hosts
         /\ Shrinks(m, CancelSession(e, ev, m, s), SessionCells(e))
         /\ CancelSession(e, ev, m, s).budget >= LifecycleTransitionCost =>
              CancelSession(e, ev, m, s).cells[<<e, s>>] = NoCell
<1>1. PICK c \in CellIds : c = <<e, s>> /\ c \in SessionCells(e)
  BY SessionCellIds, Zenon
<1>2. PICK n : n = CancelSession(e, ev, m, s)
  BY Zenon
<1>3. m.cells[c] \in Held(Obligations)
  BY Zenon DEF Hosts
<1>4. CASE m.cells[c].state = "Running"
  <2>1. n = TearDown(m, c, ev)
    BY <1>1, <1>2, <1>4, Zenon DEF CancelSession
  <2>2. n \in Hosts /\ TornDown(m, n, c)
    BY <2>1, TearDownStep, Zenon
  <2>3. Shrinks(m, n, SessionCells(e))
    BY <1>1, <2>2, Zenon DEF TornDown, Shrinks
  <2> QED
    BY <1>1, <1>2, <2>2, <2>3, Zenon DEF TornDown
<1>5. CASE m.cells[c].state # "Running"
  <2>1. n = m
    BY <1>1, <1>2, <1>5, Zenon DEF CancelSession
  <2>2. m.cells[c] = NoCell
    BY <1>3, <1>5, HeldIsRecord, Zenon
  <2>3. m.budget \in Nat
    BY Zenon DEF Hosts
  <2>4. Shrinks(m, m, SessionCells(e))
    BY <2>3 DEF Shrinks
  <2> QED
    BY <1>1, <1>2, <2>1, <2>2, <2>4, Zenon
<1> QED
  BY <1>4, <1>5, Zenon

LEMMA SessionsInOrder ==
  ASSUME NEW b \in Hosts, NEW e \in Extensions, NEW ev \in LifecycleEvents, NEW n \in Nat,
         NEW q, Visits(q, n, Sessions[e])
  PROVE  /\ SessionAll(e, ev, b, q) \in Hosts
         /\ Shrinks(b, SessionAll(e, ev, b, q), SessionCells(e))
         /\ SessionAll(e, ev, b, q).budget >= LifecycleTransitionCost =>
              \A i \in 1..n : SessionAll(e, ev, b, q).cells[<<e, q[i]>>] = NoCell
<1> PICK m : m = SessionAll(e, ev, b, q)
  BY Zenon
<1>1. PICK acc : SessionRuns(e, ev, acc, n, b, q, Hosts) /\ acc[n] = m
  <2>1. SessionKeeps(e, ev, Sessions[e], Hosts)
    BY SessionStepped, Zenon DEF SessionKeeps
  <2> QED
    BY <2>1, SessionFold
<1> DEFINE Ok(k) == /\ Shrinks(b, acc[k], SessionCells(e))
                    /\ acc[k].budget >= LifecycleTransitionCost =>
                         \A i \in 1..k : acc[k].cells[<<e, q[i]>>] = NoCell
           G == {k \in Nat : k <= n => Ok(k)}
<1>2. acc \in [0..n -> Hosts] /\ acc[0] = b
  BY <1>1, Zenon DEF SessionRuns
<1>3. 0 \in G
  <2>1. b.budget \in Nat
    BY Zenon DEF Hosts
  <2>2. Shrinks(b, b, SessionCells(e))
    BY <2>1 DEF Shrinks
  <2> QED
    BY <1>2, <2>2
<1>4. ASSUME NEW k \in G PROVE k + 1 \in G
  <2> SUFFICES ASSUME k + 1 <= n PROVE Ok(k + 1)
    OBVIOUS
  <2>1. k \in Nat /\ k \in 0..n /\ k + 1 \in 1..n /\ k + 1 \in 0..n /\ Ok(k) /\ (k + 1) - 1 = k
    OBVIOUS
  <2> HIDE DEF G
  <2>2. PICK v \in Hosts, w \in Hosts, x \in Sessions[e] :
          v = acc[k] /\ w = acc[k + 1] /\ x = q[k + 1]
    BY <1>2, <2>1, Zenon DEF Visits
  <2>3. w = CancelSession(e, ev, v, x)
    BY <1>1, <2>1, <2>2, Zenon DEF SessionRuns
  <2>4. /\ Shrinks(v, w, SessionCells(e))
        /\ w.budget >= LifecycleTransitionCost => w.cells[<<e, x>>] = NoCell
    BY <2>3, SessionStepped, Zenon
  <2>5. /\ Shrinks(b, v, SessionCells(e))
        /\ v.budget >= LifecycleTransitionCost => \A i \in 1..k : v.cells[<<e, q[i]>>] = NoCell
    BY <2>1, <2>2, Zenon
  <2>6. Shrinks(b, w, SessionCells(e))
    BY <2>4, <2>5, SessionCellIds, ShrinksTwice, Zenon
  <2>7. ASSUME w.budget >= LifecycleTransitionCost, NEW i \in 1..(k + 1)
        PROVE  w.cells[<<e, q[i]>>] = NoCell
    <3>1. v.budget \in Nat /\ w.budget \in Nat /\ w.budget <= v.budget
      BY <2>4, Zenon DEF Shrinks, Hosts
    <3>2. v.budget >= LifecycleTransitionCost
      BY <2>7, <3>1 DEF LifecycleTransitionCost
    <3>3. i \in 1..k \/ i = k + 1
      BY <2>1
    <3>4. CASE i = k + 1
      BY <2>2, <2>4, <2>7, <3>4, Zenon
    <3>5. CASE i \in 1..k
      <4>1. PICK c \in CellIds : c = <<e, q[i]>>
        <5>1. q[i] \in Sessions[e]
          BY <2>1, <3>5 DEF Visits
        <5>2. <<e, q[i]>> \in SessionCells(e) /\ SessionCells(e) \subseteq CellIds
          BY <5>1, SessionCellIds, Zenon
        <5> QED
          BY <5>2, Zenon
      <4>2. v.cells[c] = NoCell
        BY <2>5, <3>2, <3>5, <4>1, Zenon
      <4> QED
        BY <2>4, <4>1, <4>2, Zenon DEF Shrinks
    <3> QED
      BY <3>3, <3>4, <3>5, Zenon
  <2> QED
    BY <2>2, <2>6, <2>7, Zenon
<1>5. G = Nat
  <2>1. G \in SUBSET Nat
    BY Zenon
  <2> HIDE DEF G
  <2> QED
    BY <1>3, <1>4, <2>1, Induction, Zenon
<1>6. Ok(n) /\ n \in 0..n
  <2>1. n \in G
    BY <1>5, Zenon
  <2> QED
    BY <2>1
<1> QED
  BY <1>1, <1>2, <1>6, Zenon
-----------------------------------------------------------------------------
(* The lifecycle manager: extensions. *)

\* Between calls, and between the extensions a shutdown goes through.  That a
\* loaded extension's own cell is on no cancellation record is what makes its
\* teardown cost something.
ExtOk(m, e) ==
  /\ m.sessions[e] \subseteq Sessions[e] /\ IsFiniteSet(m.sessions[e])
  /\ m.ext[e] = "loaded" <=> m.cells[<<e, 0>>] # NoCell
  /\ \A s \in Sessions[e] : m.cells[<<e, s>>] # NoCell => m.ext[e] = "loaded" /\ s \in m.sessions[e]
  /\ <<e, 0>> \in m.cancelled => m.ext[e] = "unloaded"

GoodHosts == {m \in Hosts : \A e \in Extensions : ExtOk(m, e)}

\* No cell of n came to life since m.
NoNewCell(m, n) == \A d \in CellIds : n.cells[d] # NoCell => m.cells[d] # NoCell

\* What cancelling e makes of the manager m.
Stopped(m, n, e) ==
  /\ n.budget <= m.budget
  /\ n.budget >= LifecycleTransitionCost => n.ext[e] # "loaded"
  /\ \A f \in Extensions : n.ext[f] = "loaded" => m.ext[f] = "loaded"
  /\ NoNewCell(m, n)

LEMMA SessionsCancelled ==
  ASSUME NEW m \in GoodHosts, NEW e \in Extensions, NEW ev \in LifecycleEvents
  PROVE  /\ CancelSessions(m, e, ev) \in Hosts
         /\ Shrinks(m, CancelSessions(m, e, ev), SessionCells(e))
         /\ CancelSessions(m, e, ev).budget >= LifecycleTransitionCost =>
              \A s \in Sessions[e] : CancelSessions(m, e, ev).cells[<<e, s>>] = NoCell
<1>1. m \in Hosts /\ ExtOk(m, e)
  BY Zenon DEF GoodHosts
<1>2. PICK S \in SUBSET Nat : S = m.sessions[e] /\ IsFiniteSet(S) /\ S \subseteq Sessions[e]
  BY <1>1, ExtensionHostAssumption, Zenon DEF ExtOk
<1>3. PICK n \in Nat : /\ InKeyOrder(S) \in [1..n -> S]
                       /\ \A x \in S : \E i \in 1..n : InKeyOrder(S)[i] = x
  BY <1>2, KeyOrder, Zenon
<1>4. PICK q : q = InKeyOrder(S) /\ Visits(q, n, Sessions[e]) /\ \A x \in S : \E i \in 1..n : q[i] = x
  BY <1>2, <1>3, Zenon DEF Visits
<1>5. CancelSessions(m, e, ev) = SessionAll(e, ev, m, q)
  BY <1>2, <1>4, Zenon DEF CancelSessions, SessionAll
<1>6. PICK k \in Hosts : /\ k = CancelSessions(m, e, ev)
                         /\ Shrinks(m, k, SessionCells(e))
                         /\ k.budget >= LifecycleTransitionCost => \A i \in 1..n : k.cells[<<e, q[i]>>] = NoCell
  BY <1>1, <1>4, <1>5, SessionsInOrder
<1>7. ASSUME k.budget >= LifecycleTransitionCost, NEW s \in Sessions[e] PROVE k.cells[<<e, s>>] = NoCell
  <2>1. <<e, s>> \in CellIds
    BY SessionCellIds, Zenon
  <2>2. CASE s \in S
    BY <1>4, <1>6, <1>7, <2>2
  <2>3. CASE s \notin S
    <3>1. m.cells[<<e, s>>] = NoCell
      BY <1>1, <1>2, <2>3, Zenon DEF ExtOk
    <3> QED
      BY <1>6, <2>1, <3>1, Zenon DEF Shrinks
  <2> QED
    BY <2>2, <2>3, Zenon
<1> QED
  BY <1>6, <1>7, Zenon

LEMMA ExtensionCancelled ==
  ASSUME NEW m \in GoodHosts, NEW e \in Extensions, NEW ev \in LifecycleEvents
  PROVE  /\ CancelledExtension(m, e, ev) \in GoodHosts
         /\ Stopped(m, CancelledExtension(m, e, ev), e)
<1>1. m \in Hosts /\ \A f \in Extensions : ExtOk(m, f)
  BY Zenon DEF GoodHosts
<1>2. PICK k \in Hosts : /\ k = CancelSessions(m, e, ev) /\ Shrinks(m, k, SessionCells(e))
                         /\ k.budget >= LifecycleTransitionCost =>
                              \A s \in Sessions[e] : k.cells[<<e, s>>] = NoCell
  BY SessionsCancelled, Zenon
<1>3. PICK c \in CellIds : c = <<e, 0>> /\ c \notin SessionCells(e)
  BY SessionCellIds, Zenon
<1>4. PICK n \in Hosts : n = TearDown(k, c, ev) /\ TornDown(k, n, c)
  BY TearDownStep, Zenon
<1>5. PICK r : r = CancelledExtension(m, e, ev)
  BY Zenon
<1>6. r = IF n.cells[c] = NoCell THEN [n EXCEPT !.ext[e] = "unloaded", !.sessions[e] = {}] ELSE n
  BY <1>2, <1>3, <1>4, <1>5, Zenon DEF CancelledExtension
<1>7. /\ n.ext = m.ext /\ n.sessions = m.sessions /\ k.cells[c] = m.cells[c]
      /\ c \in k.cancelled => c \in m.cancelled
  BY <1>2, <1>3, <1>4, Zenon DEF TornDown, Shrinks
<1>8. n.budget <= m.budget
  <2>1. n.budget \in Nat /\ k.budget \in Nat /\ m.budget \in Nat
    BY <1>1, Zenon DEF Hosts
  <2> QED
    BY <1>2, <1>4, <2>1 DEF TornDown, Shrinks
<1>9. ASSUME NEW d \in CellIds PROVE n.cells[d] = m.cells[d] \/ n.cells[d] = NoCell
  BY <1>2, <1>4, Zenon DEF TornDown, Shrinks
<1>10. ASSUME NEW d \in CellIds, d # c, d \notin SessionCells(e)
       PROVE  n.cells[d] = m.cells[d] /\ (d \in n.cancelled => d \in m.cancelled)
  BY <1>2, <1>4, <1>10, Zenon DEF TornDown, Shrinks
<1>11. \A f \in Extensions : f # e =>
         /\ n.cells[<<f, 0>>] = m.cells[<<f, 0>>] /\ (<<f, 0>> \in n.cancelled => <<f, 0>> \in m.cancelled)
         /\ \A s \in Sessions[f] : n.cells[<<f, s>>] = m.cells[<<f, s>>]
  <2> SUFFICES ASSUME NEW f \in Extensions, f # e
               PROVE  /\ n.cells[<<f, 0>>] = m.cells[<<f, 0>>]
                      /\ (<<f, 0>> \in n.cancelled => <<f, 0>> \in m.cancelled)
                      /\ \A s \in Sessions[f] : n.cells[<<f, s>>] = m.cells[<<f, s>>]
    BY Zenon
  <2>1. <<f, 0>> \in CellIds /\ <<f, 0>> # c /\ <<f, 0>> \notin SessionCells(e)
    BY <1>3, SessionCellIds, Zenon
  <2>2. \A s \in Sessions[f] : <<f, s>> \in CellIds /\ <<f, s>> # c /\ <<f, s>> \notin SessionCells(e)
    BY <1>3, SessionCellIds
  <2> QED
    BY <1>10, <2>1, <2>2, Zenon
<1>12. CASE n.cells[c] = NoCell
  <2>1. PICK x : x = [n.ext EXCEPT ![e] = "unloaded"]
    BY Zenon
  <2>2. PICK y : y = [n.sessions EXCEPT ![e] = {}]
    BY Zenon
  <2>3. r = [ext |-> x, sessions |-> y, cells |-> n.cells, cancelled |-> n.cancelled,
             archived |-> n.archived, budget |-> n.budget]
    BY <1>6, <1>12, <2>1, <2>2, Zenon DEF Hosts
  <2>4. /\ x \in [Extensions -> {"absent", "loaded", "unloaded"}] /\ x[e] = "unloaded"
        /\ \A f \in Extensions : f # e => x[f] = m.ext[f]
    BY <1>7, <2>1, Zenon DEF Hosts
  <2>5. /\ y \in [Extensions -> SUBSET Nat] /\ y[e] = {}
        /\ \A f \in Extensions : f # e => y[f] = m.sessions[f]
    BY <1>7, <2>2, Zenon DEF Hosts
  <2>6. r \in Hosts
    BY <2>3, <2>4, <2>5 DEF Hosts
  <2>7. r.ext = x /\ r.sessions = y /\ r.cells = n.cells /\ r.cancelled = n.cancelled /\ r.budget = n.budget
    BY <2>3, Zenon
  <2>8. ASSUME NEW s \in Sessions[e] PROVE n.cells[<<e, s>>] = NoCell
    <3>1. <<e, s>> \in CellIds
      BY SessionCellIds
    <3>2. CASE m.cells[c] = NoCell
      <4>1. m.cells[<<e, s>>] = NoCell
        BY <1>1, <1>3, <3>2, Zenon DEF ExtOk
      <4> QED
        BY <1>9, <3>1, <4>1
    <3>3. CASE m.cells[c] # NoCell
      <4>1. c \notin m.cancelled
        BY <1>1, <1>3, <3>3 DEF ExtOk
      <4>2. k.budget >= LifecycleTransitionCost
        BY <1>4, <1>7, <1>12, <3>3, <4>1, Zenon DEF TornDown
      <4>3. k.cells[<<e, s>>] = NoCell
        BY <1>2, <4>2
      <4> QED
        BY <1>4, <3>1, <4>3 DEF TornDown, Shrinks
    <3> QED
      BY <3>2, <3>3, Zenon
  <2>9. ExtOk(r, e)
    BY <1>3, <1>12, <2>4, <2>5, <2>7, <2>8, FS_EmptySet, Zenon DEF ExtOk
  <2>10. ASSUME NEW f \in Extensions, f # e PROVE ExtOk(r, f)
    BY <1>1, <1>11, <2>4, <2>5, <2>7, <2>10 DEF ExtOk
  <2>11. Stopped(m, r, e)
    <3>1. NoNewCell(m, r)
      BY <1>9, <2>7, Zenon DEF NoNewCell
    <3>2. r.ext[e] # "loaded" /\ r.budget <= m.budget
      BY <1>8, <2>4, <2>7
    <3>3. ASSUME NEW f \in Extensions, r.ext[f] = "loaded" PROVE m.ext[f] = "loaded"
      BY <2>4, <2>7, <3>2, <3>3, Zenon
    <3> QED
      BY <3>1, <3>2, <3>3, Zenon DEF Stopped
  <2> QED
    BY <1>5, <2>6, <2>9, <2>10, <2>11, Zenon DEF GoodHosts
<1>13. CASE n.cells[c] # NoCell
  <2>1. r = n
    BY <1>6, <1>13, Zenon
  <2>2. m.cells[c] = n.cells[c]
    BY <1>9, <1>13, Zenon
  <2>3. c \notin n.cancelled
    <3>1. c \notin m.cancelled
      BY <1>1, <1>3, <1>13, <2>2, Zenon DEF ExtOk
    <3> QED
      BY <1>4, <1>7, <1>13, <3>1 DEF TornDown
  <2>4. \A s \in Sessions[e] : n.cells[<<e, s>>] # NoCell => m.cells[<<e, s>>] # NoCell
    <3>1. \A s \in Sessions[e] : <<e, s>> \in CellIds
      BY SessionCellIds, Zenon
    <3> QED
      BY <1>9, <3>1, Zenon
  <2>5. ExtOk(n, e)
    BY <1>1, <1>3, <1>7, <2>2, <2>3, <2>4, Zenon DEF ExtOk
  <2>6. ASSUME NEW f \in Extensions, f # e PROVE ExtOk(n, f)
    BY <1>1, <1>7, <1>11, <2>6 DEF ExtOk
  <2>7. Stopped(m, n, e)
    BY <1>4, <1>7, <1>8, <1>9, <1>13, Zenon DEF Stopped, TornDown, NoNewCell
  <2> QED
    BY <1>5, <2>1, <2>5, <2>6, <2>7, Zenon DEF GoodHosts
<1> QED
  BY <1>12, <1>13, Zenon

\* shutdown cancels the loaded extensions in order.
StopExtension(m, e) == CancelledExtension(m, e, "Terminate")
StopAll(b, q) == FoldLeft(LAMBDA m, e : CancelledExtension(m, e, "Terminate"), b, q)
StopKeeps(S, V) == \A v \in V, x \in S : StopExtension(v, x) \in V
StopOp(n, q, V) == [k \in 1..n |-> [v \in V |-> StopExtension(v, q[k])]]
StopStep(b, q, D, h) ==
  [s \in SUBSET D |-> IF s = {} THEN b ELSE StopExtension(h[s \ {Max(s)}], q[Max(s)])]
StopIter(b, q, D) == CHOOSE iter : iter = StopStep(b, q, D, iter)
StopRuns(acc, n, b, q, V) ==
  /\ acc \in [0..n -> V]
  /\ acc[0] = b
  /\ \A k \in 1..n : acc[k] = StopExtension(acc[k - 1], q[k])

LEMMA StopFold ==
  ASSUME NEW n \in Nat, NEW S, NEW V, NEW b \in V, NEW q, Visits(q, n, S),
         StopKeeps(S, V)
  PROVE  \E acc : StopRuns(acc, n, b, q, V) /\ acc[n] = StopAll(b, q)
<1>1. PICK I, C : I = 1..n /\ C = MaxPick(n) /\ I = DOMAIN q
  BY Zenon DEF Visits
<1>2. PICK iter : iter = StopIter(b, q, I)
  BY Zenon
<1>3. StopAll(b, q) = iter[I]
  <2>1. StopAll(b, q) = StopIter(b, q, DOMAIN q)[DOMAIN q]
    BY Zenon DEF StopAll, FoldLeft, MapThenFoldSet, StopIter, StopStep, StopExtension
  <2> QED
    BY <1>1, <1>2, <2>1, Zenon
<1>4. PICK Op : Op = StopOp(n, q, V)
  BY Zenon
<1>5. \A k \in I : \A v \in V : Op[k][v] = StopExtension(v, q[k])
  BY <1>1, <1>4, Zenon DEF StopOp
<1>6. Closed(Op, I, V)
  BY <1>1, <1>5 DEF Closed, Visits, StopKeeps
<1>7. IsFiniteSet(I) /\ Picks(C, I)
  BY <1>1, MaxPicks, FS_Interval
<1>8. PICK g : Maps(g, I, V) /\ Obeys(g, I, b, C, Op, V)
  BY <1>6, <1>7, Recursion, Zenon
<1>9. \A s \in SUBSET I : C[s] = Max(s)
  BY <1>1, Zenon DEF MaxPick
<1>10. \A s \in SUBSET I : s # {} => Max(s) \in I /\ s \ {Max(s)} \in SUBSET I
  BY <1>7, <1>9, Zenon DEF Picks
<1>11. g = StopStep(b, q, I, g)
  <2>1. ASSUME NEW s \in SUBSET I
        PROVE  g[s] = IF s = {} THEN b ELSE StopExtension(g[s \ {Max(s)}], q[Max(s)])
    BY <1>5, <1>8, <1>9, <1>10, Zenon DEF Maps, Obeys, ObeysAt
  <2> QED
    BY <1>8, <2>1 DEF Maps, StopStep
<1>12. iter = StopStep(b, q, I, iter)
  BY <1>2, <1>11, Zenon DEF StopIter
<1>13. Obeys(iter, I, b, C, Op, V)
  <2> SUFFICES ASSUME NEW s \in SUBSET I PROVE ObeysAt(iter, s, b, C, Op, V)
    BY Zenon DEF Obeys
  <2>1. iter[s] = IF s = {} THEN b ELSE StopExtension(iter[s \ {Max(s)}], q[Max(s)])
    BY <1>12, Zenon DEF StopStep
  <2>2. CASE s = {}
    BY <2>1, <2>2, Zenon DEF ObeysAt
  <2>3. CASE s # {}
    <3>1. PICK c \in I : c = Max(s) /\ c = C[s]
      BY <1>9, <1>10, <2>3
    <3>2. iter[s] = StopExtension(iter[s \ {c}], q[c])
      BY <2>1, <2>3, <3>1, Zenon
    <3>3. ASSUME iter[s \ {c}] \in V PROVE iter[s] = Op[c][iter[s \ {c}]]
      BY <1>5, <3>2, <3>3, Zenon
    <3> QED
      BY <2>3, <3>1, <3>3, Zenon DEF ObeysAt
  <2> QED
    BY <2>2, <2>3, Zenon
<1>14. PICK acc : Runs(acc, n, b, Op, V) /\ acc[n] = iter[1..n]
  BY <1>1, <1>6, <1>13, LeftFold
<1>15. ASSUME NEW k \in 1..n PROVE acc[k] = StopExtension(acc[k - 1], q[k])
  <2>1. acc[k] = Op[k][acc[k - 1]] /\ acc[k - 1] \in V
    <3>1. k - 1 \in 0..n
      OBVIOUS
    <3> QED
      BY <1>14, <3>1, Zenon DEF Runs
  <2> QED
    BY <1>1, <1>5, <2>1, Zenon
<1> QED
  BY <1>1, <1>3, <1>14, <1>15, Zenon DEF Runs, StopRuns

LEMMA StoppedInOrder ==
  ASSUME NEW b \in GoodHosts, NEW n \in Nat, NEW q, Visits(q, n, Extensions)
  PROVE  /\ StopAll(b, q) \in GoodHosts
         /\ \A f \in Extensions : StopAll(b, q).ext[f] = "loaded" => b.ext[f] = "loaded"
         /\ NoNewCell(b, StopAll(b, q))
         /\ StopAll(b, q).budget >= LifecycleTransitionCost =>
              \A i \in 1..n : StopAll(b, q).ext[q[i]] # "loaded"
<1> PICK m : m = StopAll(b, q)
  BY Zenon
<1>1. ASSUME NEW v \in GoodHosts, NEW e \in Extensions
      PROVE  StopExtension(v, e) \in GoodHosts /\ Stopped(v, StopExtension(v, e), e)
  <2>1. "Terminate" \in LifecycleEvents
    BY Zenon DEF LifecycleEvents
  <2> QED
    BY <2>1, ExtensionCancelled, Zenon DEF StopExtension
<1>2. PICK acc : StopRuns(acc, n, b, q, GoodHosts) /\ acc[n] = m
  <2>1. StopKeeps(Extensions, GoodHosts)
    BY <1>1, Zenon DEF StopKeeps
  <2> QED
    BY <2>1, StopFold
<1> DEFINE Ok(k) == /\ \A f \in Extensions : acc[k].ext[f] = "loaded" => b.ext[f] = "loaded"
                    /\ NoNewCell(b, acc[k])
                    /\ acc[k].budget >= LifecycleTransitionCost =>
                         \A i \in 1..k : acc[k].ext[q[i]] # "loaded"
           G == {k \in Nat : k <= n => Ok(k)}
<1>3. acc \in [0..n -> GoodHosts] /\ acc[0] = b
  BY <1>2, Zenon DEF StopRuns
<1>4. 0 \in G
  BY <1>3 DEF NoNewCell
<1>5. ASSUME NEW k \in G PROVE k + 1 \in G
  <2> SUFFICES ASSUME k + 1 <= n PROVE Ok(k + 1)
    OBVIOUS
  <2>1. k \in Nat /\ k \in 0..n /\ k + 1 \in 1..n /\ k + 1 \in 0..n /\ Ok(k) /\ (k + 1) - 1 = k
    OBVIOUS
  <2> HIDE DEF G
  <2>2. PICK v \in GoodHosts, w \in GoodHosts, x \in Extensions :
          v = acc[k] /\ w = acc[k + 1] /\ x = q[k + 1]
    BY <1>3, <2>1, Zenon DEF Visits
  <2>3. w = StopExtension(v, x)
    BY <1>2, <2>1, <2>2, Zenon DEF StopRuns
  <2>4. Stopped(v, w, x)
    BY <1>1, <2>3, Zenon
  <2>5. /\ \A f \in Extensions : v.ext[f] = "loaded" => b.ext[f] = "loaded"
        /\ NoNewCell(b, v)
        /\ v.budget >= LifecycleTransitionCost => \A i \in 1..k : v.ext[q[i]] # "loaded"
    BY <2>1, <2>2
  <2>6. NoNewCell(b, w) /\ \A f \in Extensions : w.ext[f] = "loaded" => b.ext[f] = "loaded"
    BY <2>4, <2>5, Zenon DEF Stopped, NoNewCell
  <2>7. ASSUME w.budget >= LifecycleTransitionCost, NEW i \in 1..(k + 1)
        PROVE  w.ext[q[i]] # "loaded"
    <3>1. v.budget \in Nat /\ w.budget \in Nat /\ w.budget <= v.budget
      BY <2>4, Zenon DEF Stopped, GoodHosts, Hosts
    <3>2. v.budget >= LifecycleTransitionCost
      BY <2>7, <3>1 DEF LifecycleTransitionCost
    <3>3. i \in 1..k \/ i = k + 1
      BY <2>1
    <3>4. q[i] \in Extensions
      BY <2>1 DEF Visits
    <3> QED
      BY <2>2, <2>4, <2>5, <2>7, <3>2, <3>3, <3>4 DEF Stopped
  <2> QED
    BY <2>2, <2>6, <2>7, Zenon
<1>6. G = Nat
  <2>1. G \in SUBSET Nat
    BY Zenon
  <2> HIDE DEF G
  <2> QED
    BY <1>4, <1>5, <2>1, Induction, Zenon
<1>7. Ok(n) /\ n \in 0..n
  <2>1. n \in G
    BY <1>6, Zenon
  <2> QED
    BY <2>1
<1> QED
  BY <1>2, <1>3, <1>7, Zenon

Loaded == {e \in Extensions : ext[e] = "loaded"}

HostInv ==
  /\ Manager(0) \in GoodHosts
  /\ last.archived \subseteq ArchivedCells
  /\ IsFiniteSet(Loaded)
  /\ ShutdownMissedNothing

\* A manager with its budget and its appended entries replaced.
LEMMA Rebudgeted ==
  ASSUME NEW m \in GoodHosts, NEW b \in Nat
  PROVE  [ext |-> m.ext, sessions |-> m.sessions, cells |-> m.cells, cancelled |-> m.cancelled,
          archived |-> {}, budget |-> b] \in GoodHosts
<1>1. PICK n : n = [ext |-> m.ext, sessions |-> m.sessions, cells |-> m.cells,
                    cancelled |-> m.cancelled, archived |-> {}, budget |-> b]
  BY Zenon
<1>2. n \in Hosts
  BY <1>1, Zenon DEF GoodHosts, Hosts
<1>3. n.ext = m.ext /\ n.sessions = m.sessions /\ n.cells = m.cells /\ n.cancelled = m.cancelled
  BY <1>1, Zenon
<1>4. \A e \in Extensions : ExtOk(n, e)
  BY <1>3, Zenon DEF GoodHosts, ExtOk
<1> QED
  BY <1>1, <1>2, <1>4, Zenon DEF GoodHosts

LEMMA ManagerFields ==
  ASSUME NEW b
  PROVE  /\ Manager(b).ext = ext /\ Manager(b).sessions = sessions /\ Manager(b).cells = cells
         /\ Manager(b).cancelled = cancelled /\ Manager(b).archived = {} /\ Manager(b).budget = b
BY Zenon DEF Manager

LEMMA HostInitInv == Init => HostInv
<1> SUFFICES ASSUME Init PROVE HostInv
  BY Zenon
<1>1. PICK m : m = Manager(0)
  BY Zenon
<1>2. /\ m.ext = [e \in Extensions |-> "absent"] /\ m.sessions = [e \in Extensions |-> {}]
      /\ m.cells = [c \in CellIds |-> NoCell] /\ m.cancelled = {}
  BY <1>1, ManagerFields, Zenon DEF Init
<1>3. m \in Hosts
  <2>1. [c \in CellIds |-> NoCell] \in [CellIds -> Held(Obligations)]
    BY NewCellHeld, Zenon
  <2>2. m = [ext |-> [e \in Extensions |-> "absent"], sessions |-> [e \in Extensions |-> {}],
             cells |-> [c \in CellIds |-> NoCell], cancelled |-> {}, archived |-> {}, budget |-> 0]
    BY <1>1, Zenon DEF Manager, Init
  <2> QED
    BY <2>1, <2>2, Zenon DEF Hosts
<1>4. ASSUME NEW e \in Extensions PROVE ExtOk(m, e)
  <2>1. <<e, 0>> \in CellIds /\ \A s \in Sessions[e] : <<e, s>> \in CellIds
    BY SessionCellIds, Zenon
  <2> QED
    BY <1>2, <2>1, FS_EmptySet, Zenon DEF ExtOk
<1>5. Loaded = {}
  BY Zenon DEF Loaded, Init
<1>6. last.archived = {} /\ last.call = "other"
  BY Zenon DEF Init, Quiet
<1> QED
  BY <1>1, <1>3, <1>4, <1>5, <1>6, FS_EmptySet, Zenon DEF HostInv, GoodHosts,
     ShutdownMissedNothing

\* A call that changes records and cells of the manager and appends nothing.
LEMMA QuietInv ==
  ASSUME HostInv, Manager(0)' \in GoodHosts, NEW e \in Extensions, Loaded' \subseteq Loaded \cup {e},
         last' = Quiet
  PROVE  HostInv'
<1>1. IsFiniteSet(Loaded')
  <2>1. IsFiniteSet(Loaded \cup {e})
    BY FS_AddElement, Zenon DEF HostInv
  <2> QED
    BY <2>1, FS_Subset, Zenon
<1>2. last'.archived = {} /\ last'.call = "other"
  BY Zenon DEF Quiet
<1> QED
  BY <1>1, <1>2, Zenon DEF HostInv, ShutdownMissedNothing

\* A call that tears down.
LEMMA ReturnInv ==
  ASSUME HostInv, NEW m \in GoodHosts, NEW call, Return(call, m),
         \A f \in Extensions : m.ext[f] = "loaded" => ext[f] = "loaded",
         call = "shutdown" /\ m.budget >= LifecycleTransitionCost =>
           \A f \in Extensions : m.ext[f] # "loaded"
  PROVE  HostInv'
<1>1. /\ ext' = m.ext /\ sessions' = m.sessions /\ cells' = m.cells /\ cancelled' = m.cancelled
      /\ last' = [call |-> call, archived |-> m.archived, left |-> m.budget]
  BY Zenon DEF Return
<1>2. Manager(0)' \in GoodHosts
  <2>1. Manager(0)' = [ext |-> m.ext, sessions |-> m.sessions, cells |-> m.cells,
                       cancelled |-> m.cancelled, archived |-> {}, budget |-> 0]
    BY <1>1, Zenon DEF Manager
  <2>2. 0 \in Nat
    BY Zenon
  <2> QED
    BY <2>1, <2>2, Rebudgeted, Zenon
<1>3. IsFiniteSet(Loaded')
  <2>1. Loaded' \subseteq Loaded
    BY <1>1, Zenon DEF Loaded
  <2> QED
    BY <2>1, FS_Subset, Zenon DEF HostInv
<1>4. last'.archived = m.archived /\ last'.call = call /\ last'.left = m.budget
  BY <1>1, Zenon
<1>5. m.archived \subseteq ArchivedCells
  BY Zenon DEF GoodHosts, Hosts
<1>6. ShutdownMissedNothing'
  <2> SUFFICES ASSUME call = "shutdown", m.budget >= LifecycleTransitionCost
               PROVE  Live' = {} /\ \A f \in Extensions : ext'[f] # "loaded"
    BY <1>4, Zenon DEF ShutdownMissedNothing
  <2>1. \A f \in Extensions : m.ext[f] # "loaded"
    BY Zenon
  <2>2. ASSUME NEW c \in CellIds PROVE m.cells[c] = NoCell
    <3>1. PICK f \in Extensions : \E s \in {0} \cup Sessions[f] : c = <<f, s>>
      <4>1. PICK D : c \in D /\ D \in {{f} \X ({0} \cup Sessions[f]) : f \in Extensions}
        BY Zenon DEF CellIds
      <4>2. PICK f \in Extensions : D = {f} \X ({0} \cup Sessions[f])
        BY <4>1, Zenon
      <4>3. PICK S, T : S = {f} /\ T = {0} \cup Sessions[f] /\ c \in S \X T
        BY <4>1, <4>2, Zenon
      <4>4. c = <<c[1], c[2]>> /\ c[1] \in S /\ c[2] \in T
        BY <4>3
      <4> QED
        BY <4>3, <4>4, Zenon
    <3>2. ExtOk(m, f)
      BY Zenon DEF GoodHosts
    <3> QED
      BY <2>1, <3>1, <3>2 DEF ExtOk
  <2> QED
    BY <1>1, <2>1, <2>2, Zenon DEF Live
<1> QED
  BY <1>2, <1>3, <1>4, <1>5, <1>6 DEF HostInv

\* The state as a manager, and as another one after a step.
LEMMA StateIsHost ==
  ASSUME HostInv
  PROVE  /\ ext \in [Extensions -> {"absent", "loaded", "unloaded"}]
         /\ sessions \in [Extensions -> SUBSET Nat]
         /\ cells \in [CellIds -> Held(Obligations)]
         /\ cancelled \in SUBSET CellIds
         /\ \A b \in Nat : Manager(b) \in GoodHosts
<1>1. Manager(0) \in Hosts /\ Manager(0) \in GoodHosts
  BY Zenon DEF HostInv, GoodHosts
<1>2. /\ Manager(0).ext \in [Extensions -> {"absent", "loaded", "unloaded"}]
      /\ Manager(0).sessions \in [Extensions -> SUBSET Nat]
      /\ Manager(0).cells \in [CellIds -> Held(Obligations)]
      /\ Manager(0).cancelled \in SUBSET CellIds
  BY <1>1, Zenon DEF Hosts
<1>3. ASSUME NEW b \in Nat PROVE Manager(b) \in GoodHosts
  <2>1. Manager(b) = [ext |-> Manager(0).ext, sessions |-> Manager(0).sessions,
                      cells |-> Manager(0).cells, cancelled |-> Manager(0).cancelled,
                      archived |-> {}, budget |-> b]
    BY Zenon DEF Manager
  <2> QED
    BY <1>1, <2>1, Rebudgeted, Zenon
<1> QED
  BY <1>2, <1>3, ManagerFields, Zenon

StateOk(x, y, z, k, e) ==
  /\ y[e] \subseteq Sessions[e] /\ IsFiniteSet(y[e])
  /\ x[e] = "loaded" <=> z[<<e, 0>>] # NoCell
  /\ \A s \in Sessions[e] : z[<<e, s>>] # NoCell => x[e] = "loaded" /\ s \in y[e]
  /\ <<e, 0>> \in k => x[e] = "unloaded"

LEMMA StateOkNow ==
  ASSUME HostInv, NEW e \in Extensions
  PROVE  StateOk(ext, sessions, cells, cancelled, e)
<1>1. ExtOk(Manager(0), e)
  BY Zenon DEF HostInv, GoodHosts
<1> QED
  BY <1>1, ManagerFields DEF ExtOk, StateOk

LEMMA StateOkNext ==
  ASSUME ext' \in [Extensions -> {"absent", "loaded", "unloaded"}],
         sessions' \in [Extensions -> SUBSET Nat], cells' \in [CellIds -> Held(Obligations)],
         cancelled' \in SUBSET CellIds,
         \A e \in Extensions : StateOk(ext', sessions', cells', cancelled', e)
  PROVE  Manager(0)' \in GoodHosts
<1>1. PICK n : n = [ext |-> ext', sessions |-> sessions', cells |-> cells',
                    cancelled |-> cancelled', archived |-> {}, budget |-> 0]
  BY Zenon
<1>2. n \in Hosts
  BY <1>1, Zenon DEF Hosts
<1>3. n.ext = ext' /\ n.sessions = sessions' /\ n.cells = cells' /\ n.cancelled = cancelled'
  BY <1>1, Zenon
<1>4. \A e \in Extensions : ExtOk(n, e)
  BY <1>3, Zenon DEF ExtOk, StateOk
<1>5. Manager(0)' = n
  BY <1>1, Zenon DEF Manager
<1> QED
  BY <1>2, <1>4, <1>5, Zenon DEF GoodHosts

LEMMA LoadInv ==
  ASSUME HostInv, NEW e \in Extensions, LoadExtension(e)
  PROVE  HostInv'
<1>1. /\ ext[e] = "absent" /\ ext' = [ext EXCEPT ![e] = "loaded"]
      /\ cells' = [cells EXCEPT ![<<e, 0>>] = NewCell] /\ last' = Quiet
      /\ sessions' = sessions /\ cancelled' = cancelled
  BY Zenon DEF LoadExtension
<1>2. /\ ext' \in [Extensions -> {"absent", "loaded", "unloaded"}]
      /\ sessions' \in [Extensions -> SUBSET Nat] /\ cells' \in [CellIds -> Held(Obligations)]
      /\ cancelled' \in SUBSET CellIds
  BY <1>1, StateIsHost, NewCellHeld, Zenon
<1>3. \A f \in Extensions : /\ <<f, 0>> \in CellIds
                            /\ \A s \in Sessions[f] : <<f, s>> \in CellIds /\ <<f, s>> # <<e, 0>>
  BY SessionCellIds, ExtensionHostAssumption, Zenon
<1>4. ASSUME NEW f \in Extensions PROVE StateOk(ext', sessions', cells', cancelled', f)
  <2>1. StateOk(ext, sessions, cells, cancelled, f)
    BY StateOkNow
  <2>2. CASE f = e
    BY <1>1, <1>2, <1>3, <2>1, <2>2, StateIsHost, NewCellHeld DEF StateOk
  <2>3. CASE f # e
    <3>1. <<f, 0>> # <<e, 0>>
      BY <2>3
    <3>2. ext'[f] = ext[f] /\ cells'[<<f, 0>>] = cells[<<f, 0>>]
      BY <1>1, <1>3, <2>3, <3>1, StateIsHost, Zenon
    <3>3. \A s \in Sessions[f] : cells'[<<f, s>>] = cells[<<f, s>>]
      BY <1>1, <1>3, StateIsHost, Zenon
    <3> QED
      BY <1>1, <2>1, <3>2, <3>3, Zenon DEF StateOk
  <2> QED
    BY <2>2, <2>3, Zenon
<1>5. Loaded' \subseteq Loaded \cup {e}
  BY <1>1, StateIsHost DEF Loaded
<1> QED
  BY <1>1, <1>2, <1>4, <1>5, StateOkNext, QuietInv, Zenon

LEMMA CreateInv ==
  ASSUME HostInv, NEW e \in Extensions, NEW s \in Sessions[e], CreateSession(e, s)
  PROVE  HostInv'
<1>1. /\ ext[e] = "loaded" /\ ext' = ext /\ last' = Quiet /\ cancelled' = cancelled
      /\ cells' = [cells EXCEPT ![<<e, s>>] = NewCell]
      /\ sessions' = [sessions EXCEPT ![e] = sessions[e] \cup {s}]
  BY DEF CreateSession
<1>2. s \in Nat /\ s # 0 /\ <<e, s>> \in CellIds
  BY SessionCellIds, ExtensionHostAssumption
<1>3. /\ sessions' \in [Extensions -> SUBSET Nat] /\ cells' \in [CellIds -> Held(Obligations)]
  BY <1>1, <1>2, StateIsHost, NewCellHeld, Zenon
<1>4. \A f \in Extensions : /\ <<f, 0>> \in CellIds /\ <<f, 0>> # <<e, s>>
                            /\ \A t \in Sessions[f] : <<f, t>> \in CellIds
  BY <1>2, SessionCellIds, Zenon
<1>5. ASSUME NEW f \in Extensions PROVE StateOk(ext', sessions', cells', cancelled', f)
  <2>1. StateOk(ext, sessions, cells, cancelled, f)
    BY StateOkNow, Zenon
  <2>2. cells'[<<f, 0>>] = cells[<<f, 0>>]
    BY <1>1, <1>4, StateIsHost
  <2>3. \A t \in Sessions[f] : cells'[<<f, t>>] = cells[<<f, t>>] \/ (f = e /\ t = s)
    BY <1>1, <1>4, StateIsHost, Zenon
  <2>4. CASE f = e
    <3>1. sessions'[f] = sessions[f] \cup {s}
      BY <1>1, <2>4, StateIsHost
    <3>2. IsFiniteSet(sessions[f] \cup {s})
      BY <2>1, FS_AddElement, Zenon DEF StateOk
    <3> QED
      BY <1>1, <2>1, <2>2, <2>3, <2>4, <3>1, <3>2, Zenon DEF StateOk
  <2>5. CASE f # e
    <3>1. sessions'[f] = sessions[f]
      BY <1>1, <2>5, StateIsHost
    <3> QED
      BY <1>1, <2>1, <2>2, <2>3, <2>5, <3>1, Zenon DEF StateOk
  <2> QED
    BY <2>4, <2>5, Zenon
<1>6. Loaded' \subseteq Loaded \cup {e}
  BY <1>1 DEF Loaded
<1> QED
  BY <1>1, <1>3, <1>5, <1>6, StateIsHost, StateOkNext, QuietInv, Zenon

\* The code of a cell changes what is pending, never whether the cell is there.
LEMMA CellInv ==
  ASSUME HostInv, NEW c \in CellIds, cells[c] # NoCell,
         NEW d \in Held(Obligations), d # NoCell, cells' = [cells EXCEPT ![c] = d],
         ext' = ext, sessions' = sessions, cancelled' = cancelled, last' = Quiet
  PROVE  HostInv'
<1>1. cells' \in [CellIds -> Held(Obligations)]
      /\ \A x \in CellIds : cells'[x] # NoCell <=> cells[x] # NoCell
  BY StateIsHost
<1>2. \A f \in Extensions : <<f, 0>> \in CellIds /\ \A t \in Sessions[f] : <<f, t>> \in CellIds
  BY SessionCellIds, Zenon
<1>3. ASSUME NEW f \in Extensions PROVE StateOk(ext', sessions', cells', cancelled', f)
  BY <1>1, <1>2, StateOkNow, Zenon DEF StateOk
<1>4. PICK e \in Extensions : TRUE
  BY DEF CellIds
<1>5. Loaded' \subseteq Loaded \cup {e}
  BY DEF Loaded
<1> QED
  BY <1>1, <1>3, <1>5, StateIsHost, StateOkNext, QuietInv, Zenon

LEMMA CloseSessionInv ==
  ASSUME HostInv, NEW e \in Extensions, NEW s \in Sessions[e], NEW b \in Budgets, CloseSession(e, s, b)
  PROVE  HostInv'
<1>1. b \in Nat /\ "Unload" \in LifecycleEvents
  BY ExtensionHostAssumption DEF LifecycleEvents
<1>2. PICK m \in GoodHosts : m = Manager(b) /\ m.ext = ext
  BY <1>1, StateIsHost, ManagerFields
<1>3. m \in Hosts /\ \A f \in Extensions : ExtOk(m, f)
  BY Zenon DEF GoodHosts
<1>4. PICK c \in CellIds : c = <<e, s>> /\ s # 0
  BY SessionCellIds, ExtensionHostAssumption, Zenon
<1>5. PICK n \in Hosts : n = TearDown(m, c, "Unload") /\ TornDown(m, n, c)
  BY <1>1, <1>3, TearDownStep, Zenon
<1>6. PICK r : r = IF n.cells[c] = NoCell THEN [n EXCEPT !.sessions[e] = @ \ {s}] ELSE n
  BY Zenon
<1>7. Return("close_session", r)
  BY <1>2, <1>4, <1>5, <1>6, Zenon DEF CloseSession
<1>8. /\ n.ext = m.ext /\ n.sessions = m.sessions
      /\ \A d \in CellIds : n.cells[d] = m.cells[d] \/ (d = c /\ n.cells[d] = NoCell)
      /\ \A d \in CellIds : d \in n.cancelled => d \in m.cancelled \/ d = c
  BY <1>5, Zenon DEF TornDown, Shrinks
<1>9. \A f \in Extensions : /\ <<f, 0>> \in CellIds /\ <<f, 0>> # c
                            /\ \A t \in Sessions[f] : <<f, t>> \in CellIds
  BY <1>4, SessionCellIds, Zenon
<1>10. \A f \in Extensions : /\ n.cells[<<f, 0>>] = m.cells[<<f, 0>>]
                             /\ <<f, 0>> \in n.cancelled => <<f, 0>> \in m.cancelled
                             /\ \A t \in Sessions[f] : n.cells[<<f, t>>] # NoCell => m.cells[<<f, t>>] # NoCell
  BY <1>8, <1>9, Zenon
<1>11. ASSUME NEW f \in Extensions PROVE ExtOk(n, f)
  BY <1>3, <1>8, <1>10, Zenon DEF ExtOk
<1>12. r \in GoodHosts /\ r.ext = ext
  <2>1. CASE n.cells[c] # NoCell
    BY <1>2, <1>6, <1>8, <1>11, <2>1, Zenon DEF GoodHosts
  <2>2. CASE n.cells[c] = NoCell
    <3>1. PICK y : y = [n.sessions EXCEPT ![e] = n.sessions[e] \ {s}]
      BY Zenon
    <3>2. /\ y \in [Extensions -> SUBSET Nat] /\ y[e] = n.sessions[e] \ {s}
          /\ \A f \in Extensions : f # e => y[f] = n.sessions[f]
      BY <3>1, Zenon DEF Hosts
    <3>3. r = [ext |-> n.ext, sessions |-> y, cells |-> n.cells, cancelled |-> n.cancelled,
               archived |-> n.archived, budget |-> n.budget]
      BY <1>6, <2>2, <3>1, Zenon DEF Hosts
    <3>4. r \in Hosts
      BY <3>2, <3>3, Zenon DEF Hosts
    <3>5. r.ext = n.ext /\ r.sessions = y /\ r.cells = n.cells /\ r.cancelled = n.cancelled
      BY <3>3, Zenon
    <3>6. ExtOk(r, e)
      <4>1. IsFiniteSet(y[e])
        <5>1. IsFiniteSet(n.sessions[e])
          BY <1>11, Zenon DEF ExtOk
        <5> QED
          BY <3>2, <5>1, FS_Subset, Zenon
      <4>2. \A t \in Sessions[e] : n.cells[<<e, t>>] # NoCell => t # s
        BY <1>4, <2>2
      <4> QED
        BY <1>11, <3>2, <3>5, <4>1, <4>2, Zenon DEF ExtOk
    <3>7. ASSUME NEW f \in Extensions, f # e PROVE ExtOk(r, f)
      BY <1>11, <3>2, <3>5, <3>7, Zenon DEF ExtOk
    <3> QED
      BY <1>2, <1>8, <3>4, <3>5, <3>6, <3>7 DEF GoodHosts
  <2> QED
    BY <2>1, <2>2, Zenon
<1>13. "close_session" # "shutdown"
  OBVIOUS
<1> QED
  BY <1>7, <1>12, <1>13, ReturnInv, Zenon

LEMMA CancelInv ==
  ASSUME HostInv, NEW e \in Extensions, NEW ev \in Events, NEW b \in Budgets, CancelExtension(e, ev, b)
  PROVE  HostInv'
<1>1. b \in Nat /\ ev \in LifecycleEvents
  BY ExtensionHostAssumption, Zenon
<1>2. PICK m \in GoodHosts : m = Manager(b) /\ m.ext = ext
  BY <1>1, StateIsHost, ManagerFields
<1>3. PICK n \in GoodHosts : n = CancelledExtension(m, e, ev) /\ Stopped(m, n, e)
  BY <1>1, ExtensionCancelled, Zenon
<1>4. Return("cancel", n)
  BY <1>2, <1>3, Zenon DEF CancelExtension
<1>5. \A f \in Extensions : n.ext[f] = "loaded" => ext[f] = "loaded"
  BY <1>2, <1>3, Zenon DEF Stopped
<1>6. "cancel" # "shutdown"
  BY Zenon
<1> QED
  BY <1>4, <1>5, <1>6, ReturnInv, Zenon

LEMMA ShutdownInv ==
  ASSUME HostInv, NEW b \in Budgets, Shutdown(b)
  PROVE  HostInv'
<1>1. b \in Nat
  BY ExtensionHostAssumption, Zenon
<1>2. PICK m \in GoodHosts : m = Manager(b) /\ m.ext = ext
  BY <1>1, StateIsHost, ManagerFields
<1>3. PICK L \in SUBSET Nat : L = Loaded /\ IsFiniteSet(L) /\ L \subseteq Extensions
  BY ExtensionHostAssumption, Zenon DEF HostInv, Loaded
<1>4. PICK k \in Nat : /\ InKeyOrder(L) \in [1..k -> L]
                       /\ \A x \in L : \E i \in 1..k : InKeyOrder(L)[i] = x
  BY <1>3, KeyOrder, Zenon
<1>5. PICK q : q = InKeyOrder(L) /\ Visits(q, k, Extensions) /\ \A x \in L : \E i \in 1..k : q[i] = x
  BY <1>3, <1>4, Zenon DEF Visits
<1>6. PICK n \in GoodHosts :
        /\ n = StopAll(m, q)
        /\ \A f \in Extensions : n.ext[f] = "loaded" => m.ext[f] = "loaded"
        /\ n.budget >= LifecycleTransitionCost => \A i \in 1..k : n.ext[q[i]] # "loaded"
  BY <1>5, StoppedInOrder
<1>7. Return("shutdown", n)
  BY <1>2, <1>3, <1>5, <1>6, Zenon DEF Shutdown, StopAll, Loaded
<1>8. ASSUME n.budget >= LifecycleTransitionCost, NEW f \in Extensions PROVE n.ext[f] # "loaded"
  <2>1. CASE f \in L
    BY <1>5, <1>6, <1>8, <2>1
  <2>2. CASE f \notin L
    BY <1>2, <1>3, <1>6, <2>2, Zenon DEF Loaded
  <2> QED
    BY <2>1, <2>2, Zenon
<1> QED
  BY <1>2, <1>6, <1>7, <1>8, ReturnInv, Zenon

LEMMA HostNextInv == HostInv /\ [Next]_vars => HostInv'
<1> SUFFICES ASSUME HostInv, [Next]_vars PROVE HostInv'
  OBVIOUS
<1>1. ASSUME NEW c \in CellIds, NEW o \in Obligations, CellRegister(c, o) PROVE HostInv'
  <2>1. PICK d \in Held(Obligations) : d = cells[c]
    BY StateIsHost, Zenon
  <2>2. d.state = "Running" /\ d # NoCell
    BY <1>1, <2>1, HeldIsRecord DEF CellRegister
  <2>3. PICK g \in Held(Obligations) : g = RegisterObligation(d, o) /\ g # NoCell
    BY <2>2, RegisterHeld
  <2>4. /\ cells' = [cells EXCEPT ![c] = g] /\ ext' = ext /\ sessions' = sessions
        /\ cancelled' = cancelled /\ last' = Quiet
    BY <1>1, <2>1, <2>3, Zenon DEF CellRegister
  <2> QED
    BY <2>1, <2>2, <2>3, <2>4, CellInv, Zenon
<1>2. ASSUME NEW c \in CellIds, NEW o \in Obligations, CellResolve(c, o) PROVE HostInv'
  <2>1. PICK d \in Held(Obligations) : d = cells[c] /\ o \in d.pending
    BY <1>2, StateIsHost, Zenon DEF CellResolve
  <2>2. PICK g \in Held(Obligations) : g = ResolveObligation(d, o) /\ g # NoCell /\ d # NoCell
    BY <2>1, ResolveHeld, Zenon
  <2>3. /\ cells' = [cells EXCEPT ![c] = g] /\ ext' = ext /\ sessions' = sessions
        /\ cancelled' = cancelled /\ last' = Quiet
    BY <1>2, <2>1, <2>2 DEF CellResolve
  <2> QED
    BY <2>1, <2>2, <2>3, CellInv, Zenon
<1>3. CASE UNCHANGED vars
  BY <1>3, Zenon DEF vars, HostInv, Manager, Loaded, ShutdownMissedNothing, Live
<1> QED
  BY <1>1, <1>2, <1>3, LoadInv, CreateInv, CloseSessionInv, CancelInv, ShutdownInv,
     Zenon DEF Next

\* The records of the lifecycle manager and the cells agree after every call:
\* loaded means that the extension's cell is there, and no session cell
\* outlives its extension, although its teardown drops the errors of sessions.
THEOREM HostRecordsMatchCells == Spec => []RecordsMatchCells
<1>1. HostInv => RecordsMatchCells
  <2> SUFFICES ASSUME HostInv, NEW e \in Extensions
               PROVE  /\ ext[e] = "loaded" <=> <<e, 0>> \in Live
                      /\ \A s \in Sessions[e] :
                           <<e, s>> \in Live => ext[e] = "loaded" /\ s \in sessions[e]
    BY Zenon DEF RecordsMatchCells
  <2>1. <<e, 0>> \in CellIds
    BY SessionCellIds, Zenon
  <2> QED
    BY <2>1, StateOkNow, Zenon DEF StateOk, Live
<1> QED
  BY <1>1, HostInitInv, HostNextInv, PTL DEF Spec

\* A cell torn down for the first time is Closed with nothing pending when it
\* is archived, for every event, the zero-tick Terminate included.
THEOREM HostTeardownIsQuiescent == Spec => []TeardownIsQuiescent
<1>1. HostInv => TeardownIsQuiescent
  BY Zenon DEF HostInv, TeardownIsQuiescent, ArchivedCells
<1> QED
  BY <1>1, HostInitInv, HostNextInv, PTL DEF Spec

\* Once shutdown was called no step brings a cell to life: loads and sessions
\* are refused, and the other calls tear cells down or change live ones.
LEMMA NoCellAfterShutdown ==
  ASSUME HostInv, [Next]_vars, shutting_down
  PROVE  Live' \subseteq Live
<1>1. ASSUME NEW b \in Nat, NEW m \in Hosts, cells' = m.cells, NoNewCell(Manager(b), m)
      PROVE  Live' \subseteq Live
  <2>1. Manager(b).cells = cells
    BY ManagerFields, Zenon
  <2> QED
    BY <1>1, <2>1, Zenon DEF Live, NoNewCell
<1>2. ASSUME NEW c \in CellIds, NEW g, cells' = [cells EXCEPT ![c] = g], cells[c] # NoCell
      PROVE  Live' \subseteq Live
  BY <1>2, StateIsHost, Zenon DEF Live
<1>3. ASSUME NEW e \in Extensions, NEW s \in Sessions[e], NEW b \in Budgets, CloseSession(e, s, b)
      PROVE  Live' \subseteq Live
  <2>1. PICK c \in CellIds : c = <<e, s>>
    BY SessionCellIds, Zenon
  <2>2. b \in Nat /\ "Unload" \in LifecycleEvents
    BY ExtensionHostAssumption DEF LifecycleEvents
  <2>3. PICK m \in Hosts : m = Manager(b)
    BY <2>2, StateIsHost, Zenon DEF GoodHosts
  <2>4. PICK n \in Hosts : n = TearDown(m, c, "Unload") /\ TornDown(m, n, c)
    BY <2>2, TearDownStep, Zenon
  <2>5. PICK r : r = (IF n.cells[c] = NoCell THEN [n EXCEPT !.sessions[e] = @ \ {s}] ELSE n)
                 /\ r.cells = n.cells
    <3>1. [n EXCEPT !.sessions[e] = @ \ {s}].cells = n.cells
      BY DEF Hosts
    <3> QED
      BY <3>1, Zenon
  <2>6. cells' = n.cells
    BY <1>3, <2>1, <2>3, <2>4, <2>5, Zenon DEF CloseSession, Return
  <2> QED
    BY <1>1, <2>2, <2>3, <2>4, <2>6, Zenon DEF TornDown, Shrinks, NoNewCell
<1>4. ASSUME NEW e \in Extensions, NEW ev \in Events, NEW b \in Budgets, CancelExtension(e, ev, b)
      PROVE  Live' \subseteq Live
  <2>1. b \in Nat /\ ev \in LifecycleEvents
    BY ExtensionHostAssumption, Zenon
  <2>2. PICK m \in GoodHosts : m = Manager(b)
    BY <2>1, StateIsHost, Zenon
  <2>3. PICK n \in GoodHosts : n = CancelledExtension(m, e, ev) /\ Stopped(m, n, e)
    BY <2>1, ExtensionCancelled, Zenon
  <2>4. cells' = n.cells
    BY <1>4, <2>2, <2>3, Zenon DEF CancelExtension, Return
  <2> QED
    BY <1>1, <2>1, <2>2, <2>3, <2>4, Zenon DEF Stopped, GoodHosts
<1>5. ASSUME NEW b \in Budgets, Shutdown(b) PROVE Live' \subseteq Live
  <2>1. b \in Nat
    BY ExtensionHostAssumption, Zenon
  <2>2. PICK m \in GoodHosts : m = Manager(b)
    BY <2>1, StateIsHost, Zenon
  <2>3. PICK k \in Nat : Visits(InKeyOrder(Loaded), k, Extensions)
    <3>1. PICK L \in SUBSET Nat : L = Loaded /\ IsFiniteSet(L) /\ L \subseteq Extensions
      BY ExtensionHostAssumption, Zenon DEF HostInv, Loaded
    <3>2. PICK k \in Nat : InKeyOrder(L) \in [1..k -> L]
      BY <3>1, KeyOrder, Zenon
    <3>3. Visits(InKeyOrder(L), k, Extensions)
      BY <3>1, <3>2, Zenon DEF Visits
    <3> QED
      BY <3>1, <3>3, Zenon
  <2>4. PICK n \in GoodHosts : n = StopAll(m, InKeyOrder(Loaded)) /\ NoNewCell(m, n)
    BY <2>3, StoppedInOrder, Zenon
  <2>5. cells' = n.cells
    BY <1>5, <2>2, <2>4, Zenon DEF Shutdown, StopAll, Loaded, Return
  <2> QED
    BY <1>1, <2>1, <2>2, <2>4, <2>5, Zenon DEF GoodHosts
<1>6. ASSUME NEW c \in CellIds, NEW o \in Obligations, CellRegister(c, o) \/ CellResolve(c, o)
      PROVE  Live' \subseteq Live
  <2>1. PICK d \in Held(Obligations) : d = cells[c]
    BY StateIsHost, Zenon
  <2>2. d # NoCell
    BY <1>6, <2>1, HeldIsRecord, ResolveHeld, Zenon DEF CellRegister, CellResolve
  <2>3. \E g : cells' = [cells EXCEPT ![c] = g]
    BY <1>6, Zenon DEF CellRegister, CellResolve
  <2> QED
    BY <1>2, <2>1, <2>2, <2>3, Zenon
<1>7. CASE UNCHANGED vars
  BY <1>7, Zenon DEF vars, Live
<1> QED
  BY <1>3, <1>4, <1>5, <1>6, <1>7, Zenon DEF Next, LoadExtension, CreateSession

\* A shutdown that has budget left for one more transition left no cell and no
\* loaded extension, over any number of extensions and sessions, and from the
\* first shutdown on no cell comes to life.
THEOREM HostShutdownIsExhaustive == Spec => ShutdownIsExhaustive
<1>1. HostInv /\ HostInv' /\ [Next]_vars =>
        [ShutdownMissedNothing' /\ (shutting_down => Live' \subseteq Live)]_vars
  BY NoCellAfterShutdown, Zenon DEF HostInv
<1> QED
  BY <1>1, HostInitInv, HostNextInv, PTL DEF Spec, ShutdownIsExhaustive
=============================================================================
