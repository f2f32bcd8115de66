--------------------------- MODULE BindingProofs ---------------------------
(***************************************************************************)
(* Proofs about execution cells and the host binding built on them: for    *)
(* any extensions, sessions, obligations and budgets, and loops over any   *)
(* number of cells.                                                        *)
(***************************************************************************)
EXTENDS HostBinding, FoldLemmas
-----------------------------------------------------------------------------
(* The order of an ordered map. *)

Rising(q, n) == \A i, j \in 1..n : i < j => q[i] < q[j]

LEMMA RisingExists ==
  ASSUME NEW S \in SUBSET Nat, IsFiniteSet(S)
  PROVE  \E q \in [1..Cardinality(S) -> S] : Rising(q, Cardinality(S))
<1> DEFINE Ok(T, n) == \E q \in [1..n -> T] : Rising(q, n)
           G == {n \in Nat : \A T \in SUBSET Nat : IsFiniteSet(T) /\ Cardinality(T) = n => Ok(T, n)}
<1>1. 0 \in G
  <2>1. ASSUME NEW T PROVE Ok(T, 0)
    <3>1. 1..0 = {}
      OBVIOUS
    <3>2. [x \in {} |-> x] \in [1..0 -> T] /\ Rising([x \in {} |-> x], 0)
      BY <3>1, Zenon DEF Rising
    <3> QED
      BY <3>2, Zenon
  <2> QED
    BY <2>1, Zenon
<1>2. ASSUME NEW n \in G PROVE n + 1 \in G
  <2> SUFFICES ASSUME NEW T \in SUBSET Nat, IsFiniteSet(T), Cardinality(T) = n + 1
               PROVE  Ok(T, n + 1)
    OBVIOUS
  <2>1. n \in Nat /\ \A U \in SUBSET Nat : IsFiniteSet(U) /\ Cardinality(U) = n => Ok(U, n)
    BY <1>2, Zenon
  <2> HIDE DEF G
  <2>2. T # {}
    BY <2>1, FS_EmptySet
  <2>3. PICK m \in T : \A x \in T : m <= x
    BY <2>2, Least, Zenon
  <2>4. PICK U \in SUBSET Nat : U = T \ {m}
    BY Zenon
  <2>5. IsFiniteSet(U) /\ Cardinality(U) = n
    <3>1. IsFiniteSet(U) /\ Cardinality(U) = Cardinality(T) - 1
      BY <2>3, <2>4, FS_RemoveElement, Zenon
    <3> QED
      BY <2>1, <3>1
  <2>6. PICK q \in [1..n -> U] : Rising(q, n)
    BY <2>1, <2>5, Zenon
  <2> DEFINE r == [i \in 1..(n + 1) |-> IF i = 1 THEN m ELSE q[i - 1]]
  <2>7. ASSUME NEW i \in 2..(n + 1) PROVE i - 1 \in 1..n /\ q[i - 1] \in T /\ q[i - 1] > m
    <3>1. i - 1 \in 1..n
      BY <2>1
    <3>2. q[i - 1] \in U
      BY <2>6, <3>1, Zenon
    <3>3. PICK x \in T : x = q[i - 1] /\ x # m
      BY <2>4, <3>2, Zenon
    <3>4. m <= x /\ m \in Nat /\ x \in Nat
      BY <2>3, Zenon
    <3>5. x > m
      BY <3>3, <3>4
    <3> QED
      BY <3>1, <3>3, <3>5, Zenon
  <2>8. r \in [1..(n + 1) -> T]
    <3>1. \A i \in 1..(n + 1) : i = 1 \/ i \in 2..(n + 1)
      BY <2>1
    <3> QED
      BY <2>3, <2>7, <3>1, Zenon
  <2>9. ASSUME NEW i \in 1..(n + 1), NEW j \in 1..(n + 1), i < j PROVE r[i] < r[j]
    <3>1. j \in 2..(n + 1) /\ (i = 1 \/ i \in 2..(n + 1))
      BY <2>1, <2>9
    <3>2. CASE i = 1
      BY <2>7, <3>1, <3>2
    <3>3. CASE i \in 2..(n + 1)
      <4>1. i - 1 \in 1..n /\ j - 1 \in 1..n /\ i - 1 < j - 1
        BY <2>1, <2>9, <3>1, <3>3
      <4>2. q[i - 1] < q[j - 1]
        BY <2>6, <4>1, Zenon DEF Rising
      <4>3. r[i] = q[i - 1] /\ r[j] = q[j - 1]
        BY <2>9, <3>1, <3>3
      <4> QED
        BY <4>2, <4>3, Zenon
    <3> QED
      BY <3>1, <3>2, <3>3, Zenon
  <2> HIDE DEF r
  <2>10. Rising(r, n + 1)
    BY <2>9, Zenon DEF Rising
  <2> QED
    BY <2>8, <2>10, Zenon
<1>3. G = Nat
  <2>1. G \in SUBSET Nat
    BY Zenon
  <2> HIDE DEF G
  <2> QED
    BY <1>1, <1>2, <2>1, Induction, Zenon
<1>4. Cardinality(S) \in Nat
  BY FS_CardinalityType, Zenon
<1> QED
  BY <1>3, <1>4, Zenon

\* The iteration visits every key, and nothing else.
LEMMA KeyOrder ==
  ASSUME NEW S \in SUBSET Nat, IsFiniteSet(S)
  PROVE  \E n \in Nat : /\ InKeyOrder(S) \in [1..n -> S]
                        /\ \A x \in S : \E i \in 1..n : InKeyOrder(S)[i] = x
<1>1. PICK n \in Nat : n = Cardinality(S)
  BY FS_CardinalityType, Zenon
<1>2. PICK q : q = InKeyOrder(S)
  BY Zenon
<1>3. q \in [1..n -> S] /\ Rising(q, n)
  <2>1. \E r \in [1..n -> S] : \A i, j \in 1..n : i < j => r[i] < r[j]
    BY <1>1, RisingExists, Zenon DEF Rising
  <2> QED
    BY <1>1, <1>2, <2>1, Zenon DEF InKeyOrder, Rising
<1>4. q \in Injection(1..n, S)
  <2>1. ASSUME NEW i \in 1..n, NEW j \in 1..n, q[i] = q[j] PROVE i = j
    <3>1. q[i] \in Nat /\ q[j] \in Nat
      BY <1>3, Zenon
    <3>2. ~(q[i] < q[j]) /\ ~(q[j] < q[i])
      BY <2>1, <3>1
    <3>3. ~(i < j) /\ ~(j < i)
      BY <1>3, <3>2, Zenon DEF Rising
    <3> QED
      BY <3>3
  <2> QED
    BY <1>3, <2>1, Zenon DEF Injection, IsInjective
<1>5. Cardinality(1..n) = n
  BY FS_Interval
<1>6. q \in Surjection(1..n, S)
  BY <1>1, <1>4, <1>5, FS_Injection, Zenon
<1> QED
  BY <1>2, <1>3, <1>6, Zenon DEF Surjection

\* q lists n keys of S.
Visits(q, n, S) == q \in [1..n -> S]
-----------------------------------------------------------------------------
(* Cells. *)

Cells(O) == [state : {"absent", "Running", "Draining", "Closed"}, pending : SUBSET O,
             deadline : Nat, escalated : BOOLEAN]

\* Between calls a cell is absent or runs.
Held(O) == {c \in Cells(O) : c = NoCell \/ c.state = "Running"}

LEMMA NewCellHeld == ASSUME NEW O PROVE NoCell \in Held(O) /\ NewCell \in Held(O) /\ NewCell # NoCell
<1>1. NoCell \in Cells(O) /\ NoCell.state = "absent"
  BY Zenon DEF NoCell, Cells
<1>2. NewCell \in Cells(O) /\ NewCell.state = "Running"
  BY Zenon DEF NewCell, NoCell, Cells
<1> QED
  BY <1>1, <1>2, Zenon DEF Held

LEMMA HeldIsRecord ==
  ASSUME NEW O, NEW c \in Held(O)
  PROVE  c \in Cells(O) /\ (c # NoCell => c.state = "Running") /\ (c = NoCell => c.state = "absent")
BY DEF Held, NoCell

LEMMA RegisterHeld ==
  ASSUME NEW O, NEW c \in Held(O), NEW o \in O, c.state = "Running"
  PROVE  RegisterObligation(c, o) \in Held(O) /\ RegisterObligation(c, o) # NoCell
<1>1. PICK d : d = [c EXCEPT !.pending = @ \cup {o}]
  BY Zenon
<1>2. d \in Cells(O) /\ d.state = "Running"
  BY <1>1, Zenon DEF Held, Cells
<1>3. d # NoCell
  BY <1>2 DEF NoCell
<1> QED
  BY <1>1, <1>2, <1>3, Zenon DEF RegisterObligation, Held

LEMMA ResolveHeld ==
  ASSUME NEW O, NEW c \in Held(O), NEW o \in c.pending
  PROVE  ResolveObligation(c, o) \in Held(O) /\ c # NoCell /\ ResolveObligation(c, o) # NoCell
<1>1. c # NoCell
  BY DEF NoCell
<1>2. PICK d : d = [c EXCEPT !.pending = @ \ {o}]
  BY Zenon
<1>3. d \in Cells(O) /\ d.state = "Running"
  BY <1>1, <1>2, Zenon DEF Held, Cells
<1>4. d # NoCell
  BY <1>3 DEF NoCell
<1> QED
  BY <1>1, <1>2, <1>3, <1>4, Zenon DEF ResolveObligation, Held

\* The drain and the finalization of a cell that is draining.
LEMMA DrainedCell ==
  ASSUME NEW O, NEW c \in Cells(O), NEW n \in Nat
  PROVE  /\ DrainTicks(c, n) \in Cells(O)
         /\ DrainTicks(c, n).pending = c.pending
         /\ c.pending # {} /\ n > 0 /\ n >= c.deadline => DrainTicks(c, n).escalated
<1>1. CASE c.pending = {}
  BY <1>1, Zenon DEF DrainTicks
<1>2. CASE c.pending # {}
  <2>1. PICK e \in BOOLEAN : e = (c.escalated \/ (n > 0 /\ n >= c.deadline))
    BY Zenon
  <2>2. DrainTicks(c, n) = [c EXCEPT !.escalated = e]
    BY <1>2, <2>1, Zenon DEF DrainTicks, Cells
  <2> QED
    BY <2>1, <2>2, Zenon DEF Cells
<1> QED
  BY <1>1, <1>2, Zenon

LEMMA FinalizedCell ==
  ASSUME NEW O, NEW c \in Cells(O)
  PROVE  LET f == Finalize(c) IN
         /\ f.cell \in Cells(O) /\ f.cell.state = "Closed" /\ f.success \in BOOLEAN
         /\ f.aborted \in SUBSET O
         /\ f.success <=> f.cell.pending = {}
         /\ c.escalated \/ c.pending = {} => f.cell.pending = {}
<1>1. PICK left \in SUBSET O : left = IF c.escalated THEN {} ELSE c.pending
  BY Zenon DEF Cells
<1>2. Finalize(c) = [cell |-> [c EXCEPT !.state = "Closed", !.pending = left],
                     success |-> (left = {}), aborted |-> c.pending \ left]
  BY <1>1, Zenon DEF Finalize
<1>3. PICK d : d = [c EXCEPT !.state = "Closed", !.pending = left]
  BY Zenon
<1>4. d \in Cells(O) /\ d.state = "Closed" /\ d.pending = left
  BY <1>1, <1>3, Zenon DEF Cells
<1>5. c.pending \ left \in SUBSET O
  BY Zenon DEF Cells
<1>6. Finalize(c).cell = d /\ Finalize(c).aborted = c.pending \ left
  BY <1>2, <1>3
<1>7. Finalize(c).success = (left = {})
  <2>1. PICK yes : yes = (left = {})
    BY Zenon
  <2>2. Finalize(c) = [cell |-> d, success |-> yes, aborted |-> c.pending \ left]
    BY <1>2, <1>3, <2>1, Zenon
  <2>3. Finalize(c).success = yes
    BY <2>2
  <2> QED
    BY <2>1, <2>3, Zenon
<1>8. (left = {}) \in BOOLEAN
  BY Zenon
<1>9. c.escalated \/ c.pending = {} => left = {}
  BY <1>1, Zenon
<1> QED
  BY <1>4, <1>5, <1>6, <1>7, <1>8, <1>9, Zenon

LEMMA InitiatedClose ==
  ASSUME NEW O, NEW c \in Held(O), NEW b \in Nat, NEW n \in Nat
  PROVE  LET r == InitiateClose(c, b, n) IN
         /\ r.ok \in BOOLEAN /\ r.cell \in Cells(O) /\ r.budget \in Nat /\ r.budget <= b
         /\ r.ok <=> b >= CellTransitionCost /\ c # NoCell
         /\ r.ok => r.cell.pending = c.pending /\ r.cell.deadline = n /\ r.budget = b - CellTransitionCost
         /\ ~r.ok => r.cell = c
         /\ b < CellTransitionCost => r.budget = b
<1>1. PICK ok \in BOOLEAN : ok = (b >= CellTransitionCost /\ c.state = "Running")
  BY Zenon
<1>2. ok <=> b >= CellTransitionCost /\ c # NoCell
  BY <1>1, HeldIsRecord, Zenon
<1>3. PICK d : d = IF ok THEN [c EXCEPT !.state = "Draining", !.deadline = n] ELSE c
  BY Zenon
<1>4. d \in Cells(O) /\ (ok => d.pending = c.pending /\ d.deadline = n)
  <2>1. c \in Cells(O)
    BY HeldIsRecord, Zenon
  <2>2. CASE ok
    <3>1. d = [c EXCEPT !.state = "Draining", !.deadline = n]
      BY <1>3, <2>2, Zenon
    <3> QED
      BY <2>1, <3>1, Zenon DEF Cells
  <2>3. CASE ~ok
    BY <1>3, <2>1, <2>3, Zenon
  <2> QED
    BY <2>2, <2>3, Zenon
<1>5. PICK left : left = IF b >= CellTransitionCost THEN b - CellTransitionCost ELSE b
  BY Zenon
<1>6. left \in Nat /\ left <= b /\ (b < CellTransitionCost => left = b) /\ (ok => left = b - CellTransitionCost)
  BY <1>2, <1>5 DEF CellTransitionCost
<1>7. InitiateClose(c, b, n) = [ok |-> ok, cell |-> d, budget |-> left]
  BY <1>1, <1>3, <1>5, Zenon DEF InitiateClose
<1> QED
  BY <1>2, <1>3, <1>4, <1>6, <1>7

\* close destroys a cell that runs and can be paid for, and leaves any other
\* as it is.
LEMMA ClosedCell ==
  ASSUME NEW O, NEW c \in Held(O), NEW b \in Nat, NEW n \in Nat, NEW q, q = Close(c, b, n)
  PROVE  /\ q.ok \in BOOLEAN /\ q.cell \in Cells(O) /\ q.budget \in Nat /\ q.budget <= b
         /\ q.ok => /\ q.cell.state = "Closed" /\ q.success \in BOOLEAN
                    /\ q.success <=> q.cell.pending = {}
         /\ ~q.ok => q.cell = c /\ (c = NoCell \/ q.budget < CellTransitionCost)
<1>1. PICK r : r = InitiateClose(c, b, n)
  BY Zenon
<1>2. /\ r.ok \in BOOLEAN /\ r.cell \in Cells(O) /\ r.budget \in Nat /\ r.budget <= b
      /\ r.ok <=> b >= CellTransitionCost /\ c # NoCell
      /\ ~r.ok => r.cell = c
      /\ b < CellTransitionCost => r.budget = b
  BY <1>1, InitiatedClose
<1>7. PICK d \in Cells(O) : d = DrainTicks(r.cell, n)
  BY <1>2, DrainedCell, Zenon
<1>3. PICK f : d = DrainTicks(r.cell, n) /\ f = Finalize(d)
  BY <1>7, Zenon
<1>4. /\ f.cell \in Cells(O) /\ f.cell.state = "Closed" /\ f.success \in BOOLEAN
      /\ f.success <=> f.cell.pending = {}
  BY <1>3, FinalizedCell
<1>5. CASE r.ok
  <2>1. q = [ok |-> TRUE, cell |-> f.cell, budget |-> r.budget,
             success |-> f.success, aborted |-> f.aborted]
    BY <1>1, <1>3, <1>5, Zenon DEF Close
  <2>2. q.ok /\ q.cell = f.cell /\ q.budget = r.budget /\ q.success = f.success
    BY <2>1
  <2> QED
    BY <1>2, <1>4, <2>2, Zenon
<1>6. CASE ~r.ok
  <2>1. q = [ok |-> FALSE, cell |-> r.cell, budget |-> r.budget, success |-> FALSE, aborted |-> {}]
    BY <1>1, <1>3, <1>6, Zenon DEF Close
  <2>2. ~q.ok /\ q.cell = r.cell /\ q.budget = r.budget /\ q.ok = FALSE
    BY <2>1
  <2>3. c = NoCell \/ r.budget < CellTransitionCost
    BY <1>2, <1>6 DEF CellTransitionCost
  <2> QED
    BY <1>2, <1>6, <2>2, <2>3, Zenon
<1> QED
  BY <1>2, <1>5, <1>6, Zenon
-----------------------------------------------------------------------------
(* The binding. *)

Reports ==
  {a \in [id : Ids, cell : Cells(BoundObligations), success : BOOLEAN] :
     a.cell.state = "Closed" /\ (a.success <=> a.cell.pending = {})}

Managers ==
  [cells : [Ids -> Held(BoundObligations)], owner : [Ids -> Nat],
   closed : SUBSET Reports, budget : Nat]

\* What closing x makes of the manager m.
ClosedOne(m, n, x) ==
  /\ n.budget <= m.budget
  /\ \A y \in Ids : y # x => n.cells[y] = m.cells[y]
  /\ n.cells[x] = NoCell \/ n.cells[x] = m.cells[x]
  /\ n.budget >= CellTransitionCost => n.cells[x] = NoCell

LEMMA CloseCellStep ==
  ASSUME NEW m \in Managers, NEW x \in Ids, deadline \in Nat
  PROVE  CloseCell(m, x) \in Managers /\ ClosedOne(m, CloseCell(m, x), x)
<1>1. PICK c \in Held(BoundObligations) : c = m.cells[x]
  BY Zenon DEF Managers
<1>2. PICK b \in Nat : b = m.budget
  BY Zenon DEF Managers
<1> PICK n \in Nat : n = deadline
  BY Zenon
<1>3. PICK r : r = Close(c, b, n)
  BY Zenon
<1>4. /\ r.ok \in BOOLEAN /\ r.cell \in Cells(BoundObligations) /\ r.budget \in Nat /\ r.budget <= b
      /\ r.ok => /\ r.cell.state = "Closed" /\ r.success \in BOOLEAN
                 /\ r.success <=> r.cell.pending = {}
      /\ ~r.ok => r.cell = c /\ (c = NoCell \/ r.budget < CellTransitionCost)
  BY <1>3, ClosedCell
<1>5. CASE r.ok
  <2>1. PICK a : a = [id |-> x, cell |-> r.cell, success |-> r.success]
    BY Zenon
  <2>2. a \in Reports
    <3>1. a \in [id : Ids, cell : Cells(BoundObligations), success : BOOLEAN]
      BY <1>4, <1>5, <2>1, Zenon
    <3>2. a.cell = r.cell /\ a.success = r.success
      BY <2>1, Zenon
    <3> QED
      BY <1>4, <1>5, <3>1, <3>2, Zenon DEF Reports
  <2>3. CloseCell(m, x) = [m EXCEPT !.cells[x] = NoCell, !.owner[x] = 0, !.budget = r.budget,
                                    !.closed = @ \cup {a}]
    BY <1>1, <1>2, <1>3, <1>5, <2>1, Zenon DEF CloseCell
  <2>4. PICK d : d = [m.cells EXCEPT ![x] = NoCell]
    BY Zenon
  <2>5. d \in [Ids -> Held(BoundObligations)] /\ d[x] = NoCell /\ \A y \in Ids : y # x => d[y] = m.cells[y]
    BY <2>4, NewCellHeld, Zenon DEF Managers
  <2>6. PICK w : w = [m.owner EXCEPT ![x] = 0]
    BY Zenon
  <2>7. w \in [Ids -> Nat]
    BY <2>6, Zenon DEF Managers
  <2>8. CloseCell(m, x) = [cells |-> d, owner |-> w, closed |-> m.closed \cup {a}, budget |-> r.budget]
    BY <2>3, <2>4, <2>6, Zenon DEF Managers
  <2>9. m.closed \cup {a} \in SUBSET Reports
    BY <2>2, Zenon DEF Managers
  <2> QED
    BY <1>2, <1>4, <2>5, <2>7, <2>8, <2>9 DEF Managers, ClosedOne
<1>6. CASE ~r.ok
  <2>1. CloseCell(m, x) = [m EXCEPT !.cells[x] = c, !.budget = r.budget]
    BY <1>1, <1>2, <1>3, <1>4, <1>6, Zenon DEF CloseCell
  <2>2. CloseCell(m, x) = [m EXCEPT !.budget = r.budget]
    BY <1>1, <2>1, Zenon DEF Managers
  <2> QED
    BY <1>1, <1>2, <1>4, <1>6, <2>2 DEF Managers, ClosedOne, CellTransitionCost
<1> QED
  BY <1>4, <1>5, <1>6, Zenon

\* unload_all closes the cells in order: acc[k] is the manager after k of them.
ClosingAll(b, q) == FoldLeft(CloseCell, b, q)
ClosingKeeps(S, V) == \A v \in V, x \in S : CloseCell(v, x) \in V
ClosingOp(n, q, V) == [k \in 1..n |-> [v \in V |-> CloseCell(v, q[k])]]
ClosingStep(b, q, D, h) ==
  [s \in SUBSET D |-> IF s = {} THEN b ELSE CloseCell(h[s \ {Max(s)}], q[Max(s)])]
ClosingIter(b, q, D) == CHOOSE iter : iter = ClosingStep(b, q, D, iter)
ClosingRuns(acc, n, b, q, V) ==
  /\ acc \in [0..n -> V]
  /\ acc[0] = b
  /\ \A k \in 1..n : acc[k] = CloseCell(acc[k - 1], q[k])

LEMMA ClosingFold ==
  ASSUME NEW n \in Nat, NEW S, NEW V, NEW b \in V, NEW q, Visits(q, n, S),
         ClosingKeeps(S, V)
  PROVE  \E acc : ClosingRuns(acc, n, b, q, V) /\ acc[n] = ClosingAll(b, q)
<1>1. PICK I, C : I = 1..n /\ C = MaxPick(n) /\ I = DOMAIN q
  BY Zenon DEF Visits
<1>2. PICK iter : iter = ClosingIter(b, q, I)
  BY Zenon
<1>3. ClosingAll(b, q) = iter[I]
  <2>1. ClosingAll(b, q) = ClosingIter(b, q, DOMAIN q)[DOMAIN q]
    BY Zenon DEF ClosingAll, FoldLeft, MapThenFoldSet, ClosingIter, ClosingStep
  <2> QED
    BY <1>1, <1>2, <2>1, Zenon
<1>4. PICK Op : Op = ClosingOp(n, q, V)
  BY Zenon
<1>5. \A k \in I : \A v \in V : Op[k][v] = CloseCell(v, q[k])
  BY <1>1, <1>4, Zenon DEF ClosingOp
<1>6. Closed(Op, I, V)
  BY <1>1, <1>5, Zenon DEF Closed, Visits, ClosingKeeps
<1>7. IsFiniteSet(I) /\ Picks(C, I)
  BY <1>1, MaxPicks, FS_Interval
<1>8. PICK g : Maps(g, I, V) /\ Obeys(g, I, b, C, Op, V)
  BY <1>6, <1>7, Recursion, Zenon
<1>9. \A s \in SUBSET I : C[s] = Max(s)
  BY <1>1, Zenon DEF MaxPick
<1>10. \A s \in SUBSET I : s # {} => Max(s) \in I /\ s \ {Max(s)} \in SUBSET I
  BY <1>7, <1>9, Zenon DEF Picks
<1>11. g = ClosingStep(b, q, I, g)
  <2>1. ASSUME NEW s \in SUBSET I
        PROVE  g[s] = IF s = {} THEN b ELSE CloseCell(g[s \ {Max(s)}], q[Max(s)])
    BY <1>5, <1>8, <1>9, <1>10, Zenon DEF Maps, Obeys, ObeysAt
  <2> QED
    BY <1>8, <2>1, Zenon DEF Maps, ClosingStep
<1>12. iter = ClosingStep(b, q, I, iter)
  BY <1>2, <1>11, Zenon DEF ClosingIter
<1>13. Obeys(iter, I, b, C, Op, V)
  <2> SUFFICES ASSUME NEW s \in SUBSET I PROVE ObeysAt(iter, s, b, C, Op, V)
    BY Zenon DEF Obeys
  <2>1. iter[s] = IF s = {} THEN b ELSE CloseCell(iter[s \ {Max(s)}], q[Max(s)])
    BY <1>12, Zenon DEF ClosingStep
  <2>2. CASE s = {}
    BY <2>1, <2>2, Zenon DEF ObeysAt
  <2>3. CASE s # {}
    <3>1. PICK c \in I : c = Max(s) /\ c = C[s]
      BY <1>9, <1>10, <2>3, Zenon
    <3>2. iter[s] = CloseCell(iter[s \ {c}], q[c])
      BY <2>1, <2>3, <3>1, Zenon
    <3>3. ASSUME iter[s \ {c}] \in V PROVE iter[s] = Op[c][iter[s \ {c}]]
      BY <1>5, <3>2, <3>3, Zenon
    <3> QED
      BY <2>3, <3>1, <3>3, Zenon DEF ObeysAt
  <2> QED
    BY <2>2, <2>3, Zenon
<1>14. PICK acc : Runs(acc, n, b, Op, V) /\ acc[n] = iter[1..n]
  BY <1>1, <1>6, <1>13, LeftFold
<1>15. ASSUME NEW k \in 1..n PROVE acc[k] = CloseCell(acc[k - 1], q[k])
  <2>1. acc[k] = Op[k][acc[k - 1]] /\ acc[k - 1] \in V
    <3>1. k - 1 \in 0..n
      OBVIOUS
    <3> QED
      BY <1>14, <3>1, Zenon DEF Runs
  <2> QED
    BY <1>1, <1>5, <2>1, Zenon
<1> QED
  BY <1>1, <1>3, <1>14, <1>15, Zenon DEF Runs, ClosingRuns

\* Closing the cells one after the other, q[k] the k-th: only cells that were
\* there go, and if the last one could be paid for all of them went.
ClosedSome(b, m, n, q) ==
  /\ \A y \in Ids : m.cells[y] \in {NoCell, b.cells[y]}
  /\ m.budget >= CellTransitionCost => \A i \in 1..n : m.cells[q[i]] = NoCell

LEMMA ClosedInOrder ==
  ASSUME NEW b \in Managers, NEW n \in Nat, NEW q, Visits(q, n, Ids), deadline \in Nat
  PROVE  ClosingAll(b, q) \in Managers /\ ClosedSome(b, ClosingAll(b, q), n, q)
<1> PICK m : m = ClosingAll(b, q)
  BY Zenon
<1>1. PICK acc : ClosingRuns(acc, n, b, q, Managers) /\ acc[n] = m
  <2>1. ClosingKeeps(Ids, Managers)
    BY CloseCellStep, Zenon DEF ClosingKeeps
  <2> QED
    BY <2>1, ClosingFold
<1> DEFINE Ok(k) == /\ \A y \in Ids : acc[k].cells[y] \in {NoCell, b.cells[y]}
                    /\ acc[k].budget >= CellTransitionCost =>
                         \A i \in 1..k : acc[k].cells[q[i]] = NoCell
           G == {k \in Nat : k <= n => Ok(k)}
<1>2. acc \in [0..n -> Managers] /\ acc[0] = b
  BY <1>1, Zenon DEF ClosingRuns
<1>3. 0 \in G
  BY <1>2
<1>4. ASSUME NEW k \in G PROVE k + 1 \in G
  <2> SUFFICES ASSUME k + 1 <= n PROVE Ok(k + 1)
    OBVIOUS
  <2>1. k \in Nat /\ k \in 0..n /\ k + 1 \in 1..n /\ k + 1 \in 0..n /\ Ok(k) /\ (k + 1) - 1 = k
    OBVIOUS
  <2> HIDE DEF G
  <2>2. PICK v \in Managers, w \in Managers, x \in Ids : v = acc[k] /\ w = acc[k + 1] /\ x = q[k + 1]
    BY <1>2, <2>1, Zenon DEF Visits
  <2>3. w = CloseCell(v, x)
    BY <1>1, <2>1, <2>2, Zenon DEF ClosingRuns
  <2>4. ClosedOne(v, w, x)
    BY <2>3, CloseCellStep, Zenon
  <2>5. /\ \A y \in Ids : v.cells[y] \in {NoCell, b.cells[y]}
        /\ v.budget >= CellTransitionCost => \A i \in 1..k : v.cells[q[i]] = NoCell
    BY <2>1, <2>2, Zenon
  <2>6. \A y \in Ids : w.cells[y] = v.cells[y] \/ w.cells[y] = NoCell
    BY <2>4, Zenon DEF ClosedOne
  <2>7. ASSUME w.budget >= CellTransitionCost, NEW i \in 1..(k + 1) PROVE w.cells[q[i]] = NoCell
    <3>1. v.budget \in Nat /\ w.budget \in Nat /\ w.budget <= v.budget
      BY <2>4, Zenon DEF ClosedOne, Managers
    <3>2. v.budget >= CellTransitionCost
      BY <2>7, <3>1 DEF CellTransitionCost
    <3>3. i \in 1..k \/ i = k + 1
      BY <2>1
    <3>4. q[i] \in Ids
      BY <2>1 DEF Visits
    <3> QED
      BY <2>2, <2>4, <2>5, <2>6, <2>7, <3>2, <3>3, <3>4, Zenon DEF ClosedOne
  <2> QED
    BY <2>2, <2>5, <2>6, <2>7, Zenon
<1>5. G = Nat
  <2>1. G \in SUBSET Nat
    BY Zenon
  <2> HIDE DEF G
  <2> QED
    BY <1>3, <1>4, <2>1, Induction, Zenon
<1>6. Ok(n) /\ n \in 0..n
  <2>1. n \in G
    BY <1>5, Zenon
  <2> QED
    BY <2>1
<1> QED
  BY <1>1, <1>2, <1>6, Zenon DEF ClosedSome

BindingInv ==
  /\ bound_cells \in [Ids -> Held(BoundObligations)]
  /\ owner \in [Ids -> Nat]
  /\ deadline \in Nat
  /\ IsFiniteSet(Bound)
  /\ bound_last.closed \subseteq Reports
  /\ UnloadAllIsExhaustive

LEMMA BindingInitInv == BindingInit => BindingInv
<1> SUFFICES ASSUME BindingInit PROVE BindingInv
  BY Zenon
<1>1. Bound = {}
  BY Zenon DEF BindingInit, Bound
<1>2. bound_cells \in [Ids -> Held(BoundObligations)] /\ owner \in [Ids -> Nat]
  BY NewCellHeld, Zenon DEF BindingInit
<1>3. deadline \in Nat
  BY HostBindingAssumption, Zenon DEF BindingInit
<1>4. bound_last.closed = {}
  BY Zenon DEF BindingInit, Idle
<1> QED
  BY <1>1, <1>2, <1>3, <1>4, FS_EmptySet, Zenon DEF BindingInv, UnloadAllIsExhaustive

\* A call that touches one cell.
LEMMA OneCellInv ==
  ASSUME BindingInv, NEW x \in Ids, NEW c \in Held(BoundObligations),
         bound_cells' = [bound_cells EXCEPT ![x] = c], owner' \in [Ids -> Nat],
         deadline' = deadline, bound_last' = Idle
  PROVE  BindingInv'
<1>1. bound_cells' \in [Ids -> Held(BoundObligations)]
  BY Zenon DEF BindingInv
<1>2. IsFiniteSet(Bound')
  <2>1. Bound' \subseteq Bound \cup {x}
    BY Zenon DEF BindingInv, Bound
  <2>2. IsFiniteSet(Bound \cup {x})
    BY FS_AddElement, Zenon DEF BindingInv
  <2> QED
    BY <2>1, <2>2, FS_Subset, Zenon
<1>3. bound_last'.closed = {} /\ bound_last'.call = "other"
  BY Zenon DEF Idle
<1> QED
  BY <1>1, <1>2, <1>3, Zenon DEF BindingInv, UnloadAllIsExhaustive

LEMMA UnloadedInv ==
  ASSUME BindingInv, NEW b \in Nat, NEW call, NEW m \in Managers, Unloaded(call, m),
         \A y \in Ids : m.cells[y] \in {NoCell, bound_cells[y]},
         call = "unload_all" /\ m.budget >= CellTransitionCost => \A y \in Ids : m.cells[y] = NoCell
  PROVE  BindingInv'
<1>1. bound_cells' = m.cells /\ owner' = m.owner /\ deadline' = deadline
      /\ bound_last' = [call |-> call, closed |-> m.closed, left |-> m.budget]
  BY Zenon DEF Unloaded
<1>2. bound_cells' \in [Ids -> Held(BoundObligations)] /\ owner' \in [Ids -> Nat] /\ m.closed \subseteq Reports
  BY <1>1, Zenon DEF Managers
<1>3. IsFiniteSet(Bound')
  <2>1. Bound' \subseteq Bound
    BY <1>1, Zenon DEF Bound
  <2> QED
    BY <2>1, FS_Subset, Zenon DEF BindingInv
<1>4. UnloadAllIsExhaustive'
  <2>1. bound_last'.call = call /\ bound_last'.left = m.budget
    BY <1>1, Zenon
  <2> QED
    BY <1>1, <2>1, Zenon DEF UnloadAllIsExhaustive, Bound
<1>5. bound_last'.closed = m.closed
  BY <1>1, Zenon
<1> QED
  BY <1>1, <1>2, <1>3, <1>4, <1>5, Zenon DEF BindingInv

LEMMA BindingNextInv == BindingInv /\ [BindingNext]_bound => BindingInv'
<1> SUFFICES ASSUME BindingInv, [BindingNext]_bound PROVE BindingInv'
  BY Zenon
<1>1. \A b \in BoundBudgets : b \in Nat
  BY HostBindingAssumption, Zenon
<1>2. ASSUME NEW b \in Nat PROVE Bindings(b) \in Managers /\ Bindings(b).cells = bound_cells
  BY Zenon DEF Bindings, Managers, BindingInv
<1>3. deadline \in Nat /\ owner \in [Ids -> Nat] /\ bound_cells \in [Ids -> Held(BoundObligations)]
  BY Zenon DEF BindingInv
<1>4. ASSUME NEW x \in Ids, NEW b \in BoundBudgets, BindExtension(x, b) PROVE BindingInv'
  <2>1. owner' \in [Ids -> Nat]
    BY <1>3, <1>4, Zenon DEF BindExtension
  <2> QED
    BY <1>4, <2>1, OneCellInv, NewCellHeld, Zenon DEF BindExtension
<1>5. ASSUME NEW x \in Ids, NEW s \in Ids, StartSession(x, s) PROVE BindingInv'
  <2>1. owner' \in [Ids -> Nat]
    BY <1>3, <1>5, HostBindingAssumption, Zenon DEF StartSession
  <2> QED
    BY <1>5, <2>1, OneCellInv, NewCellHeld, Zenon DEF StartSession
<1>6. ASSUME NEW x \in Ids, NEW b \in BoundBudgets, UnloadExtension(x, b) PROVE BindingInv'
  <2>1. PICK v \in Managers : v = Bindings(b) /\ v.cells = bound_cells
    BY <1>1, <1>2, Zenon
  <2>2. PICK m \in Managers : m = CloseCell(v, x) /\ ClosedOne(v, m, x)
    BY <1>3, CloseCellStep, Zenon
  <2>3. Unloaded("unload", m)
    BY <1>6, <2>1, <2>2, Zenon DEF UnloadExtension
  <2>4. \A y \in Ids : m.cells[y] \in {NoCell, bound_cells[y]}
    BY <2>1, <2>2, Zenon DEF ClosedOne
  <2>5. "unload" # "unload_all"
    BY Zenon
  <2> QED
    BY <1>1, <2>3, <2>4, <2>5, UnloadedInv, Zenon
<1>7. ASSUME NEW b \in BoundBudgets, UnloadAll(b) PROVE BindingInv'
  <2>1. PICK v \in Managers : v = Bindings(b) /\ v.cells = bound_cells
    BY <1>1, <1>2, Zenon
  <2>2. PICK n \in Nat : /\ InKeyOrder(Bound) \in [1..n -> Bound]
                         /\ \A x \in Bound : \E i \in 1..n : InKeyOrder(Bound)[i] = x
    <3>1. Bound \in SUBSET Nat /\ IsFiniteSet(Bound)
      BY HostBindingAssumption, Zenon DEF Bound, BindingInv
    <3> QED
      BY <3>1, KeyOrder, Zenon
  <2>3. PICK q : /\ q = InKeyOrder(Bound) /\ Visits(q, n, Ids)
                 /\ \A x \in Bound : \E i \in 1..n : q[i] = x
    BY <2>2, Zenon DEF Bound, Visits
  <2>4. PICK m \in Managers : m = ClosingAll(v, q) /\ ClosedSome(v, m, n, q)
    BY <1>3, <2>3, ClosedInOrder, Zenon
  <2>5. /\ \A y \in Ids : m.cells[y] \in {NoCell, v.cells[y]}
        /\ m.budget >= CellTransitionCost => \A i \in 1..n : m.cells[q[i]] = NoCell
    BY <2>4, Zenon DEF ClosedSome
  <2>6. Unloaded("unload_all", m)
    BY <1>7, <2>1, <2>3, <2>4, Zenon DEF UnloadAll, ClosingAll
  <2>7. ASSUME m.budget >= CellTransitionCost, NEW y \in Ids PROVE m.cells[y] = NoCell
    <3>1. CASE y \in Bound
      BY <2>3, <2>5, <2>7, <3>1
    <3>2. CASE y \notin Bound
      BY <2>1, <2>5, <3>2, Zenon DEF Bound
    <3> QED
      BY <3>1, <3>2, Zenon
  <2> QED
    BY <1>1, <2>1, <2>5, <2>6, <2>7, UnloadedInv, Zenon
<1>8. ASSUME NEW x \in Ids, NEW o \in BoundObligations, BoundRegister(x, o) PROVE BindingInv'
  <2>1. RegisterObligation(bound_cells[x], o) \in Held(BoundObligations)
    BY <1>3, <1>8, RegisterHeld, Zenon DEF BoundRegister
  <2> QED
    BY <1>3, <1>8, <2>1, OneCellInv, Zenon DEF BoundRegister
<1>9. ASSUME NEW x \in Ids, NEW o \in BoundObligations, BoundResolve(x, o) PROVE BindingInv'
  <2>1. ResolveObligation(bound_cells[x], o) \in Held(BoundObligations)
    BY <1>3, <1>9, ResolveHeld, Zenon DEF BoundResolve
  <2> QED
    BY <1>3, <1>9, <2>1, OneCellInv, Zenon DEF BoundResolve
<1>10. CASE UNCHANGED bound
  BY <1>10, Zenon DEF bound, BindingInv, Bound, UnloadAllIsExhaustive
<1> QED
  BY <1>4, <1>5, <1>6, <1>7, <1>8, <1>9, <1>10, Zenon DEF BindingNext

\* close_cell reports success exactly when the cell it destroyed had nothing
\* pending, whatever the drain deadline and the budgets.
THEOREM BindingReportsAreHonest == BindingSpec => []ReportIsHonest
<1>1. BindingInv => ReportIsHonest
  BY Zenon DEF BindingInv, ReportIsHonest, Reports
<1> QED
  BY <1>1, BindingInitInv, BindingNextInv, PTL DEF BindingSpec

\* unload_all with budget left for one more close has closed every cell, over
\* any number of extensions and sessions.
THEOREM BindingUnloadsAll == BindingSpec => []UnloadAllIsExhaustive
<1>1. BindingInv => UnloadAllIsExhaustive
  BY Zenon DEF BindingInv
<1> QED
  BY <1>1, BindingInitInv, BindingNextInv, PTL DEF BindingSpec
=============================================================================
