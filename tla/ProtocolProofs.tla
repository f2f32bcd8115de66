--------------------------- MODULE ProtocolProofs ---------------------------
(***************************************************************************)
(* Proofs about what owns work for a while: the region tree, the leases    *)
(* and the idempotency keys.  Three sections, one per component, each      *)
(* about that component's own specification and for every value of its     *)
(* constants.                                                              *)
(***************************************************************************)
EXTENDS RegionLifecycle, LeaseTracker, IdempotencyStore, TLAPS
-----------------------------------------------------------------------------
(* The region close protocol. *)

RegionInv == RegionTypeOK /\ EscalationResolvesAll
-----------------------------------------------------------------------------
\* A recursion over the regions in state s visits, beside its root, only those.
LEMMA ReachFacts ==
  ASSUME NEW r \in Regions, NEW s, NEW st
  PROVE  /\ Reach(r, s, st) \subseteq Regions
         /\ \A x \in Reach(r, s, st) : x = r \/ st[x] = s
BY Zenon DEF Reach, Subtree

LEMMA PhaseMoveFacts ==
  ASSUME NEW st, NEW xs, NEW s, NEW r \in Regions
  PROVE  Move(st, xs, s)[r] = IF r \in xs THEN s ELSE st[r]
BY Zenon DEF Move

\* Aborting makes nothing pending, and leaves nothing pending where it aborts.
LEMMA ForceAbortFacts ==
  ASSUME RegionTypeOK, NEW closing, NEW esc, NEW r \in Regions
  PROVE  /\ ForceAbort(closing, esc) \in [Regions -> [Obligations -> Statuses]]
         /\ \A o \in Obligations : ForceAbort(closing, esc)[r][o] = "Pending" =>
              status[r][o] = "Pending" /\ ~(r \in closing /\ esc[r])
BY Zenon DEF RegionTypeOK, ForceAbort, Statuses

\* What finalize and close have in common: regions are closed and nothing else
\* moves, an escalated one has nothing left, and what is pending was.
LEMMA ClosingFacts ==
  ASSUME RegionTypeOK, NEW closing, NEW esc \in [Regions -> BOOLEAN],
         Closing(closing, ForceAbort(closing, esc))
  PROVE  /\ region_state' \in [Regions -> RegionStates]
         /\ status' \in [Regions -> [Obligations -> Statuses]]
         /\ \A x \in Regions : region_state'[x] = IF x \in closing THEN "Closed" ELSE region_state[x]
         /\ \A x \in Regions : Pending(x)' \subseteq Pending(x)
         /\ \A x \in Regions : x \in closing /\ esc[x] => Pending(x)' = {}
<1>1. /\ status' = ForceAbort(closing, esc)
      /\ region_state' = Move(region_state, closing, "Closed")
  BY Zenon DEF Closing
<1>2. \A x \in Regions : region_state'[x] = IF x \in closing THEN "Closed" ELSE region_state[x]
  BY <1>1, PhaseMoveFacts
<1>3. region_state' \in [Regions -> RegionStates]
  BY <1>1, Zenon DEF Move, RegionTypeOK, RegionStates
<1>4. status' \in [Regions -> [Obligations -> Statuses]]
  BY <1>1, Zenon DEF ForceAbort, RegionTypeOK, Statuses
<1>5. \A x \in Regions : \A o \in Obligations : status'[x][o] = "Pending" =>
        status[x][o] = "Pending" /\ ~(x \in closing /\ esc[x])
  BY <1>1, ForceAbortFacts, Zenon
<1>6. QED
  BY <1>2, <1>3, <1>4, <1>5, Zenon DEF Pending

LEMMA CloseFacts ==
  ASSUME RegionTypeOK, NEW r \in Regions, NEW d \in Deadlines, Close(r, d)
  PROVE  \E closing \in SUBSET Regions, esc \in [Regions -> BOOLEAN] :
           /\ Closing(closing, ForceAbort(closing, esc))
           /\ escalated' = esc
           /\ \A x \in Regions \ closing : esc[x] = escalated[x]
           /\ deadline' \in [Regions -> Nat] /\ elapsed' \in [Regions -> Nat]
           /\ ancestors' = ancestors
<1> DEFINE cancelled == Move(region_state, Reach(r, "Running", region_state), "CancelRequested")
           draining == Reach(r, "CancelRequested", cancelled)
           closing == Reach(r, "Draining", Move(cancelled, draining, "Draining"))
           ticks == IF \A x \in {r} \cup Children(r) : Pending(x) = {} THEN 0 ELSE d
           dl == Move(deadline, draining, d)
           el == Move(elapsed, draining, 0)
           esc == [x \in Regions |->
                     \/ escalated[x]
                     \/ x \in closing /\ ticks > 0 /\ el[x] + ticks >= dl[x]]
<1>1. /\ deadline' = dl
      /\ elapsed' = [x \in Regions |-> IF x \in closing THEN el[x] + ticks ELSE el[x]]
      /\ escalated' = esc
      /\ Closing(closing, ForceAbort(closing, esc))
      /\ ancestors' = ancestors
  BY Zenon DEF Close
<1>2. d \in Nat /\ ticks \in Nat
  BY DeadlinesAssumption, Zenon
<1>3. dl \in [Regions -> Nat] /\ el \in [Regions -> Nat]
  BY <1>2, Zenon DEF Move, RegionTypeOK
<1> HIDE DEF ticks, dl, el, closing
<1>4. elapsed' \in [Regions -> Nat]
  BY <1>1, <1>2, <1>3
<1>5. esc \in [Regions -> BOOLEAN]
  BY Zenon DEF RegionTypeOK
<1>6. \A x \in Regions \ closing : esc[x] = escalated[x]
  BY Zenon DEF RegionTypeOK
<1>7. closing \in SUBSET Regions
  BY ReachFacts DEF closing
<1> HIDE DEF esc
<1>8. QED
  BY <1>1, <1>3, <1>4, <1>5, <1>6, <1>7, Zenon

\* An escalated region stays resolved when it stays closed.
LEMMA KeepsResolved ==
  ASSUME EscalationResolvesAll,
         \A x \in Regions : region_state'[x] = "Closed" /\ escalated'[x] =>
           \/ Pending(x)' = {}
           \/ region_state[x] = "Closed" /\ escalated[x] /\ Pending(x)' \subseteq Pending(x)
  PROVE  EscalationResolvesAll'
BY Zenon DEF EscalationResolvesAll

LEMMA WorkInv ==
  ASSUME RegionInv, NEW r \in Regions, NEW o \in Obligations,
         \/ RegisterObligation(r, o)
         \/ ResolveObligation(r, o, "Committed")
         \/ ResolveObligation(r, o, "Aborted")
  PROVE  RegionInv' /\ \A x \in Regions : region_state[x] # "Running" => Pending(x)' \subseteq Pending(x)
<1>1. PICK v \in {"Pending", "Committed", "Aborted"} :
        /\ status' = [status EXCEPT ![r][o] = v]
        /\ v = "Pending" => region_state[r] = "Running"
  BY Zenon DEF RegisterObligation, ResolveObligation
<1>2. UNCHANGED <<region_state, deadline, elapsed, escalated, ancestors, succeeded>>
  BY Zenon DEF RegisterObligation, ResolveObligation
<1>3. status' \in [Regions -> [Obligations -> Statuses]]
  BY <1>1, Zenon DEF RegionInv, RegionTypeOK, Statuses
<1>4. RegionTypeOK'
  BY <1>2, <1>3, Zenon DEF RegionInv, RegionTypeOK
<1>5. \A x \in Regions : \A p \in Obligations :
        status'[x][p] = "Pending" => status[x][p] = "Pending" \/ region_state[x] = "Running"
  BY <1>1, Zenon DEF RegionInv, RegionTypeOK
<1>6. \A x \in Regions : region_state[x] # "Running" => Pending(x)' \subseteq Pending(x)
  BY <1>5, Zenon DEF Pending
<1>7. EscalationResolvesAll'
  BY <1>2, <1>6, KeepsResolved, Zenon DEF RegionInv
<1>8. QED
  BY <1>4, <1>6, <1>7, Zenon DEF RegionInv

\* A phase that leaves obligations alone and closes nothing.
LEMMA PhaseInv ==
  ASSUME RegionInv, RegionTypeOK', status' = status,
         \A x \in Regions : region_state'[x] = "Closed" => region_state[x] = "Closed" /\ escalated'[x] = escalated[x]
  PROVE  RegionInv' /\ \A x \in Regions : Pending(x)' = Pending(x)
<1>1. \A x \in Regions : Pending(x)' = Pending(x)
  BY Zenon DEF Pending
<1>2. EscalationResolvesAll'
  BY <1>1, KeepsResolved, Zenon DEF RegionInv
<1>3. QED
  BY <1>1, <1>2, Zenon DEF RegionInv

\* What every step does: the invariant, the phases and the pending work.
Advances(x) == Rank[region_state[x]] <= Rank[region_state'[x]]
NoNewWork(x) == region_state[x] # "Running" => Pending(x)' \subseteq Pending(x)
Good == RegionInv' /\ \A x \in Regions : Advances(x) /\ NoNewWork(x)

LEMMA RankFacts == /\ Rank["Running"] = 0 /\ Rank["CancelRequested"] = 1
                   /\ Rank["Draining"] = 2 /\ Rank["Closed"] = 3
                   /\ \A s \in RegionStates : Rank[s] \in 0..3
BY DEF Rank, RegionStates

LEMMA AddChildGood ==
  ASSUME RegionInv, NEW p \in Regions, NEW c \in Regions, AddChild(p, c)
  PROVE  Good
<1>1. UNCHANGED <<region_state, status, deadline, elapsed, escalated, succeeded>>
  BY Zenon DEF AddChild
<1>2. ancestors' \in [Regions -> SUBSET Regions]
  BY Zenon DEF AddChild, RegionInv, RegionTypeOK
<1>3. RegionTypeOK'
  BY <1>1, <1>2, Zenon DEF RegionInv, RegionTypeOK
<1>4. RegionInv' /\ \A x \in Regions : Pending(x)' = Pending(x)
  BY <1>1, <1>3, PhaseInv, Zenon
<1>5. ASSUME NEW x \in Regions PROVE Advances(x) /\ NoNewWork(x)
  <2>1. region_state'[x] = region_state[x] /\ region_state[x] \in RegionStates
    BY <1>1, Zenon DEF RegionInv, RegionTypeOK
  <2>2. PICK k \in 0..3 : k = Rank[region_state[x]]
    BY <2>1, RankFacts, Zenon
  <2>3. k <= k
    OBVIOUS
  <2> QED
    BY <1>4, <2>1, <2>2, <2>3, Zenon DEF Advances, NoNewWork
<1>6. QED
  BY <1>4, <1>5, Zenon DEF Good

LEMMA CancelGood ==
  ASSUME RegionInv, NEW r \in Regions, Cancel(r)
  PROVE  Good
<1> DEFINE xs == Reach(r, "Running", region_state)
<1>1. /\ region_state[r] = "Running"
      /\ region_state' = Move(region_state, xs, "CancelRequested")
      /\ UNCHANGED <<status, deadline, elapsed, escalated, ancestors, succeeded>>
  BY Zenon DEF Cancel
<1>2. \A x \in Regions : region_state'[x] = IF x \in xs THEN "CancelRequested" ELSE region_state[x]
  BY <1>1, PhaseMoveFacts
<1>3. \A x \in xs : region_state[x] = "Running"
  BY <1>1, ReachFacts, Zenon
<1>4. RegionTypeOK'
  BY <1>1, Zenon DEF RegionInv, RegionTypeOK, Move, RegionStates
<1>5. RegionInv' /\ \A x \in Regions : Pending(x)' = Pending(x)
  BY <1>1, <1>2, <1>4, PhaseInv, Zenon
<1>6. \A x \in Regions : Advances(x)
  BY <1>2, <1>3, RankFacts DEF Advances, RegionInv, RegionTypeOK
<1>7. QED
  BY <1>5, <1>6, Zenon DEF Good, NoNewWork

LEMMA DrainGood ==
  ASSUME RegionInv, NEW r \in Regions, NEW d \in Deadlines, Drain(r, d)
  PROVE  Good
<1> DEFINE xs == Reach(r, "CancelRequested", region_state)
<1>1. /\ region_state[r] = "CancelRequested"
      /\ region_state' = Move(region_state, xs, "Draining")
      /\ deadline' = Move(deadline, xs, d)
      /\ elapsed' = Move(elapsed, xs, 0)
      /\ UNCHANGED <<status, escalated, ancestors, succeeded>>
  BY Zenon DEF Drain
<1>2. \A x \in Regions : region_state'[x] = IF x \in xs THEN "Draining" ELSE region_state[x]
  BY <1>1, PhaseMoveFacts
<1>3. \A x \in xs : region_state[x] = "CancelRequested"
  BY <1>1, ReachFacts, Zenon
<1>4. region_state' \in [Regions -> RegionStates]
  BY <1>1, Zenon DEF RegionInv, RegionTypeOK, Move, RegionStates
<1>5. deadline' \in [Regions -> Nat] /\ elapsed' \in [Regions -> Nat]
  BY <1>1, DeadlinesAssumption, Zenon DEF RegionInv, RegionTypeOK, Move
<1>6. RegionTypeOK'
  BY <1>1, <1>4, <1>5, Zenon DEF RegionInv, RegionTypeOK
<1>7. RegionInv' /\ \A x \in Regions : Pending(x)' = Pending(x)
  BY <1>1, <1>2, <1>6, PhaseInv, Zenon
<1>8. \A x \in Regions : Advances(x)
  BY <1>2, <1>3, RankFacts DEF Advances, RegionInv, RegionTypeOK
<1>9. QED
  BY <1>7, <1>8, Zenon DEF Good, NoNewWork

LEMMA DrainTickGood ==
  ASSUME RegionInv, NEW r \in Regions, DrainTick(r)
  PROVE  Good
<1> DEFINE xs == Reach(r, "Draining", region_state)
<1>1. /\ region_state[r] = "Draining"
      /\ elapsed' = [x \in Regions |-> IF x \in xs THEN elapsed[x] + 1 ELSE elapsed[x]]
      /\ escalated' = [x \in Regions |->
                         \/ escalated[x]
                         \/ x \in xs /\ elapsed[x] + 1 >= deadline[x]]
      /\ UNCHANGED <<region_state, status, deadline, ancestors, succeeded>>
  BY Zenon DEF DrainTick
<1>2. \A x \in xs : region_state[x] = "Draining"
  BY <1>1, ReachFacts, Zenon
<1> HIDE DEF xs
<1>3. elapsed' \in [Regions -> Nat]
  BY <1>1 DEF RegionInv, RegionTypeOK
<1>4. escalated' \in [Regions -> BOOLEAN]
  BY <1>1, Zenon
<1>5. RegionTypeOK'
  BY <1>1, <1>3, <1>4, Zenon DEF RegionInv, RegionTypeOK
<1>6. \A x \in Regions : region_state'[x] = "Closed" => region_state[x] = "Closed" /\ escalated'[x] = escalated[x]
  BY <1>1, <1>2, Zenon DEF RegionInv, RegionTypeOK
<1>7. RegionInv' /\ \A x \in Regions : Pending(x)' = Pending(x)
  BY <1>1, <1>5, <1>6, PhaseInv, Zenon
<1>8. \A x \in Regions : region_state'[x] = region_state[x] /\ region_state[x] \in RegionStates
  BY <1>1, Zenon DEF RegionInv, RegionTypeOK
<1>9. \A x \in Regions : Advances(x)
  BY <1>8, RankFacts DEF Advances
<1>10. QED
  BY <1>7, <1>9, Zenon DEF Good, NoNewWork

\* What success of x means: SuccessIsHonest for one region.
HonestAt(x) ==
  /\ \A y \in Subtree(x) : y = x \/ region_state'[y] # region_state[y] => Pending(y)' = {}
  /\ \A c \in Children(x) : region_state'[c] = "Closed"

\* Closing regions is good, and the success it reports is honest.
LEMMA ClosingGood ==
  ASSUME RegionInv, NEW closing \in SUBSET Regions, NEW esc \in [Regions -> BOOLEAN],
         Closing(closing, ForceAbort(closing, esc)),
         escalated' = esc,
         \A x \in Regions \ closing : esc[x] = escalated[x],
         deadline' \in [Regions -> Nat], elapsed' \in [Regions -> Nat],
         ancestors' = ancestors
  PROVE  /\ Good
         /\ \A x \in succeeded' \ succeeded : HonestAt(x)
<1> DEFINE st == ForceAbort(closing, esc)
<1>1. /\ region_state' \in [Regions -> RegionStates]
      /\ status' \in [Regions -> [Obligations -> Statuses]]
      /\ \A x \in Regions : region_state'[x] = IF x \in closing THEN "Closed" ELSE region_state[x]
      /\ \A x \in Regions : Pending(x)' \subseteq Pending(x)
      /\ \A x \in Regions : x \in closing /\ esc[x] => Pending(x)' = {}
  BY ClosingFacts, Zenon DEF RegionInv
<1>2. /\ status' = st
      /\ succeeded' = succeeded \cup {x \in closing : Succeeds(x, closing, st)}
  BY Zenon DEF Closing
<1>3. RegionTypeOK'
  BY <1>1, <1>2, Zenon DEF RegionInv, RegionTypeOK
<1>4. EscalationResolvesAll'
  BY <1>1, KeepsResolved, Zenon DEF RegionInv
<1>5. ASSUME NEW x \in Regions PROVE Advances(x)
  <2>1. region_state[x] \in RegionStates
    BY Zenon DEF RegionInv, RegionTypeOK
  <2>2. region_state'[x] = "Closed" \/ region_state'[x] = region_state[x]
    BY <1>1, Zenon
  <2>3. QED
    BY <2>1, <2>2, RankFacts DEF Advances
<1>6. Good
  BY <1>1, <1>3, <1>4, <1>5, Zenon DEF Good, NoNewWork, RegionInv
<1>7. ASSUME NEW x \in succeeded' \ succeeded
      PROVE  HonestAt(x)
  <2>1. x \in closing /\ x \in Regions /\ Succeeds(x, closing, st)
    BY <1>2, <1>7, Zenon
  <2>2. x \in closing \cap Subtree(x)
    BY <2>1, Zenon DEF Subtree
  <2>3. \A z \in Children(x) \ closing : region_state[z] = "Closed"
    BY <2>1, <2>2, Zenon DEF Succeeds
  <2>4. ASSUME NEW y \in Subtree(x), y = x \/ region_state'[y] # region_state[y]
        PROVE  Pending(y)' = {}
    <3>1. y \in Regions
      BY Zenon DEF Subtree
    <3>2. y \in closing
      BY <1>1, <2>1, <2>4, <3>1, Zenon
    <3>3. \A o \in Obligations : st[y][o] # "Pending"
      BY <2>1, <3>2, Zenon DEF Succeeds
    <3>4. QED
      BY <1>2, <3>3, Zenon DEF Pending
  <2>5. \A c \in Children(x) : c \in Regions
    BY Zenon DEF Children
  <2>6. QED
    BY <1>1, <2>3, <2>4, <2>5, Zenon DEF HonestAt
<1>8. QED
  BY <1>6, <1>7, Zenon

\* Success is reported only by finalize and close.
Honest == \A x \in succeeded' \ succeeded : HonestAt(x)

LEMMA StepGood ==
  ASSUME RegionInv, [RegionNext]_region_vars
  PROVE  Good /\ Honest
<1>1. ASSUME NEW p \in Regions, NEW c \in Regions, AddChild(p, c)
      PROVE  Good /\ Honest
  BY <1>1, AddChildGood, Zenon DEF Honest, AddChild
<1>2. ASSUME NEW r \in Regions, NEW o \in Obligations,
             \/ RegisterObligation(r, o)
             \/ ResolveObligation(r, o, "Committed")
             \/ ResolveObligation(r, o, "Aborted")
      PROVE  Good /\ Honest
  <2>1. UNCHANGED <<region_state, succeeded>>
    BY <1>2, Zenon DEF RegisterObligation, ResolveObligation
  <2>2. RegionInv' /\ \A x \in Regions : NoNewWork(x)
    BY <1>2, WorkInv, Zenon DEF NoNewWork
  <2>3. \A x \in Regions : Advances(x)
    BY <2>1, RankFacts DEF Advances, RegionInv, RegionTypeOK
  <2>4. QED
    BY <2>1, <2>2, <2>3, Zenon DEF Good, Honest
<1>3. ASSUME NEW r \in Regions, Cancel(r)
      PROVE  Good /\ Honest
  BY <1>3, CancelGood, Zenon DEF Honest, Cancel
<1>4. ASSUME NEW r \in Regions, DrainTick(r)
      PROVE  Good /\ Honest
  BY <1>4, DrainTickGood, Zenon DEF Honest, DrainTick
<1>5. ASSUME NEW r \in Regions, NEW d \in Deadlines, Drain(r, d)
      PROVE  Good /\ Honest
  BY <1>5, DrainGood, Zenon DEF Honest, Drain
<1>6. ASSUME NEW r \in Regions, Finalize(r)
      PROVE  Good /\ Honest
  <2> DEFINE closing == Reach(r, "Draining", region_state)
  <2>1. /\ Closing(closing, ForceAbort(closing, escalated))
        /\ UNCHANGED <<deadline, elapsed, escalated, ancestors>>
    BY <1>6, Zenon DEF Finalize
  <2>2. closing \in SUBSET Regions
    BY ReachFacts, Zenon
  <2>3. escalated \in [Regions -> BOOLEAN] /\ deadline' \in [Regions -> Nat] /\ elapsed' \in [Regions -> Nat]
    BY <2>1, Zenon DEF RegionInv, RegionTypeOK
  <2> HIDE DEF closing
  <2>4. QED
    BY <2>1, <2>2, <2>3, ClosingGood, Zenon DEF Honest
<1>7. ASSUME NEW r \in Regions, NEW d \in Deadlines, Close(r, d)
      PROVE  Good /\ Honest
  <2>1. PICK closing \in SUBSET Regions, esc \in [Regions -> BOOLEAN] :
          /\ Closing(closing, ForceAbort(closing, esc))
          /\ escalated' = esc
          /\ \A x \in Regions \ closing : esc[x] = escalated[x]
          /\ deadline' \in [Regions -> Nat] /\ elapsed' \in [Regions -> Nat]
          /\ ancestors' = ancestors
    BY <1>7, CloseFacts, Zenon DEF RegionInv
  <2>2. QED
    BY <2>1, ClosingGood, Zenon DEF Honest
<1>8. CASE UNCHANGED region_vars
  <2>1. UNCHANGED <<region_state, status, deadline, elapsed, escalated, ancestors, succeeded>>
    BY <1>8, Zenon DEF region_vars
  <2>2. RegionTypeOK'
    BY <2>1, Zenon DEF RegionInv, RegionTypeOK
  <2>3. RegionInv' /\ \A x \in Regions : Pending(x)' = Pending(x)
    BY <2>1, <2>2, PhaseInv, Zenon
  <2>4. QED
    BY <2>1, <2>3, RankFacts DEF Good, Advances, NoNewWork, Honest, RegionInv,
       RegionTypeOK
<1>9. QED
  BY <1>1, <1>2, <1>3, <1>4, <1>5, <1>6, <1>7, <1>8, Zenon DEF RegionNext

\* The invariant is inductive: it survives every call on every tree.
THEOREM RegionInvariant == RegionSpec => []RegionInv
<1>1. RegionInit => RegionInv
  BY DEF RegionInit, RegionInv, RegionTypeOK, RegionStates, Statuses,
     EscalationResolvesAll
<1>2. RegionInv /\ [RegionNext]_region_vars => RegionInv'
  BY StepGood, Zenon DEF Good
<1>3. QED
  BY <1>1, <1>2, PTL DEF RegionSpec

\* Every field of Region keeps its type.
THEOREM RegionTypeCorrect == RegionSpec => []RegionTypeOK
<1>1. RegionInv => RegionTypeOK
  BY Zenon DEF RegionInv
<1>2. QED
  BY <1>1, RegionInvariant, PTL

\* A region that is closed after its drain timed out has nothing pending.
THEOREM RegionEscalationResolves == RegionSpec => []EscalationResolvesAll
<1>1. RegionInv => EscalationResolvesAll
  BY Zenon DEF RegionInv
<1>2. QED
  BY <1>1, RegionInvariant, PTL

\* cancel, drain, finalize and close never move a region back to an earlier
\* phase, in whatever state children were attached.
THEOREM RegionPhasesOnlyAdvance == RegionSpec => PhasesOnlyAdvance
<1>1. RegionInv /\ [RegionNext]_region_vars => [\A r \in Regions : Rank[region_state[r]] <= Rank[region_state'[r]]]_region_vars
  BY StepGood, Zenon DEF Good, Advances
<1>2. QED
  BY <1>1, RegionInvariant, PTL DEF RegionSpec, PhasesOnlyAdvance

\* After cancel nothing becomes pending: register_obligation refuses, and no
\* phase of a parent or child brings work back.
THEOREM RegionNoNewWork == RegionSpec => NoNewWorkAfterCancel
<1>1. RegionInv /\ [RegionNext]_region_vars =>
        [\A r \in Regions : region_state[r] # "Running" => Pending(r)' \subseteq Pending(r)]_region_vars
  BY StepGood, Zenon DEF Good, NoNewWork
<1>2. QED
  BY <1>1, RegionInvariant, PTL DEF RegionSpec, NoNewWorkAfterCancel

\* finalize reports success only for a region whose children are all closed,
\* when nothing is pending in any region that the call closed at or below it.
THEOREM RegionSuccessIsHonest == RegionSpec => SuccessIsHonest
<1>1. RegionInv /\ [RegionNext]_region_vars =>
        [\A r \in succeeded' \ succeeded :
           /\ \A x \in Subtree(r) : x = r \/ region_state'[x] # region_state[x] => Pending(x)' = {}
           /\ \A c \in Children(r) : region_state'[c] = "Closed"]_region_vars
  BY StepGood, Zenon DEF Honest, HonestAt
<1>2. QED
  BY <1>1, RegionInvariant, PTL DEF RegionSpec, SuccessIsHonest
-----------------------------------------------------------------------------
(***************************************************************************)
(* The leases, for any number of them, any times to live and any bounds on *)
(* time and epochs.                                                        *)
(***************************************************************************)

\* An id not yet given out has no lease, so that granting it ends nothing.
FreshIds == \A i \in Ids : i >= next_id => leases[i].status = "none"

\* The entries of the index for an id.
Slots(i) == {k \in index : k[2] = i}

\* A lease that was granted has a time to live, so that renewing it moves it on.
TtlPositive == \A i \in Ids : leases[i].status # "none" => leases[i].ttl > 0

LeaseInv == LeaseTypeOK /\ FreshIds /\ TtlPositive /\ IndexTracksActive /\ ActiveIsCurrent
Leases == [status : {"none", "Active", "Expired", "Released"},
           ttl : Ttls \cup {0}, expires_at : Nat, epoch : Epochs]

LEMMA IdsFacts == /\ MaxLeases \in Nat /\ Ids \subseteq Nat
                  /\ Ttls \subseteq Nat /\ \A t \in Ttls : t > 0
                  /\ 0 \in Epochs
BY LeaseBounds, MaxEpochNat DEF Ids, Epochs

\* The invariant, for one active lease.
LEMMA ForOne ==
  ASSUME LeaseInv, NEW i \in Ids, leases[i].status = "Active"
  PROVE  /\ Slots(i) = {<<leases[i].expires_at, i>>}
         /\ leases[i].epoch = current_epoch
         /\ leases[i].expires_at > scanned
         /\ leases[i].expires_at \in Nat
BY Zenon DEF LeaseInv, IndexTracksActive, ActiveIsCurrent, Active, LeaseTypeOK, Slots

\* And back: it is enough to look at each lease that is active after the step.
LEMMA FromEach ==
  ASSUME LeaseTypeOK', FreshIds', TtlPositive',
         \A i \in Ids : leases'[i].status = "Active" =>
           /\ Slots(i)' = {<<leases'[i].expires_at, i>>}
           /\ leases'[i].epoch = current_epoch'
           /\ leases'[i].expires_at > scanned'
  PROVE  LeaseInv'
BY Zenon DEF LeaseInv, IndexTracksActive, ActiveIsCurrent, Active, Slots

LEMMA LeaseTickInv ==
  ASSUME LeaseInv, LeaseTick
  PROVE  LeaseInv'
<1>1. /\ now' = now + 1
      /\ UNCHANGED <<current_epoch, next_id, leases, index, escalations, scanned>>
  BY Zenon DEF LeaseTick, ClockTick
<1>2. LeaseTypeOK'
  BY <1>1 DEF LeaseInv, LeaseTypeOK
<1>3. FreshIds' /\ TtlPositive'
  BY <1>1, Zenon DEF LeaseInv, FreshIds, TtlPositive
<1>4. QED
  BY <1>1, <1>2, <1>3, ForOne, FromEach, Zenon DEF Slots

LEMMA GrantInv ==
  ASSUME LeaseInv, NEW ttl \in Ttls, Grant(ttl)
  PROVE  LeaseInv'
<1> DEFINE new == [status |-> "Active", ttl |-> ttl, expires_at |-> now + ttl,
                   epoch |-> current_epoch]
<1>1. PICK n \in Ids : n = next_id
  BY LeaseBounds DEF Grant, LeaseInv, LeaseTypeOK, Ids
<1>2. /\ next_id' = n + 1
      /\ leases' = [leases EXCEPT ![n] = new]
      /\ index' = index \cup {<<now + ttl, n>>}
      /\ UNCHANGED <<now, current_epoch, escalations, scanned>>
  BY <1>1, Zenon DEF Grant
<1>3. n \in Nat /\ n >= 1 /\ n <= MaxLeases /\ MaxLeases \in Nat /\ now \in Nat /\ ttl \in Nat /\ ttl > 0
      /\ scanned \in Nat /\ scanned <= now
  BY LeaseBounds DEF Ids, LeaseInv, LeaseTypeOK
<1>4. new \in Leases /\ now + ttl \in Nat
  BY <1>3 DEF Leases, LeaseInv, LeaseTypeOK
<1>5. index \subseteq Nat \X (1..n-1)
  BY <1>1, Zenon DEF LeaseInv, LeaseTypeOK
<1>6. LeaseTypeOK'
  <2>1. leases' \in [Ids -> Leases]
    BY <1>2, <1>4, Zenon DEF LeaseInv, LeaseTypeOK, Leases
  <2>2. index' \subseteq Nat \X (1..n)
    <3>1. 1..n-1 \subseteq 1..n /\ n \in 1..n
      BY <1>3
    <3>2. QED
      BY <1>2, <1>4, <1>5, <3>1
  <2>3. next_id' \in 1..MaxLeases+1 /\ next_id' - 1 = n
    BY <1>2, <1>3
  <2>4. index' \subseteq Nat \X (1..next_id'-1)
    BY <2>2, <2>3, Zenon
  <2>5. QED
    BY <1>2, <2>1, <2>3, <2>4, Zenon DEF LeaseInv, LeaseTypeOK, Leases
<1>7. FreshIds'
  <2> SUFFICES ASSUME NEW i \in Ids, i >= n + 1
               PROVE  leases'[i].status = "none"
    BY <1>2, Zenon DEF FreshIds
  <2>1. i # n /\ i >= n
    BY <1>3, IdsFacts
  <2>2. QED
    BY <1>1, <1>2, <2>1, Zenon DEF LeaseInv, FreshIds, LeaseTypeOK
<1>8. ASSUME NEW i \in Ids, leases'[i].status = "Active"
      PROVE  /\ Slots(i)' = {<<leases'[i].expires_at, i>>}
             /\ leases'[i].epoch = current_epoch'
             /\ leases'[i].expires_at > scanned'
  <2>1. CASE i = n
    <3>1. leases'[i] = new
      BY <1>2, <2>1, Zenon DEF LeaseInv, LeaseTypeOK
    <3>2. \A k \in index : k[2] # n
      BY <1>3, <1>5
    <3>3. Slots(i)' = {<<now + ttl, n>>}
      BY <1>2, <2>1, <3>2 DEF Slots
    <3>4. QED
      BY <1>2, <1>3, <2>1, <3>1, <3>3
  <2>2. CASE i # n
    <3>1. leases'[i] = leases[i]
      BY <1>2, <2>2, Zenon DEF LeaseInv, LeaseTypeOK
    <3>2. Slots(i)' = Slots(i)
      BY <1>2, <2>2 DEF Slots
    <3>3. QED
      BY <1>2, <1>8, <3>1, <3>2, ForOne, Zenon
  <2>3. QED
    BY <2>1, <2>2, Zenon
<1>9. TtlPositive'
  BY <1>2, <1>3, Zenon DEF LeaseInv, LeaseTypeOK, TtlPositive
<1>10. QED
  BY <1>6, <1>7, <1>8, <1>9, FromEach, Zenon

LEMMA RenewLiveInv ==
  ASSUME LeaseInv, NEW i \in Ids, RenewLive(i)
  PROVE  LeaseInv'
<1>1. PICK e \in Nat, old \in Nat : e = now + leases[i].ttl /\ e > now /\ e > scanned /\ old = leases[i].expires_at
  <2>1. now < leases[i].expires_at /\ leases[i].status = "Active"
    BY Zenon DEF RenewLive
  <2>2. now \in Nat /\ scanned \in Nat /\ scanned <= now /\ leases[i].expires_at \in Nat
    BY DEF LeaseInv, LeaseTypeOK
  <2>3. leases[i].ttl \in Nat /\ leases[i].ttl > 0
    <3>1. leases[i].ttl \in Ttls \cup {0}
      BY Zenon DEF LeaseInv, LeaseTypeOK
    <3>2. Ttls \cup {0} \subseteq Nat
      BY IdsFacts
    <3>3. leases[i].ttl > 0
      BY <2>1, Zenon DEF LeaseInv, TtlPositive
    <3>4. QED
      BY <3>1, <3>2, <3>3, Zenon
  <2>4. QED
    BY <2>2, <2>3
<1>2. /\ leases[i].status = "Active"
      /\ leases' = [leases EXCEPT ![i].expires_at = e]
      /\ index' = (index \ {<<old, i>>}) \cup {<<e, i>>}
      /\ UNCHANGED <<now, current_epoch, next_id, escalations, scanned>>
  BY <1>1, Zenon DEF RenewLive
<1>3. i \in 1..next_id-1
  <2>1. ~(i >= next_id)
    BY <1>2, Zenon DEF LeaseInv, FreshIds
  <2>2. i \in Nat /\ i >= 1 /\ next_id \in Nat
    BY IdsFacts DEF LeaseInv, LeaseTypeOK, Ids
  <2> QED
    BY <2>1, <2>2
<1>4. /\ leases'[i] = [leases[i] EXCEPT !.expires_at = e]
      /\ \A j \in Ids \ {i} : leases'[j] = leases[j]
  BY <1>2, Zenon DEF LeaseInv, LeaseTypeOK
<1>5. LeaseTypeOK' /\ TtlPositive'
  <2>1. leases'[i] \in Leases
    BY <1>1, <1>4 DEF LeaseInv, LeaseTypeOK, Leases
  <2>2. leases' \in [Ids -> Leases]
    BY <1>2, <1>4, <2>1, Zenon DEF LeaseInv, LeaseTypeOK, Leases
  <2>3. index' \subseteq Nat \X (1..next_id-1)
    BY <1>1, <1>2, <1>3 DEF LeaseInv, LeaseTypeOK
  <2>4. LeaseTypeOK'
    BY <1>2, <2>2, <2>3, Zenon DEF LeaseInv, LeaseTypeOK, Leases
  <2>5. QED
    BY <1>4, <2>4 DEF LeaseInv, TtlPositive, LeaseTypeOK
<1>6. FreshIds'
  BY <1>2, <1>4, Zenon DEF LeaseInv, FreshIds, LeaseTypeOK
<1>7. ASSUME NEW j \in Ids, leases'[j].status = "Active"
      PROVE  /\ Slots(j)' = {<<leases'[j].expires_at, j>>}
             /\ leases'[j].epoch = current_epoch'
             /\ leases'[j].expires_at > scanned'
  <2>1. CASE j = i
    <3>1. leases'[i].expires_at = e /\ leases'[i].epoch = leases[i].epoch
      BY <1>4 DEF LeaseInv, LeaseTypeOK
    <3>2. Slots(i) = {<<old, i>>} /\ leases[i].epoch = current_epoch
      BY <1>1, <1>2, ForOne, Zenon
    <3>3. Slots(i)' = {<<e, i>>}
      BY <1>2, <3>2 DEF Slots
    <3>4. QED
      BY <1>1, <1>2, <2>1, <3>1, <3>2, <3>3, Zenon
  <2>2. CASE j # i
    <3>1. Slots(j)' = Slots(j)
      BY <1>2, <2>2 DEF Slots
    <3>2. QED
      BY <1>2, <1>4, <1>7, <2>2, <3>1, ForOne, Zenon
  <2>3. QED
    BY <2>1, <2>2, Zenon
<1>8. QED
  BY <1>5, <1>6, <1>7, FromEach, Zenon

\* A step after which fewer leases are active, each with its entry still there.
LEMMA ShrinkInv ==
  ASSUME LeaseInv, UNCHANGED <<now, next_id>>,
         scanned' \in 0..now, current_epoch' \in Epochs,
         escalations' \in [Ids -> Nat],
         leases' \in [Ids -> Leases],
         \A i \in Ids : leases'[i].ttl = leases[i].ttl,
         \A i \in Ids : leases[i].status = "none" <=> leases'[i].status = "none",
         \A i \in Ids : leases'[i].status = "Active" => leases'[i] = leases[i],
         index' \subseteq Nat \X (1..next_id-1),
         \A i \in Ids : leases'[i].status = "Active" =>
           /\ Slots(i)' = Slots(i)
           /\ leases[i].epoch = current_epoch'
           /\ leases[i].expires_at > scanned'
  PROVE  LeaseInv'
<1>1. LeaseTypeOK'
  BY Zenon DEF LeaseInv, LeaseTypeOK, Leases
<1>2. FreshIds' /\ TtlPositive'
  BY Zenon DEF LeaseInv, FreshIds, TtlPositive
<1>3. ASSUME NEW i \in Ids, leases'[i].status = "Active"
      PROVE  /\ Slots(i)' = {<<leases'[i].expires_at, i>>}
             /\ leases'[i].epoch = current_epoch'
             /\ leases'[i].expires_at > scanned'
  <2>1. leases'[i] = leases[i]
    BY <1>3, Zenon
  <2>2. Slots(i) = {<<leases[i].expires_at, i>>}
    BY <1>3, <2>1, ForOne, Zenon
  <2>3. QED
    BY <1>3, <2>1, <2>2, Zenon
<1>4. QED
  BY <1>1, <1>2, <1>3, FromEach, Zenon

LEMMA EndOneInv ==
  ASSUME LeaseInv, NEW i \in Ids, NEW st \in {"Expired", "Released"},
         leases[i].status # "none",
         leases' = [leases EXCEPT ![i].status = st],
         index' = index \/ index' = index \ {<<leases[i].expires_at, i>>},
         UNCHANGED <<now, current_epoch, next_id, escalations, scanned>>
  PROVE  LeaseInv'
<1>1. /\ leases'[i] = [leases[i] EXCEPT !.status = st]
      /\ \A j \in Ids \ {i} : leases'[j] = leases[j]
  BY Zenon DEF LeaseInv, LeaseTypeOK
<1>2. leases'[i] \in Leases /\ leases'[i].status = st /\ leases'[i].ttl = leases[i].ttl
  BY <1>1 DEF LeaseInv, LeaseTypeOK, Leases
<1>3. leases' \in [Ids -> Leases]
  BY <1>1, <1>2, Zenon DEF LeaseInv, LeaseTypeOK, Leases
<1>4. index' \subseteq Nat \X (1..next_id-1)
  BY Zenon DEF LeaseInv, LeaseTypeOK
<1>5. scanned' \in 0..now /\ current_epoch' \in Epochs /\ escalations' \in [Ids -> Nat]
  BY Zenon DEF LeaseInv, LeaseTypeOK
<1>6. \A j \in Ids : leases'[j].status = "Active" => j # i /\ Slots(j)' = Slots(j)
  BY <1>2 DEF Slots
<1>7. QED
  BY <1>1, <1>2, <1>3, <1>4, <1>5, <1>6, ForOne, ShrinkInv, Zenon

\* The leases after an escalation.
LEMMA EscalateFacts ==
  ASSUME LeaseInv, NEW ids \in SUBSET Active, Escalate(ids)
  PROVE  /\ escalations' \in [Ids -> Nat]
         /\ leases' \in [Ids -> Leases]
         /\ \A i \in Ids : i \in ids => leases'[i].status = "Expired" /\ leases[i].status = "Active"
         /\ \A i \in Ids : i \notin ids => leases'[i] = leases[i] /\ escalations'[i] = escalations[i]
         /\ \A i \in Ids : leases'[i].ttl = leases[i].ttl
<1>1. /\ leases' = [i \in Ids |-> IF i \in ids THEN [leases[i] EXCEPT !.status = "Expired"]
                                              ELSE leases[i]]
      /\ escalations' = [i \in Ids |-> IF i \in ids THEN escalations[i] + 1 ELSE escalations[i]]
  BY Zenon DEF Escalate
<1>2. escalations' \in [Ids -> Nat]
  BY <1>1 DEF LeaseInv, LeaseTypeOK
<1>3. \A i \in Ids : /\ [leases[i] EXCEPT !.status = "Expired"] \in Leases
                     /\ leases[i] \in Leases
                     /\ [leases[i] EXCEPT !.status = "Expired"].status = "Expired"
                     /\ [leases[i] EXCEPT !.status = "Expired"].ttl = leases[i].ttl
  BY Zenon DEF LeaseInv, LeaseTypeOK, Leases
<1>4. leases' \in [Ids -> Leases]
  BY <1>1, <1>3, Zenon
<1>5. QED
  BY <1>1, <1>2, <1>3, <1>4, Zenon DEF Active

LEMMA ScanInv ==
  ASSUME LeaseInv, ScanExpired
  PROVE  LeaseInv'
<1> DEFINE due == {i \in Ids : /\ leases[i].status = "Active"
                              /\ \E k \in index : k[2] = i /\ k[1] <= now}
<1>1. /\ Escalate(due)
      /\ index' = {k \in index : k[1] > now}
      /\ scanned' = now
      /\ UNCHANGED <<now, current_epoch, next_id>>
  BY Zenon DEF ScanExpired
<1>2. due \in SUBSET Active
  BY Zenon DEF Active
<1>3. /\ escalations' \in [Ids -> Nat]
      /\ leases' \in [Ids -> Leases]
      /\ \A i \in Ids : i \in due => leases'[i].status = "Expired" /\ leases[i].status = "Active"
      /\ \A i \in Ids : i \notin due => leases'[i] = leases[i]
      /\ \A i \in Ids : leases'[i].ttl = leases[i].ttl
  BY <1>1, <1>2, EscalateFacts, Zenon
<1>4. index' \subseteq Nat \X (1..next_id-1) /\ scanned' \in 0..now /\ current_epoch' \in Epochs
  BY <1>1 DEF LeaseInv, LeaseTypeOK
<1>5. ASSUME NEW i \in Ids, leases'[i].status = "Active"
      PROVE  /\ Slots(i)' = Slots(i)
             /\ leases[i].epoch = current_epoch'
             /\ leases[i].expires_at > scanned'
  <2>1. i \notin due /\ leases[i].status = "Active"
    BY <1>3, <1>5, Zenon
  <2>2. PICK e \in Nat : e = leases[i].expires_at /\ Slots(i) = {<<e, i>>} /\ leases[i].epoch = current_epoch
    BY <2>1, ForOne, Zenon
  <2>3. <<e, i>> \in index
    BY <2>2, Zenon DEF Slots
  <2>4. ~(e <= now) /\ now \in Nat
    BY <2>1, <2>3, Zenon DEF LeaseInv, LeaseTypeOK
  <2>5. e > now
    BY <2>4
  <2>6. Slots(i)' = Slots(i)
    BY <1>1, <2>2, <2>5 DEF Slots
  <2>7. QED
    BY <1>1, <2>2, <2>5, <2>6, Zenon
<1>6. QED
  BY <1>1, <1>3, <1>4, <1>5, ShrinkInv, Zenon

LEMMA AdvanceInv ==
  ASSUME LeaseInv, NEW e \in Epochs, LeaseAdvanceEpoch(e)
  PROVE  LeaseInv'
<1> DEFINE stale == {i \in Ids : leases[i].status = "Active" /\ leases[i].epoch # e}
           kept == {j \in Ids : leases[j].status = "Active"} \ stale
<1>1. /\ Escalate(stale)
      /\ index' = {<<leases[i].expires_at, i>> : i \in kept}
      /\ current_epoch' = e
      /\ UNCHANGED <<now, next_id, scanned>>
  BY Zenon DEF LeaseAdvanceEpoch
<1>2. stale \in SUBSET Active
  BY Zenon DEF Active
<1>3. /\ escalations' \in [Ids -> Nat]
      /\ leases' \in [Ids -> Leases]
      /\ \A i \in Ids : i \in stale => leases'[i].status = "Expired" /\ leases[i].status = "Active"
      /\ \A i \in Ids : i \notin stale => leases'[i] = leases[i]
      /\ \A i \in Ids : leases'[i].ttl = leases[i].ttl
  BY <1>1, <1>2, EscalateFacts, Zenon
<1>4. index' \subseteq Nat \X (1..next_id-1)
  <2>1. ASSUME NEW i \in kept
        PROVE  leases[i].expires_at \in Nat /\ i \in 1..next_id-1
    <3>1. ~(i >= next_id)
      BY Zenon DEF LeaseInv, FreshIds
    <3>2. QED
      BY <3>1, LeaseBounds DEF LeaseInv, LeaseTypeOK, Ids
  <2>2. QED
    BY <1>1, <2>1
<1>5. scanned' \in 0..now
  BY <1>1, Zenon DEF LeaseInv, LeaseTypeOK
<1>6. ASSUME NEW i \in Ids, leases'[i].status = "Active"
      PROVE  /\ Slots(i)' = Slots(i)
             /\ leases[i].epoch = current_epoch'
             /\ leases[i].expires_at > scanned'
  <2>1. i \in kept /\ leases[i].status = "Active" /\ leases[i].epoch = e
    BY <1>3, <1>6, Zenon
  <2>2. Slots(i) = {<<leases[i].expires_at, i>>} /\ leases[i].expires_at > scanned
    BY <2>1, ForOne, Zenon
  <2>3. Slots(i)' = {<<leases[i].expires_at, i>>}
    BY <1>1, <2>1 DEF Slots
  <2>4. QED
    BY <1>1, <2>1, <2>2, <2>3, Zenon
<1>7. QED
  BY <1>1, <1>3, <1>4, <1>5, <1>6, ShrinkInv, Zenon

LEMMA LeaseInitInv ==
  ASSUME LeaseInit
  PROVE  LeaseInv
<1>1. NoLease \in Leases /\ NoLease.status = "none"
  BY IdsFacts, Zenon DEF NoLease, Leases
<1>2. \A i \in Ids : leases[i].status = "none"
  BY <1>1, Zenon DEF LeaseInit
<1>3. LeaseTypeOK
  BY <1>1, IdsFacts DEF LeaseInit, LeaseTypeOK, Leases
<1>4. QED
  BY <1>2, <1>3, Zenon DEF LeaseInv, FreshIds, TtlPositive, IndexTracksActive,
     ActiveIsCurrent, Active

\* The invariant is inductive: the index of lease_tracker.rs stays exact
\* through grants, renewals, checks, releases, scans and epoch changes.
THEOREM LeaseInvariant == LeaseSpec => []LeaseInv
<1>1. LeaseInit => LeaseInv
  BY LeaseInitInv, Zenon
<1>2. LeaseInv /\ [LeaseNext]_lease_vars => LeaseInv'
  <2> SUFFICES ASSUME LeaseInv, [LeaseNext]_lease_vars
               PROVE  LeaseInv'
    BY Zenon
  <2>1. CASE LeaseTick
    BY <2>1, LeaseTickInv, Zenon
  <2>2. ASSUME NEW ttl \in Ttls, Grant(ttl)
        PROVE  LeaseInv'
    BY <2>2, GrantInv, Zenon
  <2>3. ASSUME NEW i \in Ids, RenewLive(i)
        PROVE  LeaseInv'
    BY <2>3, RenewLiveInv, Zenon
  <2>4. ASSUME NEW i \in Ids, ExpireLate(i)
        PROVE  LeaseInv'
    BY <2>4, EndOneInv, Zenon DEF ExpireLate
  <2>5. ASSUME NEW i \in Ids, Release(i)
        PROVE  LeaseInv'
    BY <2>5, EndOneInv, Zenon DEF Release
  <2>6. CASE ScanExpired
    BY <2>6, ScanInv, Zenon
  <2>7. ASSUME NEW e \in Epochs, LeaseAdvanceEpoch(e)
        PROVE  LeaseInv'
    BY <2>7, AdvanceInv, Zenon
  <2>8. CASE UNCHANGED lease_vars
    BY <2>8, Zenon DEF lease_vars, LeaseInv, LeaseTypeOK, FreshIds, TtlPositive,
       IndexTracksActive, ActiveIsCurrent, Active
  <2>9. QED
    BY <2>1, <2>2, <2>3, <2>4, <2>5, <2>6, <2>7, <2>8, Zenon DEF LeaseNext, Renew, Check
<1>3. QED
  BY <1>1, <1>2, PTL DEF LeaseSpec

\* The store keeps its types, and ids are given out in order.
THEOREM LeaseTypeCorrect == LeaseSpec => []LeaseTypeOK
<1>1. LeaseInv => LeaseTypeOK
  BY Zenon DEF LeaseInv
<1>2. QED
  BY <1>1, LeaseInvariant, PTL

\* A scan (scan_expired) finds every active lease at its expiry and nowhere else.
THEOREM LeaseIndexTracksActive == LeaseSpec => []IndexTracksActive
<1>1. LeaseInv => IndexTracksActive
  BY Zenon DEF LeaseInv
<1>2. QED
  BY <1>1, LeaseInvariant, PTL

\* An active lease is of the current epoch and was not overdue at the last scan.
THEOREM LeaseActiveIsCurrent == LeaseSpec => []ActiveIsCurrent
<1>1. LeaseInv => ActiveIsCurrent
  BY Zenon DEF LeaseInv
<1>2. QED
  BY <1>1, LeaseInvariant, PTL

\* A lease that ended stays ended and is not escalated again: renew refuses it,
\* scan_expired and advance_epoch pass it over, and grant uses a fresh id.
THEOREM LeaseEndedForGood == LeaseSpec => EndedForGood
<1> DEFINE Ended(i) == leases[i].status \in {"Expired", "Released"}
           Kept(i) == /\ leases'[i].status \in {leases[i].status, "Released"}
                      /\ escalations'[i] = escalations[i]
           Step == \A i \in Ids : Ended(i) => Kept(i)
<1>1. LeaseInv /\ [LeaseNext]_lease_vars => Step
  <2> SUFFICES ASSUME LeaseInv, [LeaseNext]_lease_vars, NEW i \in Ids, Ended(i)
               PROVE  Kept(i)
    BY Zenon
  <2>0. leases \in [Ids -> Leases]
    BY Zenon DEF LeaseInv, LeaseTypeOK, Leases
  <2>1. CASE LeaseTick
    BY <2>1, Zenon DEF LeaseTick, ClockTick
  <2>2. ASSUME NEW ttl \in Ttls, Grant(ttl)
        PROVE  Kept(i)
    <3>1. i # next_id
      BY IdsFacts DEF LeaseInv, FreshIds
    <3>2. QED
      BY <2>0, <2>2, <3>1, Zenon DEF Grant
  <2>3. ASSUME NEW j \in Ids, RenewLive(j) \/ ExpireLate(j)
        PROVE  Kept(i)
    <3>1. i # j
      BY <2>3, Zenon DEF RenewLive, ExpireLate
    <3>2. QED
      BY <2>0, <2>3, <3>1, Zenon DEF RenewLive, ExpireLate
  <2>4. ASSUME NEW j \in Ids, Release(j)
        PROVE  Kept(i)
    BY <2>0, <2>4, Zenon DEF Release, Leases
  <2>5. CASE ScanExpired
    BY <2>5, Zenon DEF ScanExpired, Escalate
  <2>6. ASSUME NEW e \in Epochs, LeaseAdvanceEpoch(e)
        PROVE  Kept(i)
    BY <2>6, Zenon DEF LeaseAdvanceEpoch, Escalate
  <2>7. CASE UNCHANGED lease_vars
    BY <2>7, Zenon DEF lease_vars
  <2>8. QED
    BY <2>1, <2>2, <2>3, <2>4, <2>5, <2>6, <2>7, Zenon DEF LeaseNext, Renew, Check
<1>2. LeaseInv /\ [LeaseNext]_lease_vars =>
        [\A i \in Ids :
           /\ leases[i].status \in {"Expired", "Released"} =>
                leases'[i].status \in {leases[i].status, "Released"}
           /\ leases[i].status \in {"Expired", "Released"} => escalations'[i] = escalations[i]]_lease_vars
  BY <1>1, Zenon
<1>3. QED
  BY <1>2, LeaseInvariant, PTL DEF LeaseSpec, EndedForGood

\* A lease is escalated at most once, and only when it ended.
EscalatedOnce ==
  \A i \in Ids : /\ escalations[i] \in {0, 1}
                 /\ escalations[i] = 1 => leases[i].status \in {"Expired", "Released"}

\* However scans, epoch changes, late renewals, checks and releases follow each
\* other, scan_expired and advance_epoch together return at most one escalation
\* for a lease, and none for a lease that is still active.
THEOREM LeaseEscalatedOnce == LeaseSpec => []EscalatedOnce
<1>1. LeaseInit => EscalatedOnce
  <2>1. 0 # 1
    OBVIOUS
  <2>2. QED
    BY <2>1, Zenon DEF LeaseInit, EscalatedOnce
<1>2. LeaseInv /\ EscalatedOnce /\ [LeaseNext]_lease_vars => EscalatedOnce'
  <2> SUFFICES ASSUME LeaseInv, EscalatedOnce, [LeaseNext]_lease_vars, NEW i \in Ids
               PROVE  /\ escalations'[i] \in {0, 1}
                      /\ escalations'[i] = 1 => leases'[i].status \in {"Expired", "Released"}
    BY Zenon DEF EscalatedOnce
  <2>0. leases \in [Ids -> Leases] /\ escalations[i] \in {0, 1} /\ 0 # 1 /\ 0 + 1 = 1
    <3>1. 0 # 1 /\ 0 + 1 = 1
      OBVIOUS
    <3>2. QED
      BY <3>1, Zenon DEF LeaseInv, LeaseTypeOK, Leases, EscalatedOnce
  <2>1. CASE LeaseTick
    BY <2>1, Zenon DEF LeaseTick, ClockTick, EscalatedOnce
  <2>2. ASSUME NEW ttl \in Ttls, Grant(ttl)
        PROVE  escalations' = escalations /\ (leases'[i] = leases[i] \/ escalations[i] = 0)
    <3>1. i = next_id => escalations[i] = 0
      <4>1. i = next_id => leases[i].status = "none"
        BY IdsFacts DEF LeaseInv, FreshIds
      <4>2. QED
        BY <2>0, <4>1, Zenon DEF EscalatedOnce
    <3>2. QED
      BY <2>0, <2>2, <3>1, Zenon DEF Grant
  <2>3. ASSUME NEW j \in Ids, RenewLive(j) \/ ExpireLate(j) \/ Release(j)
        PROVE  escalations' = escalations /\ (leases'[i] = leases[i] \/ escalations[i] = 0
                                              \/ leases'[i].status \in {"Expired", "Released"})
    <3>1. leases[j].status = "Active" => escalations[j] = 0
      BY Zenon DEF EscalatedOnce
    <3>2. QED
      BY <2>0, <2>3, <3>1, Zenon DEF RenewLive, ExpireLate, Release, Leases
  <2>4. ASSUME NEW ids \in SUBSET Active, Escalate(ids)
        PROVE  /\ escalations'[i] \in {0, 1}
               /\ escalations'[i] = 1 => leases'[i].status \in {"Expired", "Released"}
    <3>1. CASE i \in ids
      <4>1. escalations[i] = 0
        BY <2>0, <3>1, Zenon DEF EscalatedOnce, Active
      <4>2. leases'[i].status = "Expired" /\ escalations'[i] = 0 + 1
        BY <2>0, <2>4, <3>1, <4>1, Zenon DEF Escalate, Leases
      <4>3. QED
        BY <2>0, <4>2, Zenon
    <3>2. CASE i \notin ids
      BY <2>4, <3>2, Zenon DEF Escalate, EscalatedOnce
    <3>3. QED
      BY <3>1, <3>2, Zenon
  <2>5. ScanExpired => \E ids \in SUBSET Active : Escalate(ids)
    BY Zenon DEF ScanExpired, Active
  <2>6. \A e \in Epochs : LeaseAdvanceEpoch(e) => \E ids \in SUBSET Active : Escalate(ids)
    BY Zenon DEF LeaseAdvanceEpoch, Active
  <2>7. CASE UNCHANGED lease_vars
    BY <2>7, Zenon DEF lease_vars, EscalatedOnce
  <2>8. CASE LeaseNext
    <3>1. ASSUME NEW ttl \in Ttls, Grant(ttl)
          PROVE  /\ escalations'[i] \in {0, 1}
                 /\ escalations'[i] = 1 => leases'[i].status \in {"Expired", "Released"}
      BY <2>0, <2>2, <3>1, Zenon DEF EscalatedOnce
    <3>2. ASSUME NEW j \in Ids, RenewLive(j) \/ ExpireLate(j) \/ Release(j)
          PROVE  /\ escalations'[i] \in {0, 1}
                 /\ escalations'[i] = 1 => leases'[i].status \in {"Expired", "Released"}
      BY <2>0, <2>3, <3>2, Zenon DEF EscalatedOnce
    <3>3. QED
      BY <2>1, <2>4, <2>5, <2>6, <2>8, <3>1, <3>2, Zenon DEF LeaseNext, Renew, Check
  <2>9. QED
    BY <2>7, <2>8, Zenon
<1>3. QED
  BY <1>1, <1>2, LeaseInvariant, PTL DEF LeaseSpec
-----------------------------------------------------------------------------
(***************************************************************************)
(* The idempotency keys, for any inputs, any times to live and any bounds. *)
(***************************************************************************)

\* Executions are numbered as they start; reports come from those that started.
Numbered == \A k \in Keys : executing[k] \subseteq 1..started[k]

\* The entry of a key carries the time of its latest execution.
EntryIsLatest == \A k \in Keys : entries[k].status # "none" =>
  /\ started[k] # 0
  /\ entries[k].created_at = last_start[k]
  /\ entries[k].epoch = k[2]

\* A key without an entry was never claimed, or long ago, or in an epoch that
\* is over; no key of a coming epoch was claimed.
GoneIsOld == \A k \in Keys :
  /\ k[2] > current_epoch => started[k] = 0
  /\ entries[k].status = "none" /\ started[k] # 0 /\ k[2] = current_epoch =>
       now - last_start[k] >= Ttl[ComputationOf(k)]

StoreInv == StoreTypeOK /\ Numbered /\ EntryIsLatest /\ GoneIsOld /\ AnswersAreTrue
Entries == [status : {"none", "InProgress", "Completed", "Failed"},
            result : Nat, created_at : Nat, epoch : Epochs]

LEMMA KeyFacts ==
  ASSUME NEW k \in Keys
  PROVE  /\ k[1] \in Inputs /\ k[2] \in Epochs /\ k[2] \in Nat
         /\ Ttl[ComputationOf(k)] \in Nat
         /\ NoEntry \in Entries /\ NoEntry.status = "none"
BY StoreConfigured, MaxEpochNat DEF Keys, Epochs, ComputationOf, NoEntry, Entries

\* Eviction takes away only what is old enough, and keeps the rest as it is.
LEMMA EvictedFacts ==
  ASSUME StoreInv, NEW comps
  PROVE  /\ Evicted(comps) \in [Keys -> Entries]
         /\ \A k \in Keys : Evicted(comps)[k].status # "none" => Evicted(comps)[k] = entries[k]
         /\ \A k \in Keys :
              Evicted(comps)[k].status = "none" /\ started[k] # 0 /\ k[2] = current_epoch =>
                now - last_start[k] >= Ttl[ComputationOf(k)]
<1>1. \A k \in Keys : Evicted(comps)[k] = IF ComputationOf(k) \in comps /\ ~Fresh(k) THEN NoEntry ELSE entries[k]
  BY Zenon DEF Evicted
<1>2. \A k \in Keys : NoEntry \in Entries /\ NoEntry.status = "none" /\ entries[k] \in Entries
  BY KeyFacts, Zenon DEF StoreInv, StoreTypeOK, Entries
<1>3. Evicted(comps) \in [Keys -> Entries]
  BY <1>2, Zenon DEF Evicted
<1>4. ASSUME NEW k \in Keys, Evicted(comps)[k].status = "none", started[k] # 0, k[2] = current_epoch
      PROVE  now - last_start[k] >= Ttl[ComputationOf(k)]
  <2>1. CASE entries[k].status = "none"
    BY <1>4, <2>1, Zenon DEF StoreInv, GoneIsOld
  <2>2. CASE entries[k].status # "none"
    <3>1. ~Fresh(k)
      BY <1>1, <1>4, <2>2, Zenon
    <3>2. entries[k].created_at = last_start[k]
      BY <2>2, Zenon DEF StoreInv, EntryIsLatest
    <3>3. ~(now - last_start[k] < Ttl[ComputationOf(k)])
      BY <3>1, <3>2, Zenon DEF Fresh
    <3>4. Ttl[ComputationOf(k)] \in Nat /\ now \in Nat /\ last_start[k] \in Nat /\ last_start[k] <= now
      BY KeyFacts DEF StoreInv, StoreTypeOK
    <3>5. QED
      BY <3>3, <3>4
  <2>3. QED
    BY <2>1, <2>2, Zenon
<1>5. QED
  BY <1>1, <1>2, <1>3, <1>4, Zenon

LEMMA EvictInv ==
  ASSUME StoreInv, NEW comps, entries' = Evicted(comps),
         UNCHANGED <<now, current_epoch, started, executing, done, last_start>>
  PROVE  StoreInv'
<1>1. /\ entries' \in [Keys -> Entries]
      /\ \A k \in Keys : entries'[k].status # "none" => entries'[k] = entries[k]
      /\ \A k \in Keys :
           entries'[k].status = "none" /\ started[k] # 0 /\ k[2] = current_epoch =>
             now - last_start[k] >= Ttl[ComputationOf(k)]
  BY EvictedFacts, Zenon
<1>2. StoreTypeOK'
  BY <1>1, Zenon DEF StoreInv, StoreTypeOK, Entries
<1>3. Numbered' /\ EntryIsLatest' /\ AnswersAreTrue'
  BY <1>1, Zenon DEF StoreInv, Numbered, EntryIsLatest, AnswersAreTrue
<1>4. GoneIsOld'
  BY <1>1, Zenon DEF StoreInv, GoneIsOld
<1>5. QED
  BY <1>2, <1>3, <1>4, Zenon DEF StoreInv

LEMMA StoreTickInv ==
  ASSUME StoreInv, StoreTick
  PROVE  StoreInv'
<1>1. /\ now' = now + 1
      /\ UNCHANGED <<current_epoch, entries, started, executing, done, last_start>>
  BY Zenon DEF StoreTick, ClockTick
<1>2. StoreTypeOK'
  <2>1. last_start' \in [Keys -> 0..now']
    <3>1. now \in Nat /\ 0..now \subseteq 0..now+1
      BY DEF StoreInv, StoreTypeOK
    <3>2. last_start \in [Keys -> 0..now]
      BY Zenon DEF StoreInv, StoreTypeOK
    <3>3. QED
      BY <1>1, <3>1, <3>2, Zenon
  <2>2. QED
    BY <1>1, <2>1 DEF StoreInv, StoreTypeOK
<1>3. Numbered' /\ EntryIsLatest' /\ AnswersAreTrue'
  BY <1>1, Zenon DEF StoreInv, Numbered, EntryIsLatest, AnswersAreTrue
<1>4. GoneIsOld'
  <2>1. ASSUME NEW k \in Keys, entries[k].status = "none", started[k] # 0, k[2] = current_epoch
        PROVE  now' - last_start[k] >= Ttl[ComputationOf(k)]
    <3>1. now - last_start[k] >= Ttl[ComputationOf(k)]
      BY <2>1, Zenon DEF StoreInv, GoneIsOld
    <3>2. Ttl[ComputationOf(k)] \in Nat /\ now \in Nat /\ last_start[k] \in Nat /\ last_start[k] <= now
      BY KeyFacts DEF StoreInv, StoreTypeOK
    <3>3. QED
      BY <1>1, <3>1, <3>2
  <2>2. \A k \in Keys : k[2] > current_epoch => started[k] = 0
    BY Zenon DEF StoreInv, GoneIsOld
  <2>3. QED
    BY <1>1, <2>1, <2>2, Zenon DEF GoneIsOld
<1>5. QED
  BY <1>2, <1>3, <1>4, Zenon DEF StoreInv

\* The claim that starts an execution.
LEMMA ClaimInv ==
  ASSUME StoreInv, NEW k \in Keys, CheckAndClaim(k)
  PROVE  StoreInv'
<1> DEFINE kept == Evicted({ComputationOf(k)})
<1>0. /\ k[2] = current_epoch
      /\ UNCHANGED <<now, current_epoch, done>>
  BY Zenon DEF CheckAndClaim
<1>1. CASE kept[k].status # "none"
  <2>1. entries' = kept /\ UNCHANGED <<started, executing, last_start>>
    BY <1>1, Zenon DEF CheckAndClaim
  <2>2. QED
    BY <1>0, <2>1, EvictInv, Zenon
<1>2. CASE kept[k].status = "none"
  <2>1. /\ entries' = [kept EXCEPT ![k] = NewEntry(k)]
        /\ started' = [started EXCEPT ![k] = started[k] + 1]
        /\ executing' = [executing EXCEPT ![k] = executing[k] \cup {started[k] + 1}]
        /\ last_start' = [last_start EXCEPT ![k] = now]
    BY <1>2, Zenon DEF CheckAndClaim
  <2>2. /\ kept \in [Keys -> Entries]
        /\ \A l \in Keys : kept[l].status # "none" => kept[l] = entries[l]
        /\ \A l \in Keys :
             kept[l].status = "none" /\ started[l] # 0 /\ l[2] = current_epoch =>
               now - last_start[l] >= Ttl[ComputationOf(l)]
    BY EvictedFacts, Zenon
  <2> HIDE DEF kept
  <2>3. NewEntry(k) \in Entries /\ NewEntry(k).status = "InProgress"
        /\ NewEntry(k).created_at = now /\ NewEntry(k).epoch = current_epoch
    BY Zenon DEF NewEntry, Entries, StoreInv, StoreTypeOK
  <2>4. /\ entries'[k] = NewEntry(k) /\ \A l \in Keys \ {k} : entries'[l] = kept[l]
        /\ started'[k] = started[k] + 1 /\ \A l \in Keys \ {k} : started'[l] = started[l]
        /\ executing'[k] = executing[k] \cup {started[k] + 1} /\ \A l \in Keys \ {k} : executing'[l] = executing[l]
        /\ last_start'[k] = now /\ \A l \in Keys \ {k} : last_start'[l] = last_start[l]
    BY <2>1, <2>2, Zenon DEF StoreInv, StoreTypeOK
  <2>5. started[k] \in Nat /\ now \in Nat /\ executing[k] \subseteq 1..started[k] /\ k[2] \in Nat
    BY KeyFacts, Zenon DEF StoreInv, StoreTypeOK, Numbered
  <2>6. StoreTypeOK'
    <3>1. entries' \in [Keys -> Entries]
      BY <2>1, <2>2, <2>3, Zenon
    <3>2. started' \in [Keys -> Nat] /\ executing' \in [Keys -> SUBSET Nat]
      BY <2>1, <2>5 DEF StoreInv, StoreTypeOK
    <3>3. last_start' \in [Keys -> 0..now]
      BY <2>1, <2>5 DEF StoreInv, StoreTypeOK
    <3>4. QED
      BY <1>0, <3>1, <3>2, <3>3, Zenon DEF StoreInv, StoreTypeOK, Entries
  <2>7. Numbered'
    <3>1. executing'[k] \subseteq 1..started'[k]
      BY <2>4, <2>5
    <3>2. QED
      BY <2>4, <3>1, Zenon DEF StoreInv, Numbered
  <2>8. EntryIsLatest'
    <3>1. started'[k] # 0
      BY <2>4, <2>5
    <3>2. \A l \in Keys \ {k} : entries'[l].status # "none" =>
            started[l] # 0 /\ entries'[l].created_at = last_start[l] /\ entries'[l].epoch = l[2]
      BY <2>2, <2>4 DEF StoreInv, EntryIsLatest
    <3>3. ASSUME NEW l \in Keys \ {k}
          PROVE  entries'[l].status # "none" =>
                   started'[l] # 0 /\ entries'[l].created_at = last_start'[l] /\ entries'[l].epoch = l[2]
      BY <2>4, <3>2, <3>3, Zenon
    <3>4. entries'[k].created_at = last_start'[k] /\ entries'[k].epoch = k[2]
      BY <1>0, <2>3, <2>4, Zenon
    <3>5. QED
      BY <3>1, <3>3, <3>4, Zenon DEF EntryIsLatest
  <2>9. GoneIsOld'
    <3>1. ~(k[2] > current_epoch)
      BY <1>0, <2>5
    <3>2. QED
      BY <1>0, <2>2, <2>3, <2>4, <3>1, Zenon DEF StoreInv, GoneIsOld
  <2>10. AnswersAreTrue'
    <3>1. started'[k] \in executing'[k]
      BY <2>4, Zenon
    <3>2. \A l \in Keys \ {k} : kept[l].status # "none" => kept[l] = entries[l]
      BY <2>2, Zenon
    <3>3. \A l \in Keys \ {k} :
            /\ entries'[l].status = "Completed" => entries'[l].result \in done[l]
            /\ entries'[l].status = "InProgress" => started'[l] \in executing'[l]
            /\ entries'[l].status # "none" => l[2] = current_epoch
      BY <2>4, <3>2 DEF StoreInv, AnswersAreTrue
    <3>4. entries'[k].status = "InProgress" /\ "InProgress" # "Completed" /\ k[2] = current_epoch
      BY <1>0, <2>3, <2>4, Zenon
    <3>5. done' = done /\ current_epoch' = current_epoch
      BY <1>0, Zenon
    <3>6. QED
      BY <3>1, <3>3, <3>4, <3>5, Zenon DEF AnswersAreTrue
  <2>11. QED
    BY <2>6, <2>7, <2>8, <2>9, <2>10, Zenon DEF StoreInv
<1>3. QED
  BY <1>1, <1>2, Zenon

\* A report: the entry, if there still is one, takes its status and result.
LEMMA MarkInv ==
  ASSUME StoreInv, NEW k \in Keys, NEW n \in Results, n \in executing[k],
         NEW st \in {"Completed", "Failed"}, NEW res \in Nat,
         st = "Completed" => res \in done'[k],
         Mark(k, st, res),
         executing' = [executing EXCEPT ![k] = executing[k] \ {n}],
         done' = done \/ done' = [done EXCEPT ![k] = done[k] \cup {n}],
         UNCHANGED <<now, current_epoch, started, last_start>>
  PROVE  StoreInv'
<1>1. /\ entries[k].status = "none" => entries' = entries
      /\ entries[k].status # "none" =>
           entries' = [entries EXCEPT ![k].status = st, ![k].result = res]
  BY Zenon DEF Mark
<1>2. entries \in [Keys -> Entries] /\ n \in Nat
  BY Zenon DEF StoreInv, StoreTypeOK, Entries, Results
<1>3. \A l \in Keys \ {k} : entries'[l] = entries[l] /\ executing'[l] = executing[l]
  BY <1>1, <1>2, Zenon DEF StoreInv, StoreTypeOK
<1>4. /\ entries[k].status = "none" => entries'[k] = entries[k]
      /\ entries[k].status # "none" =>
           /\ entries'[k].status = st /\ entries'[k].result = res
           /\ entries'[k].created_at = entries[k].created_at /\ entries'[k].epoch = entries[k].epoch
      /\ entries' \in [Keys -> Entries]
  BY <1>1, <1>2 DEF Entries
<1>5. /\ executing' \in [Keys -> SUBSET Nat] /\ done' \in [Keys -> SUBSET Nat]
      /\ executing'[k] \subseteq executing[k]
      /\ \A l \in Keys : done[l] \subseteq done'[l]
  BY <1>2 DEF StoreInv, StoreTypeOK
<1>6. StoreTypeOK'
  BY <1>4, <1>5, Zenon DEF StoreInv, StoreTypeOK, Entries
<1>7. Numbered'
  BY <1>3, <1>5, Zenon DEF StoreInv, Numbered
<1>8. \A l \in Keys : entries'[l].status = "none" <=> entries[l].status = "none"
  BY <1>3, <1>4, Zenon
<1>9. EntryIsLatest'
  BY <1>3, <1>4, <1>8, Zenon DEF StoreInv, EntryIsLatest
<1>10. GoneIsOld'
  BY <1>8, Zenon DEF StoreInv, GoneIsOld
<1>11. AnswersAreTrue'
  BY <1>3, <1>4, <1>5, <1>8 DEF StoreInv, AnswersAreTrue
<1>12. QED
  BY <1>6, <1>7, <1>9, <1>10, <1>11, Zenon DEF StoreInv

\* An epoch change leaves no entry, as the ones there are of the epoch before.
LEMMA AdvanceEpochInv ==
  ASSUME StoreInv, NEW e \in Epochs, StoreAdvanceEpoch(e)
  PROVE  StoreInv'
<1>1. /\ e > current_epoch
      /\ entries' = [k \in Keys |-> IF entries[k].epoch = e THEN entries[k] ELSE NoEntry]
      /\ current_epoch' = e
      /\ UNCHANGED <<now, started, executing, done, last_start>>
  BY Zenon DEF StoreAdvanceEpoch
<1>2. e \in Nat /\ current_epoch \in Nat
  BY DEF StoreInv, StoreTypeOK, Epochs
<1>3. ASSUME NEW k \in Keys
      PROVE  entries'[k].status = "none" /\ entries'[k] \in Entries
  <2>1. NoEntry \in Entries /\ NoEntry.status = "none" /\ entries[k] \in Entries
    BY KeyFacts, Zenon DEF StoreInv, StoreTypeOK, Entries
  <2>2. entries[k].status # "none" => entries[k].epoch = current_epoch
    BY Zenon DEF StoreInv, EntryIsLatest, AnswersAreTrue
  <2>3. entries[k].status # "none" => entries[k].epoch # e
    BY <1>1, <1>2, <2>2
  <2>4. QED
    BY <1>1, <2>1, <2>3, Zenon
<1>4. StoreTypeOK'
  <2>1. entries' \in [Keys -> Entries]
    BY <1>1, <1>3, Zenon
  <2>2. QED
    BY <1>1, <2>1, Zenon DEF StoreInv, StoreTypeOK, Entries
<1>5. Numbered' /\ EntryIsLatest' /\ AnswersAreTrue'
  BY <1>1, <1>3, Zenon DEF StoreInv, Numbered, EntryIsLatest, AnswersAreTrue
<1>6. ASSUME NEW k \in Keys, k[2] >= e
      PROVE  started[k] = 0
  <2>1. k[2] \in Nat
    BY KeyFacts, Zenon
  <2>2. k[2] > current_epoch
    BY <1>1, <1>2, <1>6, <2>1
  <2>3. QED
    BY <2>2, Zenon DEF StoreInv, GoneIsOld
<1>7. \A k \in Keys : k[2] \in Nat
  BY KeyFacts, Zenon
<1>8. \A k \in Keys : (k[2] > e => started[k] = 0) /\ (k[2] = e => started[k] = 0)
  BY <1>2, <1>6, <1>7
<1>9. GoneIsOld'
  BY <1>1, <1>8, Zenon DEF GoneIsOld
<1>10. QED
  BY <1>4, <1>5, <1>9, Zenon DEF StoreInv

LEMMA StoreInitInv ==
  ASSUME StoreInit
  PROVE  StoreInv
<1>1. \A k \in Keys : NoEntry \in Entries /\ NoEntry.status = "none"
  BY KeyFacts, Zenon
<1>2. entries \in [Keys -> Entries] /\ \A k \in Keys : entries[k].status = "none"
  BY <1>1, Zenon DEF StoreInit
<1>3. StoreTypeOK
  BY <1>2, MaxEpochNat DEF StoreInit, StoreTypeOK, Entries, Epochs
<1>4. QED
  BY <1>2, <1>3, Zenon DEF StoreInv, StoreInit, Numbered, EntryIsLatest, GoneIsOld,
     AnswersAreTrue

LEMMA StepInv ==
  ASSUME StoreInv, [StoreNext]_store_vars
  PROVE  StoreInv'
<1>1. CASE StoreTick
  BY <1>1, StoreTickInv, Zenon
<1>2. ASSUME NEW k \in Keys, CheckAndClaim(k)
      PROVE  StoreInv'
  BY <1>2, ClaimInv, Zenon
<1>3. ASSUME NEW k \in Keys, NEW n \in Results, MarkCompleted(k, n)
      PROVE  StoreInv'
  <2>1. n \in Nat /\ n \in done'[k]
    BY <1>3, Zenon DEF MarkCompleted, StoreInv, StoreTypeOK, Results
  <2>2. QED
    BY <1>3, <2>1, MarkInv, Zenon DEF MarkCompleted
<1>4. ASSUME NEW k \in Keys, NEW n \in Results, MarkFailed(k, n)
      PROVE  StoreInv'
  BY <1>4, MarkInv, Zenon DEF MarkFailed
<1>5. CASE EvictAllExpired
  BY <1>5, EvictInv, Zenon DEF EvictAllExpired
<1>6. ASSUME NEW e \in Epochs, StoreAdvanceEpoch(e)
      PROVE  StoreInv'
  BY <1>6, AdvanceEpochInv, Zenon
<1>7. CASE UNCHANGED store_vars
  BY <1>7, Zenon DEF store_vars, StoreInv, StoreTypeOK, Numbered, EntryIsLatest,
     GoneIsOld, AnswersAreTrue
<1>8. QED
  BY <1>1, <1>2, <1>3, <1>4, <1>5, <1>6, <1>7, Zenon DEF StoreNext

\* The invariant is inductive.
THEOREM StoreInvariant == StoreSpec => []StoreInv
<1>1. StoreInit => StoreInv
  BY StoreInitInv, Zenon
<1>2. StoreInv /\ [StoreNext]_store_vars => StoreInv'
  BY StepInv, Zenon
<1>3. QED
  BY <1>1, <1>2, PTL DEF StoreSpec

\* What check_and_claim answers about a key is true, whatever was evicted,
\* reported late or left behind by an earlier epoch.
THEOREM StoreAnswersAreTrue == StoreSpec => []AnswersAreTrue
<1>1. StoreInv => AnswersAreTrue
  BY Zenon DEF StoreInv
<1>2. StoreSpec => []StoreInv
  BY StoreInvariant, Zenon
<1>3. QED
  BY <1>1, <1>2, PTL

\* check_and_claim starts executions of a key at least entry_ttl_ticks apart:
\* evict_expired takes an entry away only when it is that old, and the keys of
\* the entries an epoch change takes away are refused from then on.
THEOREM StoreOncePerTtl == StoreSpec => OncePerTtl
<1>1. ASSUME StoreInv, StoreNext, NEW k \in Keys, started'[k] # started[k]
      PROVE  started[k] = 0 \/ now - last_start[k] >= Ttl[ComputationOf(k)]
  <2>1. PICK l \in Keys : CheckAndClaim(l)
    BY <1>1, Zenon DEF StoreNext, StoreTick, MarkCompleted, MarkFailed,
       EvictAllExpired, StoreAdvanceEpoch
  <2>2. /\ Evicted({ComputationOf(l)})[l].status = "none"
        /\ started' = [started EXCEPT ![l] = started[l] + 1]
        /\ l[2] = current_epoch
    BY <1>1, <2>1, Zenon DEF CheckAndClaim
  <2>3. k = l
    BY <1>1, <2>2, Zenon DEF StoreInv, StoreTypeOK
  <2>4. QED
    BY <1>1, <2>2, <2>3, EvictedFacts, Zenon
<1>2. StoreInv /\ [StoreNext]_store_vars =>
        [\A k \in Keys : started'[k] # started[k] =>
           started[k] = 0 \/ now - last_start[k] >= Ttl[ComputationOf(k)]]_store_vars
  BY <1>1, Zenon
<1>3. StoreSpec => []StoreInv
  BY StoreInvariant, Zenon
<1>4. QED
  BY <1>2, <1>3, PTL DEF StoreSpec, OncePerTtl
=============================================================================
