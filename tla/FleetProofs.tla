----------------------------- MODULE FleetProofs -----------------------------
(***************************************************************************)
(* Proofs about the fleet protocol and the convergence engines: for any    *)
(* nodes, any evidence and intents, any loss, duplication and reordering.  *)
(***************************************************************************)
EXTENDS FleetConvergence, FoldLemmas

Received == [node : Nodes, seq : Nat, action : 0..4, epoch : Nat]
-----------------------------------------------------------------------------
(* What ResolveAll computes. *)

\* The order of the precedence rule, with the number of the intent last.
Precedes(x, y) ==
  \/ x.action > y.action
  \/ x.action = y.action /\ x.epoch > y.epoch
  \/ x.action = y.action /\ x.epoch = y.epoch /\ x.node < y.node
  \/ x.action = y.action /\ x.epoch = y.epoch /\ x.node = y.node /\ x.seq <= y.seq

\* The intents of one sender arrive in the order of their numbers.
InOrder(a) ==
  \A i, j \in DOMAIN a : i < j /\ a[i].node = a[j].node => a[i].seq < a[j].seq

ResolveOp(a) == [k \in 1..Len(Tail(a)) |-> [v \in Received |-> Resolve(v, Tail(a)[k])]]

LEMMA ResolveType ==
  ASSUME NEW x \in Received, NEW y \in Received
  PROVE  Resolve(x, y) \in {x, y}
BY Zenon DEF Resolve

\* The function FoldLeft chooses: the intent resolved from the prefixes of t.
ResolveStep(b, t, D, h) ==
  [s \in SUBSET D |-> IF s = {} THEN b ELSE Resolve(h[s \ {Max(s)}], t[Max(s)])]
ResolveIter(b, t, D) == CHOOSE iter : iter = ResolveStep(b, t, D, iter)

LEMMA ResolveAllIter ==
  ASSUME NEW a
  PROVE  ResolveAll(a) = ResolveIter(Head(a), Tail(a), DOMAIN Tail(a))[DOMAIN Tail(a)]
BY Zenon DEF ResolveAll, FoldLeft, MapThenFoldSet, ResolveIter, ResolveStep

LEMMA ResolveRuns ==
  ASSUME NEW a \in Seq(Received), a # <<>>
  PROVE  \E acc : /\ Runs(acc, Len(Tail(a)), a[1], ResolveOp(a), Received)
                  /\ acc[Len(Tail(a))] = ResolveAll(a)
<1>1. PICK t \in Seq(Received) : t = Tail(a)
  <2>1. Tail(a) \in Seq(Received)
    OBVIOUS
  <2> QED
    BY <2>1, Zenon
<1>2. PICK n \in Nat : n = Len(t) /\ DOMAIN t = 1..n /\ \A k \in 1..n : t[k] \in Received
  OBVIOUS
<1>3. PICK b \in Received : b = a[1] /\ b = Head(a)
  OBVIOUS
<1>4. PICK I, C : I = 1..n /\ C = MaxPick(n)
  BY Zenon
<1>5. PICK iter : iter = ResolveIter(b, t, I)
  BY Zenon
<1>6. ResolveAll(a) = iter[I]
  <2>1. ResolveAll(a) = ResolveIter(Head(a), Tail(a), DOMAIN Tail(a))[DOMAIN Tail(a)]
    BY ResolveAllIter, Zenon
  <2> QED
    BY <2>1, <1>1, <1>2, <1>3, <1>4, <1>5, Zenon
<1>7. PICK Op : Op = ResolveOp(a)
  BY Zenon
<1>8. \A k \in I : \A v \in Received : Op[k][v] = Resolve(v, t[k])
  BY <1>1, <1>2, <1>4, <1>7, Zenon DEF ResolveOp
<1>9. Closed(Op, I, Received)
  BY <1>8, <1>2, <1>4, ResolveType DEF Closed
<1>10. IsFiniteSet(I) /\ Picks(C, I)
  BY <1>4, MaxPicks, FS_Interval
<1>11. PICK g : Maps(g, I, Received) /\ Obeys(g, I, b, C, Op, Received)
  BY <1>3, <1>9, <1>10, Recursion, Zenon
<1>12. \A s \in SUBSET I : C[s] = Max(s)
  BY <1>4, Zenon DEF MaxPick
<1>13. \A s \in SUBSET I : s # {} => Max(s) \in I /\ s \ {Max(s)} \in SUBSET I
  BY <1>10, <1>12, Zenon DEF Picks
<1>14. g = ResolveStep(b, t, I, g)
  <2>1. ASSUME NEW s \in SUBSET I
        PROVE  g[s] = IF s = {} THEN b ELSE Resolve(g[s \ {Max(s)}], t[Max(s)])
    BY <1>8, <1>11, <1>12, <1>13, Zenon DEF Maps, Obeys, ObeysAt
  <2> QED
    BY <1>11, <2>1, Zenon DEF Maps, ResolveStep
<1>15. iter = ResolveStep(b, t, I, iter)
  BY <1>5, <1>14, Zenon DEF ResolveIter
<1>16. Obeys(iter, I, b, C, Op, Received)
  <2> SUFFICES ASSUME NEW s \in SUBSET I PROVE ObeysAt(iter, s, b, C, Op, Received)
    BY Zenon DEF Obeys
  <2>1. iter[s] = IF s = {} THEN b ELSE Resolve(iter[s \ {Max(s)}], t[Max(s)])
    BY <1>15, Zenon DEF ResolveStep
  <2>2. CASE s = {}
    BY <2>1, <2>2, Zenon DEF ObeysAt
  <2>3. CASE s # {}
    <3>1. PICK c \in I : c = Max(s) /\ c = C[s]
      BY <1>12, <1>13, <2>3, Zenon
    <3>2. iter[s] = Resolve(iter[s \ {c}], t[c])
      BY <2>1, <2>3, <3>1, Zenon
    <3>3. ASSUME iter[s \ {c}] \in Received PROVE iter[s] = Op[c][iter[s \ {c}]]
      BY <1>8, <3>2, <3>3, Zenon
    <3> QED
      BY <2>3, <3>1, <3>3, Zenon DEF ObeysAt
  <2> QED
    BY <2>2, <2>3, Zenon
<1>17. PICK acc : Runs(acc, n, b, Op, Received) /\ acc[n] = iter[1..n]
  BY <1>3, <1>4, <1>9, <1>16, LeftFold
<1> QED
  BY <1>1, <1>2, <1>3, <1>4, <1>6, <1>7, <1>17, Zenon

LEMMA ReceivedFields ==
  ASSUME NEW x \in Received
  PROVE  x.action \in Nat /\ x.epoch \in Nat /\ x.node \in Nat /\ x.seq \in Nat
<1>1. x.action \in 0..4 /\ x.epoch \in Nat /\ x.node \in Nodes /\ x.seq \in Nat
  BY Zenon DEF Received
<1>2. x.node \in Nat
  BY <1>1, FleetNodes, Zenon
<1>3. \A k \in 0..4 : k \in Nat
  OBVIOUS
<1> QED
  BY <1>1, <1>2, <1>3, Zenon

\* Resolving keeps what precedes, and a later intent of the same sender loses.
LEMMA ResolvePrecedes ==
  ASSUME NEW x \in Received, NEW y \in Received
  PROVE  /\ \A z \in Received : Precedes(x, z) => Precedes(Resolve(x, y), z)
         /\ (x.node = y.node => x.seq < y.seq) => Precedes(Resolve(x, y), y)
<1>1. PICK xa, xe, xn, xs \in Nat : xa = x.action /\ xe = x.epoch /\ xn = x.node /\ xs = x.seq
  BY ReceivedFields, Zenon
<1>2. PICK ya, ye, yn, ys \in Nat : ya = y.action /\ ye = y.epoch /\ yn = y.node /\ ys = y.seq
  BY ReceivedFields, Zenon
<1>3. \/ Resolve(x, y) = x /\ ~(ya > xa) /\ (xa = ya => ~(ye > xe))
           /\ (xa = ya /\ xe = ye => ~(xn > yn))
      \/ /\ Resolve(x, y) = y
         /\ \/ ya > xa
            \/ ya = xa /\ ye > xe
            \/ ya = xa /\ ye = xe /\ xn > yn
  BY <1>1, <1>2 DEF Resolve
<1>4. ASSUME NEW z \in Received, Precedes(x, z) PROVE Precedes(Resolve(x, y), z)
  <2>1. PICK za, ze, zn, zs \in Nat : za = z.action /\ ze = z.epoch /\ zn = z.node /\ zs = z.seq
    BY ReceivedFields, Zenon
  <2> QED
    BY <1>1, <1>2, <1>3, <1>4, <2>1 DEF Precedes
<1>5. ASSUME x.node = y.node => x.seq < y.seq PROVE Precedes(Resolve(x, y), y)
  BY <1>1, <1>2, <1>3, <1>5 DEF Precedes
<1> QED
  BY <1>4, <1>5, Zenon

\* The best intent of a set is one only.
LEMMA PrecedesOnce ==
  ASSUME NEW x \in Received, NEW y \in Received, Precedes(x, y), Precedes(y, x)
  PROVE  x = y
<1>1. PICK xa, xe, xn, xs \in Nat : xa = x.action /\ xe = x.epoch /\ xn = x.node /\ xs = x.seq
  BY ReceivedFields, Zenon
<1>2. PICK ya, ye, yn, ys \in Nat : ya = y.action /\ ye = y.epoch /\ yn = y.node /\ ys = y.seq
  BY ReceivedFields, Zenon
<1>3. xa = ya /\ xe = ye /\ xn = yn /\ xs = ys
  BY <1>1, <1>2 DEF Precedes
<1>4. ASSUME NEW r \in Received
      PROVE  r = [node |-> r.node, seq |-> r.seq, action |-> r.action, epoch |-> r.epoch]
  BY Zenon DEF Received
<1>5. x = [node |-> xn, seq |-> xs, action |-> xa, epoch |-> xe]
  BY <1>1, <1>4, Zenon
<1>6. y = [node |-> xn, seq |-> xs, action |-> xa, epoch |-> xe]
  BY <1>2, <1>3, <1>4, Zenon
<1> QED
  BY <1>5, <1>6, Zenon

\* Every prefix has been resolved to its best intent.
LEMMA ResolveAllBest ==
  ASSUME NEW a \in Seq(Received), a # <<>>
  PROVE  /\ \E i \in DOMAIN a : ResolveAll(a) = a[i]
         /\ InOrder(a) => \A j \in DOMAIN a : Precedes(ResolveAll(a), a[j])
<1>1. PICK acc : /\ Runs(acc, Len(Tail(a)), a[1], ResolveOp(a), Received)
                 /\ acc[Len(Tail(a))] = ResolveAll(a)
  BY ResolveRuns, Zenon
<1>2. PICK n \in Nat : n = Len(Tail(a)) /\ Len(a) = n + 1 /\ DOMAIN a = 1..(n + 1)
  OBVIOUS
<1>3. \A k \in 1..n : Tail(a)[k] = a[k + 1] /\ a[k + 1] \in Received
  BY <1>2
<1>4. acc \in [0..n -> Received] /\ acc[0] = a[1] /\ acc[n] = ResolveAll(a)
  BY <1>1, <1>2, Zenon DEF Runs
<1>5. ASSUME NEW k \in 1..n PROVE acc[k] = Resolve(acc[k - 1], a[k + 1])
  <2>1. k - 1 \in 0..n
    OBVIOUS
  <2> QED
    BY <1>1, <1>2, <1>3, <1>4, <2>1, Zenon DEF Runs, ResolveOp
<1> DEFINE Best(k) == /\ \E i \in 1..(k + 1) : acc[k] = a[i]
                      /\ InOrder(a) => \A j \in 1..(k + 1) : Precedes(acc[k], a[j])
           G == {k \in Nat : k <= n => Best(k)}
<1>6. 0 \in G
  <2>1. a[1] \in Received /\ 1..(0+1) = {1}
    BY <1>2
  <2>2. Precedes(a[1], a[1])
    BY <2>1, FleetNodes DEF Precedes, Received
  <2> QED
    BY <1>4, <2>1, <2>2, Zenon
<1>7. ASSUME NEW k \in G PROVE k + 1 \in G
  <2> SUFFICES ASSUME k + 1 <= n PROVE Best(k + 1)
    OBVIOUS
  <2>1. Best(k) /\ k + 1 \in 1..n /\ k \in 0..n /\ k + 2 \in 1..(n + 1) /\ k \in Nat
    BY <1>7
  <2> HIDE DEF G
  <2>2. PICK x \in Received : x = acc[k]
    BY <1>4, <2>1, Zenon
  <2>3. PICK y \in Received : y = a[k + 2]
    BY <1>2, <2>1
  <2>4. acc[k + 1] = Resolve(x, y)
    BY <1>5, <2>1, <2>2, <2>3
  <2>5. PICK i \in 1..(k + 1) : x = a[i]
    BY <2>1, <2>2, Zenon
  <2>6. \E l \in 1..(k + 2) : acc[k + 1] = a[l]
    BY <2>1, <2>3, <2>4, <2>5, ResolveType
  <2>7. ASSUME InOrder(a), NEW j \in 1..(k + 2) PROVE Precedes(acc[k + 1], a[j])
    <3>1. x.node = y.node => x.seq < y.seq
      <4>1. i \in DOMAIN a /\ k + 2 \in DOMAIN a /\ i < k + 2
        BY <1>2, <2>1
      <4> QED
        BY <2>3, <2>5, <2>7, <4>1, Zenon DEF InOrder
    <3>2. PICK z \in Received : z = a[j]
      BY <1>2, <2>1
    <3>3. j = k + 2 \/ Precedes(x, z)
      BY <2>1, <2>2, <2>7, <3>2
    <3>4. Precedes(x, z) => Precedes(Resolve(x, y), z)
      BY ResolvePrecedes, Zenon
    <3>5. Precedes(Resolve(x, y), y)
      BY <3>1, ResolvePrecedes, Zenon
    <3> QED
      BY <2>3, <2>4, <3>2, <3>3, <3>4, <3>5, Zenon
  <2> QED
    BY <2>1, <2>6, <2>7
<1>8. G = Nat
  <2>1. G \in SUBSET Nat
    BY Zenon
  <2> HIDE DEF G
  <2> QED
    BY <1>6, <1>7, <2>1, Induction, Zenon
<1>9. Best(n)
  BY <1>8
<1> QED
  BY <1>2, <1>4, <1>9, Zenon

-----------------------------------------------------------------------------
(* The inductive invariant. *)

Gossip ==
  [kind : {"Evidence"}, trace : DOMAIN Delta]
    \cup [kind : {"Intent"}, action : 0..4, epoch : Nat]
    \cup [kind : {"Heartbeat"}, timestamp : Nat]

ObserverStates ==
  [last_accepted : [Nodes -> Nat], seen_evidence : SUBSET DOMAIN Delta, accumulated : Int,
   evidence_count : Nat, last_heartbeat : [Nodes -> Int],
   pending_intents : Seq(Received), last_checkpoint_seq : Nat]

Decisions ==
  [node : Observers, seq : Nat, intents : SUBSET (Nodes \X Nat), action : 0..4]

ProtocolTypes ==
  /\ now \in Nat
  /\ sent \in [Nodes -> Seq(Gossip)]
  /\ fleet \in [Observers -> ObserverStates]
  /\ checkpoints \in SUBSET Decisions

\* What is pending was accepted, in the order of its sender's numbers.
PendingOk(f) ==
  /\ \A i \in DOMAIN f.pending_intents :
       f.pending_intents[i].seq <= f.last_accepted[f.pending_intents[i].node]
  /\ InOrder(f.pending_intents)

\* What is decided was accepted, and is not pending any more.
DecidedOk(c, f) ==
  /\ \A x \in c.intents : x[2] <= f.last_accepted[x[1]]
  /\ \A i \in DOMAIN f.pending_intents :
       <<f.pending_intents[i].node, f.pending_intents[i].seq>> \notin c.intents

EvidenceOk(f) ==
  /\ IsFiniteSet(f.seen_evidence)
  /\ f.accumulated = SumFunctionOnSet(Delta, f.seen_evidence)
  /\ f.evidence_count = Cardinality(f.seen_evidence)

ObserverInv ==
  /\ \A n \in Observers : PendingOk(fleet[n]) /\ EvidenceOk(fleet[n])
  /\ \A c \in checkpoints : DecidedOk(c, fleet[c.node])
  /\ IntentDecidedOnce

EngineInv ==
  /\ executed \in [Engines -> SUBSET (0..4)]
  /\ applied \in [Engines -> SUBSET checkpoints]
  /\ AppliedIsContained
-----------------------------------------------------------------------------
(* What the actions do to the state of an observer. *)

LEMMA EvidenceTypes == ASSUME NEW t \in DOMAIN Delta PROVE Delta[t] \in Int
BY FleetData, Zenon

SameEvidence(f, g) ==
  /\ g.seen_evidence = f.seen_evidence
  /\ g.accumulated = f.accumulated
  /\ g.evidence_count = f.evidence_count

OneMoreTrace(f, g, t) ==
  /\ t \notin f.seen_evidence
  /\ g.seen_evidence = f.seen_evidence \cup {t}
  /\ g.accumulated = f.accumulated + Delta[t]
  /\ g.evidence_count = f.evidence_count + 1

\* What processing the k-th message of m makes of f.
Processed(f, g, m, k) ==
  /\ k > f.last_accepted[m]
  /\ g.last_accepted = [f.last_accepted EXCEPT ![m] = k]
  /\ \/ g.pending_intents = f.pending_intents
     \/ \E r \in Received : /\ r.node = m /\ r.seq = k
                            /\ g.pending_intents = Append(f.pending_intents, r)
  /\ \/ SameEvidence(f, g)
     \/ \E t \in DOMAIN Delta : OneMoreTrace(f, g, t)

LEMMA IngestType ==
  ASSUME NEW f \in ObserverStates, NEW t \in DOMAIN Delta
  PROVE  /\ Ingest(f, t) \in ObserverStates
         /\ Ingest(f, t).last_accepted = f.last_accepted
         /\ Ingest(f, t).pending_intents = f.pending_intents
         /\ SameEvidence(f, Ingest(f, t)) \/ OneMoreTrace(f, Ingest(f, t), t)
<1>1. f.accumulated + Delta[t] \in Int /\ f.evidence_count + 1 \in Nat
  BY EvidenceTypes DEF ObserverStates
<1>2. f.seen_evidence \cup {t} \in SUBSET DOMAIN Delta
  BY Zenon DEF ObserverStates
<1>3. CASE t \in f.seen_evidence
  BY <1>3, Zenon DEF Ingest, SameEvidence
<1>4. CASE t \notin f.seen_evidence
  BY <1>1, <1>2, <1>4, Zenon DEF Ingest, OneMoreTrace, ObserverStates
<1> QED
  BY <1>3, <1>4, Zenon

LEMMA ProcessEffect ==
  ASSUME ProtocolTypes, NEW n \in Observers, NEW m \in Nodes, NEW k \in DOMAIN sent[m],
         Process(n, m, k)
  PROVE  \E g \in ObserverStates : /\ Processed(fleet[n], g, m, k)
                                   /\ fleet' = [fleet EXCEPT ![n] = g]
<1>1. PICK p \in Gossip : p = sent[m][k]
  BY DEF ProtocolTypes
<1>2. k \in Nat
  BY DEF ProtocolTypes
<1>3. PICK f \in ObserverStates : f = fleet[n]
  BY Zenon DEF ProtocolTypes
<1>4. PICK f1 : f1 = [f EXCEPT !.last_accepted[m] = k]
  BY Zenon
<1>5. /\ f1 \in ObserverStates
      /\ f1.last_accepted = [f.last_accepted EXCEPT ![m] = k]
      /\ f1.pending_intents = f.pending_intents
      /\ SameEvidence(f, f1)
  BY <1>2, <1>3, <1>4, Zenon DEF ObserverStates, SameEvidence
<1>6. k > f.last_accepted[m]
  BY <1>3, Zenon DEF Process, Accept
<1>7. CASE p \in [kind : {"Evidence"}, trace : DOMAIN Delta]
  <2>1. PICK g : g = Ingest(f1, p.trace)
    BY Zenon
  <2>2. fleet' = [fleet EXCEPT ![n] = g]
    BY <1>1, <1>3, <1>4, <1>7, <2>1, Zenon DEF Process
  <2>3. p.trace \in DOMAIN Delta
    BY <1>7, Zenon
  <2>4. /\ g \in ObserverStates
        /\ g.last_accepted = f1.last_accepted
        /\ g.pending_intents = f1.pending_intents
        /\ SameEvidence(f1, g) \/ OneMoreTrace(f1, g, p.trace)
    BY <1>5, <2>1, <2>3, IngestType, Zenon
  <2>5. SameEvidence(f, g) \/ OneMoreTrace(f, g, p.trace)
    BY <1>5, <2>4, Zenon DEF SameEvidence, OneMoreTrace
  <2> QED
    BY <1>3, <1>5, <1>6, <2>2, <2>3, <2>4, <2>5, Zenon DEF Processed
<1>8. CASE p \in [kind : {"Intent"}, action : 0..4, epoch : Nat]
  <2>1. PICK r : r = [node |-> m, seq |-> k, action |-> p.action, epoch |-> p.epoch]
    BY Zenon
  <2>2. r \in Received /\ r.node = m /\ r.seq = k
    BY <1>2, <1>8, <2>1, Zenon DEF Received
  <2>3. PICK g : g = [f1 EXCEPT !.pending_intents = Append(@, r)]
    BY Zenon
  <2>4. fleet' = [fleet EXCEPT ![n] = g]
    BY <1>1, <1>3, <1>4, <1>8, <2>1, <2>3, Zenon DEF Process
  <2>5. /\ g \in ObserverStates
        /\ g.last_accepted = f1.last_accepted
        /\ g.pending_intents = Append(f1.pending_intents, r)
        /\ SameEvidence(f1, g)
    <3>1. Append(f1.pending_intents, r) \in Seq(Received)
      BY <1>5, <2>2 DEF ObserverStates
    <3> QED
      BY <1>5, <2>3, <3>1, Zenon DEF ObserverStates, SameEvidence
  <2>6. SameEvidence(f, g)
    BY <1>5, <2>5, Zenon DEF SameEvidence
  <2> QED
    BY <1>3, <1>5, <1>6, <2>2, <2>4, <2>5, <2>6, Zenon DEF Processed
<1>9. CASE p \in [kind : {"Heartbeat"}, timestamp : Nat]
  <2>1. PICK g : g = [f1 EXCEPT !.last_heartbeat[m] = p.timestamp]
    BY Zenon
  <2>2. fleet' = [fleet EXCEPT ![n] = g]
    BY <1>1, <1>3, <1>4, <1>9, <2>1, Zenon DEF Process
  <2>3. /\ g \in ObserverStates
        /\ g.last_accepted = f1.last_accepted
        /\ g.pending_intents = f1.pending_intents
        /\ SameEvidence(f1, g)
    <3>1. [f1.last_heartbeat EXCEPT ![m] = p.timestamp] \in [Nodes -> Int]
      BY <1>5, <1>9 DEF ObserverStates
    <3>2. g = [f1 EXCEPT !.last_heartbeat = [f1.last_heartbeat EXCEPT ![m] = p.timestamp]]
      BY <2>1, Zenon
    <3> QED
      BY <1>5, <3>1, <3>2, Zenon DEF ObserverStates, SameEvidence
  <2>4. SameEvidence(f, g)
    BY <1>5, <2>3, Zenon DEF SameEvidence
  <2> QED
    BY <1>3, <1>5, <1>6, <2>2, <2>3, <2>4, Zenon DEF Processed
<1> QED
  BY <1>7, <1>8, <1>9, Zenon DEF Gossip

\* What building a checkpoint makes of f.
Cleared(f, g) ==
  /\ g.last_accepted = f.last_accepted
  /\ g.pending_intents = <<>>
  /\ SameEvidence(f, g)

Decides(c, n, a) ==
  c \in Decisions /\ c.node = n /\ c.intents = {<<a[i].node, a[i].seq>> : i \in DOMAIN a}

LEMMA BuildEffect ==
  ASSUME ProtocolTypes, NEW n \in Observers, BuildCheckpoint(n)
  PROVE  /\ \E g \in ObserverStates : /\ Cleared(fleet[n], g)
                                      /\ fleet' = [fleet EXCEPT ![n] = g]
         /\ \/ checkpoints' = checkpoints
            \/ \E c : /\ Decides(c, n, fleet[n].pending_intents)
                      /\ checkpoints' = checkpoints \cup {c}
<1>1. PICK f \in ObserverStates : f = fleet[n]
  BY Zenon DEF ProtocolTypes
<1>2. PICK a \in Seq(Received) : a = f.pending_intents
  BY Zenon DEF ObserverStates
<1>3. PICK seq \in Nat : seq = f.last_checkpoint_seq + 1
  BY DEF ObserverStates
<1>4. \E g \in ObserverStates : Cleared(f, g) /\ fleet' = [fleet EXCEPT ![n] = g]
  <2>1. PICK g : g = [[f EXCEPT !.last_checkpoint_seq = seq] EXCEPT !.pending_intents = <<>>]
    BY Zenon
  <2>2. fleet' = [fleet EXCEPT ![n] = g]
    BY <1>1, <1>3, <2>1, Zenon DEF BuildCheckpoint, ClearPending
  <2>3. <<>> \in Seq(Received)
    OBVIOUS
  <2>4. g \in ObserverStates /\ Cleared(f, g)
    BY <2>1, <2>3, Zenon DEF ObserverStates, Cleared, SameEvidence
  <2> QED
    BY <2>2, <2>4, Zenon
<1>5. CASE a = <<>>
  <2>1. checkpoints' = checkpoints \cup {}
    BY <1>1, <1>2, <1>5, Zenon DEF BuildCheckpoint
  <2> QED
    BY <1>1, <1>4, <2>1, Zenon
<1>6. CASE a # <<>>
  <2>1. PICK ids : ids = {<<i.node, i.seq>> : i \in Range(a)}
    BY Zenon
  <2>2. PICK act : act = ResolveAll(a).action
    BY Zenon
  <2>3. PICK c : c = [node |-> n, seq |-> seq, intents |-> ids, action |-> act]
    BY Zenon
  <2>4. checkpoints' = checkpoints \cup {c}
    BY <1>1, <1>2, <1>3, <1>6, <2>1, <2>2, <2>3, Zenon DEF BuildCheckpoint
  <2>5. act \in 0..4
    <3>1. PICK i \in DOMAIN a : ResolveAll(a) = a[i]
      BY <1>6, ResolveAllBest, Zenon
    <3>2. PICK r \in Received : r = a[i]
      OBVIOUS
    <3>3. r.action \in 0..4
      BY Zenon DEF Received
    <3> QED
      BY <2>2, <3>1, <3>2, <3>3, Zenon
  <2>6. ids = {<<a[i].node, a[i].seq>> : i \in DOMAIN a}
    BY <2>1, Zenon DEF Range
  <2>7. ids \in SUBSET (Nodes \X Nat)
    <3>1. ASSUME NEW i \in DOMAIN a PROVE a[i].node \in Nodes /\ a[i].seq \in Nat
      <4>1. PICK r \in Received : r = a[i]
        OBVIOUS
      <4> QED
        BY <4>1, Zenon DEF Received
    <3> QED
      BY <2>6, <3>1
  <2>8. Decides(c, n, a)
    BY <2>3, <2>5, <2>6, <2>7, Zenon DEF Decides, Decisions
  <2> QED
    BY <1>1, <1>2, <1>4, <2>4, <2>8, Zenon
<1> QED
  BY <1>5, <1>6, Zenon

LEMMA TypesInit == Init => ProtocolTypes
<1> SUFFICES ASSUME Init PROVE ProtocolTypes
  BY Zenon
<1>1. <<>> \in Seq(Gossip) /\ <<>> \in Seq(Received) /\ {} \in SUBSET DOMAIN Delta
  OBVIOUS
<1>2. fleet \in [Observers -> ObserverStates]
  BY <1>1 DEF Init, ProtocolInit, ObserverStates, Never
<1> QED
  BY <1>1, <1>2, Zenon DEF Init, ProtocolInit, ProtocolTypes

\* The protocol steps, as the invariants see them.
Observed ==
  \/ UNCHANGED <<fleet, checkpoints>>
  \/ \E n \in Observers, m \in Nodes, k \in Nat, g \in ObserverStates :
       /\ Processed(fleet[n], g, m, k)
       /\ fleet' = [fleet EXCEPT ![n] = g]
       /\ checkpoints' = checkpoints
  \/ \E n \in Observers, g \in ObserverStates :
       /\ Cleared(fleet[n], g)
       /\ fleet' = [fleet EXCEPT ![n] = g]
       /\ \/ checkpoints' = checkpoints
          \/ \E c : /\ Decides(c, n, fleet[n].pending_intents)
                    /\ checkpoints' = checkpoints \cup {c}

LEMMA MessagesType == ProtocolTypes => Messages \subseteq Gossip
<1> SUFFICES ASSUME ProtocolTypes, NEW p \in Messages PROVE p \in Gossip
  BY Zenon
<1>1. CASE \E t \in DOMAIN Delta : p = [kind |-> "Evidence", trace |-> t]
  BY <1>1 DEF Gossip
<1>2. CASE \E i \in Intents : p = [kind |-> "Intent", action |-> i.action, epoch |-> i.epoch]
  BY <1>2, FleetData DEF Gossip
<1>3. CASE p = [kind |-> "Heartbeat", timestamp |-> now]
  BY <1>3, Zenon DEF Gossip, ProtocolTypes
<1> QED
  BY <1>1, <1>2, <1>3, Zenon DEF Messages

LEMMA TypesStep == ProtocolTypes /\ [Next]_vars => ProtocolTypes' /\ Observed
<1> SUFFICES ASSUME ProtocolTypes, [Next]_vars PROVE ProtocolTypes' /\ Observed
  BY Zenon
<1>1. CASE Elapse
  BY <1>1 DEF Elapse, ProtocolTypes, Observed
<1>2. ASSUME NEW m \in Nodes, Send(m) PROVE ProtocolTypes' /\ Observed
  <2>1. PICK p \in Gossip : sent' = [sent EXCEPT ![m] = Append(@, p)]
    BY <1>2, MessagesType, Zenon DEF Send
  <2>2. Append(sent[m], p) \in Seq(Gossip)
    BY DEF ProtocolTypes
  <2> QED
    BY <1>2, <2>1, <2>2, Zenon DEF Send, ProtocolTypes, Observed
<1>3. ASSUME NEW n \in Observers, NEW m \in Nodes, NEW k \in DOMAIN sent[m], Process(n, m, k)
      PROVE  ProtocolTypes' /\ Observed
  <2>1. PICK g \in ObserverStates : Processed(fleet[n], g, m, k) /\ fleet' = [fleet EXCEPT ![n] = g]
    BY <1>3, ProcessEffect, Zenon
  <2>2. k \in Nat
    BY DEF ProtocolTypes
  <2>3. now' = now /\ sent' = sent /\ checkpoints' = checkpoints
    BY <1>3, Zenon DEF Process
  <2>4. ProtocolTypes'
    BY <2>1, <2>3, Zenon DEF ProtocolTypes
  <2> QED
    BY <2>1, <2>2, <2>3, <2>4, Zenon DEF Observed
<1>4. ASSUME NEW n \in Observers, BuildCheckpoint(n) PROVE ProtocolTypes' /\ Observed
  <2>1. PICK g \in ObserverStates : Cleared(fleet[n], g) /\ fleet' = [fleet EXCEPT ![n] = g]
    BY <1>4, BuildEffect, Zenon
  <2>2. \/ checkpoints' = checkpoints
        \/ \E c : /\ Decides(c, n, fleet[n].pending_intents)
                  /\ checkpoints' = checkpoints \cup {c}
    BY <1>4, BuildEffect, Zenon
  <2>3. now' = now /\ sent' = sent
    BY <1>4, Zenon DEF BuildCheckpoint
  <2>4. checkpoints' \in SUBSET Decisions
    BY <2>2, Zenon DEF ProtocolTypes, Decides
  <2>5. ProtocolTypes'
    BY <2>1, <2>3, <2>4, Zenon DEF ProtocolTypes
  <2> QED
    BY <2>1, <2>2, <2>5, Zenon DEF Observed
<1>5. CASE UNCHANGED protocol
  BY <1>5, Zenon DEF protocol, ProtocolTypes, Observed
<1>6. ASSUME NEW n \in Engines,
             \/ ProcessFleetState(n)
             \/ Escalate(n)
             \/ \E c \in checkpoints : ApplyCheckpointDecisions(n, c)
             \/ UpdatePartitionState(n)
      PROVE  UNCHANGED protocol
  BY <1>6, Zenon DEF ProcessFleetState, Escalate, ApplyCheckpointDecisions,
     UpdatePartitionState
<1> QED
  BY <1>1, <1>2, <1>3, <1>4, <1>5, <1>6, Zenon DEF Next, ProtocolNext, vars
-----------------------------------------------------------------------------
(* The observers. *)

LEMMA ProcessedPending ==
  ASSUME NEW f \in ObserverStates, NEW g \in ObserverStates, NEW m \in Nodes, NEW k \in Nat,
         Processed(f, g, m, k), PendingOk(f)
  PROVE  PendingOk(g)
<1>1. PICK a \in Seq(Received) : a = f.pending_intents
  BY Zenon DEF ObserverStates
<1>2. PICK l \in [Nodes -> Nat] : l = f.last_accepted
  BY Zenon DEF ObserverStates
<1>3. PICK h \in [Nodes -> Nat] : /\ h = g.last_accepted /\ h[m] = k /\ k > l[m]
                                  /\ \A x \in Nodes \ {m} : h[x] = l[x]
  BY <1>2, Zenon DEF Processed, ObserverStates
<1>4. \A x \in Nodes : l[x] <= h[x]
  BY <1>3
<1>5. ASSUME NEW i \in DOMAIN a PROVE a[i] \in Received /\ a[i].node \in Nodes /\ a[i].seq \in Nat
  <2>1. PICK r \in Received : r = a[i]
    OBVIOUS
  <2> QED
    BY <2>1, Zenon DEF Received
<1>6. \A i \in DOMAIN a : a[i].seq <= l[a[i].node]
  BY <1>1, <1>2, Zenon DEF PendingOk
<1>7. \A i \in DOMAIN a : a[i].seq <= h[a[i].node]
  <2> TAKE i \in DOMAIN a
  <2>1. PICK x \in Nodes, q \in Nat : x = a[i].node /\ q = a[i].seq
    BY <1>5, Zenon
  <2>2. q <= l[x] /\ l[x] <= h[x] /\ l[x] \in Nat /\ h[x] \in Nat
    BY <1>4, <1>6, <2>1, Zenon
  <2>3. q <= h[x]
    BY <2>2
  <2> QED
    BY <2>1, <2>3, Zenon
<1>8. CASE g.pending_intents = a
  BY <1>1, <1>3, <1>7, <1>8, Zenon DEF PendingOk
<1>9. ASSUME NEW r \in Received, r.node = m, r.seq = k, g.pending_intents = Append(a, r)
      PROVE  PendingOk(g)
  <2>1. PICK b \in Seq(Received) : b = Append(a, r)
    <3>1. Append(a, r) \in Seq(Received)
      OBVIOUS
    <3> QED
      BY <3>1, Zenon
  <2>2. PICK d \in Nat : d = Len(a) /\ DOMAIN a = 1..d /\ DOMAIN b = 1..(d + 1)
    BY <2>1
  <2>3. b[d + 1] = r /\ \A i \in 1..d : b[i] = a[i]
    BY <2>1, <2>2
  <2>4. ASSUME NEW i \in DOMAIN b PROVE b[i].seq <= h[b[i].node]
    <3>1. i = d + 1 \/ i \in DOMAIN a
      BY <2>2
    <3>2. k <= h[m]
      BY <1>3
    <3> QED
      BY <1>7, <1>9, <2>2, <2>3, <3>1, <3>2, Zenon
  <2>5. ASSUME NEW i \in DOMAIN b, NEW j \in DOMAIN b, i < j, b[i].node = b[j].node
        PROVE  b[i].seq < b[j].seq
    <3>1. i \in DOMAIN a
      BY <2>2, <2>5
    <3>2. CASE j \in DOMAIN a
      <4>1. InOrder(a)
        BY <1>1, Zenon DEF PendingOk
      <4> QED
        BY <2>2, <2>3, <2>5, <3>1, <3>2, <4>1, Zenon DEF InOrder
    <3>3. CASE j = d + 1
      <4>1. PICK q \in Nat : q = a[i].seq
        BY <1>5, <3>1, Zenon
      <4>2. a[i].node = m
        BY <1>9, <2>2, <2>3, <2>5, <3>1, <3>3, Zenon
      <4>3. q <= l[m] /\ l[m] \in Nat
        BY <1>6, <3>1, <4>1, <4>2, Zenon
      <4>4. q < k
        BY <1>3, <4>3
      <4>5. b[i].seq = q /\ b[j].seq = k
        BY <1>9, <2>2, <2>3, <3>1, <3>3, <4>1, Zenon
      <4> QED
        BY <4>4, <4>5, Zenon
    <3> QED
      BY <2>2, <3>2, <3>3
  <2>6. InOrder(b)
    BY <2>5, Zenon DEF InOrder
  <2> QED
    BY <1>3, <1>9, <2>1, <2>4, <2>6, Zenon DEF PendingOk
<1> QED
  BY <1>1, <1>8, <1>9, Zenon DEF Processed

LEMMA ProcessedDecided ==
  ASSUME NEW f \in ObserverStates, NEW g \in ObserverStates, NEW m \in Nodes, NEW k \in Nat,
         Processed(f, g, m, k), NEW c \in Decisions, DecidedOk(c, f)
  PROVE  DecidedOk(c, g)
<1>1. PICK a \in Seq(Received) : a = f.pending_intents
  BY Zenon DEF ObserverStates
<1>2. PICK l \in [Nodes -> Nat] : l = f.last_accepted
  BY Zenon DEF ObserverStates
<1>3. PICK h \in [Nodes -> Nat] : /\ h = g.last_accepted /\ h[m] = k /\ k > l[m]
                                  /\ \A x \in Nodes \ {m} : h[x] = l[x]
  BY <1>2, Zenon DEF Processed, ObserverStates
<1>4. \A x \in Nodes : l[x] <= h[x]
  BY <1>3
<1>5. ASSUME NEW y \in c.intents PROVE y[1] \in Nodes /\ y[2] \in Nat /\ y[2] <= l[y[1]]
  BY <1>2, Zenon DEF Decisions, DecidedOk
<1>6. \A y \in c.intents : y[2] <= h[y[1]]
  <2> TAKE y \in c.intents
  <2>1. PICK x \in Nodes, q \in Nat : x = y[1] /\ q = y[2]
    BY <1>5, Zenon
  <2>2. q <= l[x] /\ l[x] <= h[x] /\ l[x] \in Nat /\ h[x] \in Nat
    BY <1>4, <1>5, <2>1, Zenon
  <2>3. q <= h[x]
    BY <2>2
  <2> QED
    BY <2>1, <2>3, Zenon
<1>7. \A i \in DOMAIN a : <<a[i].node, a[i].seq>> \notin c.intents
  BY <1>1, Zenon DEF DecidedOk
<1>8. CASE g.pending_intents = a
  BY <1>3, <1>6, <1>7, <1>8, Zenon DEF DecidedOk
<1>9. ASSUME NEW r \in Received, r.node = m, r.seq = k, g.pending_intents = Append(a, r)
      PROVE  DecidedOk(c, g)
  <2>1. PICK b \in Seq(Received) : b = Append(a, r)
    <3>1. Append(a, r) \in Seq(Received)
      OBVIOUS
    <3> QED
      BY <3>1, Zenon
  <2>2. PICK d \in Nat : d = Len(a) /\ DOMAIN a = 1..d /\ DOMAIN b = 1..(d + 1)
    BY <2>1
  <2>3. b[d + 1] = r /\ \A i \in 1..d : b[i] = a[i]
    BY <2>1, <2>2
  <2>4. <<m, k>> \notin c.intents
    <3> SUFFICES ASSUME <<m, k>> \in c.intents PROVE FALSE
      BY Zenon
    <3>1. <<m, k>>[1] = m /\ <<m, k>>[2] = k
      BY Zenon
    <3>2. k <= l[m]
      BY <1>5, <3>1, Zenon
    <3> QED
      BY <1>3, <3>2
  <2>5. ASSUME NEW i \in DOMAIN b PROVE <<b[i].node, b[i].seq>> \notin c.intents
    <3>1. i = d + 1 \/ i \in DOMAIN a
      BY <2>2
    <3> QED
      BY <1>7, <1>9, <2>2, <2>3, <2>4, <3>1, Zenon
  <2> QED
    BY <1>3, <1>6, <1>9, <2>1, <2>5, Zenon DEF DecidedOk
<1> QED
  BY <1>1, <1>8, <1>9, Zenon DEF Processed

LEMMA ProcessedEvidence ==
  ASSUME NEW f \in ObserverStates, NEW g \in ObserverStates, NEW m \in Nodes, NEW k \in Nat,
         Processed(f, g, m, k), EvidenceOk(f)
  PROVE  EvidenceOk(g)
<1>1. CASE SameEvidence(f, g)
  BY <1>1, Zenon DEF SameEvidence, EvidenceOk
<1>2. ASSUME NEW t \in DOMAIN Delta, OneMoreTrace(f, g, t) PROVE EvidenceOk(g)
  <2>1. PICK T \in SUBSET DOMAIN Delta : T = f.seen_evidence
    BY Zenon DEF ObserverStates
  <2>2. IsFiniteSet(T) /\ t \notin T
    BY <1>2, <2>1, Zenon DEF EvidenceOk, OneMoreTrace
  <2>3. IsFiniteSet(T \cup {t}) /\ Cardinality(T \cup {t}) = Cardinality(T) + 1
    BY <2>2, FS_AddElement, Zenon
  <2>4. Numbers(Delta, T \cup {t})
    BY EvidenceTypes, Zenon DEF Numbers
  <2>5. SumFunctionOnSet(Delta, T \cup {t}) = SumFunctionOnSet(Delta, T) + Delta[t]
    BY <2>2, <2>4, SumOneMore, Zenon
  <2> QED
    BY <1>2, <2>1, <2>3, <2>5, Zenon DEF EvidenceOk, OneMoreTrace
<1> QED
  BY <1>1, <1>2, Zenon DEF Processed

LEMMA ClearedOk ==
  ASSUME NEW f \in ObserverStates, NEW g \in ObserverStates, Cleared(f, g)
  PROVE  /\ PendingOk(g)
         /\ EvidenceOk(f) => EvidenceOk(g)
         /\ \A c : DecidedOk(c, f) => DecidedOk(c, g)
         /\ \A c, n : Decides(c, n, f.pending_intents) /\ PendingOk(f) => DecidedOk(c, g)
<1>1. g.pending_intents = <<>> /\ g.last_accepted = f.last_accepted /\ SameEvidence(f, g)
  BY Zenon DEF Cleared
<1>2. DOMAIN g.pending_intents = {}
  <2>1. DOMAIN <<>> = {}
    OBVIOUS
  <2> QED
    BY <1>1, <2>1, Zenon
<1>3. PendingOk(g)
  BY <1>2, Zenon DEF PendingOk, InOrder
<1>4. EvidenceOk(f) => EvidenceOk(g)
  BY <1>1, Zenon DEF EvidenceOk, SameEvidence
<1>5. \A c : DecidedOk(c, f) => DecidedOk(c, g)
  BY <1>1, <1>2, Zenon DEF DecidedOk
<1>6. ASSUME NEW c, NEW n, Decides(c, n, f.pending_intents), PendingOk(f) PROVE DecidedOk(c, g)
  <2>1. PICK a : a = f.pending_intents
    BY Zenon
  <2>2. ASSUME NEW y \in c.intents PROVE y[2] <= f.last_accepted[y[1]]
    <3>1. PICK i \in DOMAIN a : y = <<a[i].node, a[i].seq>>
      BY <1>6, <2>1, Zenon DEF Decides
    <3>2. a[i].seq <= f.last_accepted[a[i].node]
      BY <1>6, <2>1, Zenon DEF PendingOk
    <3>3. y[1] = a[i].node /\ y[2] = a[i].seq
      BY <3>1, Zenon
    <3> QED
      BY <3>2, <3>3, Zenon
  <2> QED
    BY <1>1, <1>2, <2>2, Zenon DEF DecidedOk
<1> QED
  BY <1>3, <1>4, <1>5, <1>6, Zenon

\* A new checkpoint takes its intents from what was pending, which no earlier
\* checkpoint of the node contains.
LEMMA DecidedOnceMore ==
  ASSUME ProtocolTypes, ObserverInv, NEW n \in Observers, NEW c,
         Decides(c, n, fleet[n].pending_intents), checkpoints' = checkpoints \cup {c}
  PROVE  IntentDecidedOnce'
<1>1. ASSUME NEW d \in checkpoints, d.node = n PROVE c.intents \cap d.intents = {}
  <2> SUFFICES ASSUME NEW y \in c.intents PROVE y \notin d.intents
    BY Zenon
  <2>1. PICK a : a = fleet[n].pending_intents
    BY Zenon
  <2>2. PICK i \in DOMAIN a : y = <<a[i].node, a[i].seq>>
    <3>1. c.intents = {<<a[i].node, a[i].seq>> : i \in DOMAIN a}
      BY <2>1, Zenon DEF Decides
    <3> QED
      BY <3>1, Zenon
  <2>3. DecidedOk(d, fleet[n])
    BY <1>1, Zenon DEF ObserverInv
  <2> QED
    BY <2>1, <2>2, <2>3, Zenon DEF DecidedOk
<1>2. c.node = n
  BY Zenon DEF Decides
<1>3. \A d, e \in checkpoints : d.node = e.node /\ d.intents \cap e.intents # {} => d = e
  BY Zenon DEF ObserverInv, IntentDecidedOnce
<1>4. \A d, e \in checkpoints \cup {c} : d.node = e.node /\ d.intents \cap e.intents # {} => d = e
  BY <1>1, <1>2, <1>3, Zenon
<1> QED
  BY <1>4, Zenon DEF IntentDecidedOnce

LEMMA ObserverInit == Init => ObserverInv
<1> SUFFICES ASSUME Init PROVE ObserverInv
  BY Zenon
<1>1. ASSUME NEW n \in Observers PROVE PendingOk(fleet[n]) /\ EvidenceOk(fleet[n])
  <2>1. PICK f : f = fleet[n]
    BY Zenon
  <2>2. /\ f.pending_intents = <<>> /\ f.seen_evidence = {}
        /\ f.accumulated = 0 /\ f.evidence_count = 0
    BY <2>1, Zenon DEF Init, ProtocolInit
  <2>3. PendingOk(f)
    <3>1. DOMAIN <<>> = {}
      OBVIOUS
    <3>2. DOMAIN f.pending_intents = {}
      BY <2>2, <3>1, Zenon
    <3> QED
      BY <3>2, Zenon DEF PendingOk, InOrder
  <2>4. EvidenceOk(f)
    <3>1. SumFunctionOnSet(Delta, {}) = 0
      BY SumEmpty, Zenon
    <3>2. IsFiniteSet({}) /\ Cardinality({}) = 0
      BY FS_EmptySet, Zenon
    <3> QED
      BY <2>2, <3>1, <3>2, Zenon DEF EvidenceOk
  <2> QED
    BY <2>1, <2>3, <2>4, Zenon
<1>2. checkpoints = {}
  BY Zenon DEF Init, ProtocolInit
<1> QED
  BY <1>1, <1>2, Zenon DEF ObserverInv, IntentDecidedOnce

LEMMA ObserverStep == ProtocolTypes /\ ObserverInv /\ Observed => ObserverInv'
<1> SUFFICES ASSUME ProtocolTypes, ObserverInv, Observed PROVE ObserverInv'
  BY Zenon
<1>1. CASE UNCHANGED <<fleet, checkpoints>>
  BY <1>1, Zenon DEF ObserverInv, IntentDecidedOnce
<1>2. ASSUME NEW n \in Observers, NEW m \in Nodes, NEW k \in Nat, NEW g \in ObserverStates,
             Processed(fleet[n], g, m, k), fleet' = [fleet EXCEPT ![n] = g],
             checkpoints' = checkpoints
      PROVE  ObserverInv'
  <2>1. fleet[n] \in ObserverStates /\ PendingOk(fleet[n]) /\ EvidenceOk(fleet[n])
    BY Zenon DEF ProtocolTypes, ObserverInv
  <2>2. PendingOk(g) /\ EvidenceOk(g)
    BY <1>2, <2>1, ProcessedPending, ProcessedEvidence, Zenon
  <2>3. fleet'[n] = g /\ \A o \in Observers \ {n} : fleet'[o] = fleet[o]
    BY <1>2, Zenon DEF ProtocolTypes
  <2>4. \A o \in Observers : PendingOk(fleet'[o]) /\ EvidenceOk(fleet'[o])
    BY <2>2, <2>3, Zenon DEF ObserverInv
  <2>5. ASSUME NEW c \in checkpoints PROVE DecidedOk(c, fleet'[c.node])
    <3>1. c \in Decisions /\ c.node \in Observers /\ DecidedOk(c, fleet[c.node])
      BY Zenon DEF ProtocolTypes, Decisions, ObserverInv
    <3>2. c.node = n => DecidedOk(c, g)
      BY <1>2, <2>1, <3>1, ProcessedDecided, Zenon
    <3> QED
      BY <2>3, <3>1, <3>2, Zenon
  <2> QED
    BY <1>2, <2>4, <2>5, Zenon DEF ObserverInv, IntentDecidedOnce
<1>3. ASSUME NEW n \in Observers, NEW g \in ObserverStates,
             Cleared(fleet[n], g), fleet' = [fleet EXCEPT ![n] = g],
             \/ checkpoints' = checkpoints
             \/ \E c : /\ Decides(c, n, fleet[n].pending_intents)
                       /\ checkpoints' = checkpoints \cup {c}
      PROVE  ObserverInv'
  <2>1. fleet[n] \in ObserverStates /\ PendingOk(fleet[n]) /\ EvidenceOk(fleet[n])
    BY Zenon DEF ProtocolTypes, ObserverInv
  <2>2. PendingOk(g) /\ EvidenceOk(g)
    BY <1>3, <2>1, ClearedOk, Zenon
  <2>3. fleet'[n] = g /\ \A o \in Observers \ {n} : fleet'[o] = fleet[o]
    BY <1>3, Zenon DEF ProtocolTypes
  <2>4. \A o \in Observers : PendingOk(fleet'[o]) /\ EvidenceOk(fleet'[o])
    BY <2>2, <2>3, Zenon DEF ObserverInv
  <2>5. ASSUME NEW c \in checkpoints PROVE DecidedOk(c, fleet'[c.node])
    <3>1. c.node \in Observers /\ DecidedOk(c, fleet[c.node])
      BY Zenon DEF ProtocolTypes, Decisions, ObserverInv
    <3>2. c.node = n => DecidedOk(c, g)
      BY <1>3, <2>1, <3>1, ClearedOk, Zenon
    <3> QED
      BY <2>3, <3>1, <3>2, Zenon
  <2>6. CASE checkpoints' = checkpoints
    BY <2>4, <2>5, <2>6, Zenon DEF ObserverInv, IntentDecidedOnce
  <2>7. ASSUME NEW c, Decides(c, n, fleet[n].pending_intents), checkpoints' = checkpoints \cup {c}
        PROVE  ObserverInv'
    <3>1. c.node = n /\ DecidedOk(c, g)
      BY <1>3, <2>1, <2>7, ClearedOk, Zenon DEF Decides
    <3>2. DecidedOk(c, fleet'[c.node])
      BY <2>3, <3>1, Zenon
    <3>3. IntentDecidedOnce'
      BY <2>7, DecidedOnceMore, Zenon
    <3> QED
      BY <2>4, <2>5, <2>7, <3>2, <3>3 DEF ObserverInv
  <2> QED
    BY <1>3, <2>6, <2>7, Zenon
<1> QED
  BY <1>1, <1>2, <1>3, Zenon DEF Observed

FleetInv == ProtocolTypes /\ ObserverInv

LEMMA FleetAlways == Spec => []FleetInv
<1>1. Init => FleetInv
  BY TypesInit, ObserverInit, Zenon DEF FleetInv
<1>2. FleetInv /\ [Next]_vars => FleetInv'
  BY TypesStep, ObserverStep, Zenon DEF FleetInv
<1> QED
  BY <1>1, <1>2, PTL DEF Spec

\* An intent contributes to at most one checkpoint of a node: build_checkpoint
\* clears what it resolved, and NodeSequenceTracker::accept refuses every
\* message whose number is not larger than the last one of its sender.
THEOREM FleetIntentDecidedOnce == Spec => []IntentDecidedOnce
<1>1. FleetInv => IntentDecidedOnce
  BY Zenon DEF FleetInv, ObserverInv
<1> QED
  BY <1>1, FleetAlways, PTL

\* The posterior EvidenceAccumulator::ingest keeps is the sum of the deltas of
\* the distinct traces, and the count is their number.
THEOREM FleetEvidenceCountedOnce == Spec => []EvidenceCountedOnce
<1>1. FleetInv => EvidenceCountedOnce
  BY DEF FleetInv, ObserverInv, EvidenceOk, EvidenceCountedOnce
<1> QED
  BY <1>1, FleetAlways, PTL

\* DeterministicPrecedence::resolve_all gives observers with the same pending
\* intents the same winner, in whatever order the intents arrived.
THEOREM FleetWinnersAgree == Spec => []WinnersAgree
<1>1. FleetInv => WinnersAgree
  <2> SUFFICES ASSUME FleetInv, NEW n \in Observers, NEW o \in Observers,
                      fleet[n].pending_intents # <<>>,
                      Range(fleet[n].pending_intents) = Range(fleet[o].pending_intents)
               PROVE  ResolveAll(fleet[n].pending_intents) = ResolveAll(fleet[o].pending_intents)
    BY Zenon DEF WinnersAgree
  <2>1. PICK a \in Seq(Received) : a = fleet[n].pending_intents
    BY Zenon DEF FleetInv, ProtocolTypes, ObserverStates
  <2>2. PICK b \in Seq(Received) : b = fleet[o].pending_intents
    BY Zenon DEF FleetInv, ProtocolTypes, ObserverStates
  <2>3. InOrder(a) /\ InOrder(b)
    BY <2>1, <2>2, Zenon DEF FleetInv, ObserverInv, PendingOk
  <2>4. {a[i] : i \in DOMAIN a} = {b[i] : i \in DOMAIN b}
    BY <2>1, <2>2, Zenon DEF Range
  <2>5. a # <<>> /\ b # <<>>
    <3>1. 1 \in DOMAIN a
      BY <2>1
    <3>2. DOMAIN <<>> = {}
      OBVIOUS
    <3> QED
      BY <2>4, <3>1, <3>2, Zenon
  <2>6. PICK i \in DOMAIN a : ResolveAll(a) = a[i]
    BY <2>5, ResolveAllBest, Zenon
  <2>7. PICK j \in DOMAIN b : ResolveAll(b) = b[j]
    BY <2>5, ResolveAllBest, Zenon
  <2>8. PICK i1 \in DOMAIN b : b[i1] = a[i]
    BY <2>4, Zenon
  <2>9. PICK j1 \in DOMAIN a : a[j1] = b[j]
    BY <2>4, Zenon
  <2>10. Precedes(ResolveAll(a), a[j1])
    BY <2>3, <2>5, ResolveAllBest, Zenon
  <2>11. Precedes(ResolveAll(b), b[i1])
    BY <2>3, <2>5, ResolveAllBest, Zenon
  <2>12. PICK x \in Received, y \in Received : x = a[i] /\ y = b[j]
    OBVIOUS
  <2>13. Precedes(x, y) /\ Precedes(y, x)
    BY <2>6, <2>7, <2>8, <2>9, <2>10, <2>11, <2>12, Zenon
  <2> QED
    BY <2>1, <2>2, <2>6, <2>7, <2>12, <2>13, PrecedesOnce, Zenon
<1> QED
  BY <1>1, FleetAlways, PTL
-----------------------------------------------------------------------------
(* The engines. *)

LEMMA HighestIsGreatest ==
  ASSUME NEW E \in SUBSET (0..4)
  PROVE  /\ Max({0} \cup E) \in 0..4
         /\ \A b \in E : Max({0} \cup E) >= b
<1>1. PICK S \in SUBSET Nat : S = {0} \cup E
  <2>1. \A x \in {0} \cup E : x \in Nat
    OBVIOUS
  <2> QED
    BY <2>1, Zenon
<1>2. 0 \in S /\ \A x \in S : x <= 4 /\ x \in 0..4
  BY <1>1
<1>3. Max(S) \in S /\ \A x \in S : Max(S) >= x
  BY <1>2, MaxIsGreatest, Zenon
<1> QED
  BY <1>1, <1>2, <1>3, Zenon

\* A receipt is above all earlier ones, and asking leaves the observer
\* contained at least as severely as asked.
LEMMA RecordEffect ==
  ASSUME executed \in [Engines -> SUBSET (0..4)], NEW n \in Engines, NEW act \in 0..4,
         Record(n, act)
  PROVE  /\ executed' \in [Engines -> SUBSET (0..4)]
         /\ \A o \in Engines : HighestExecutedAction(o)' >= HighestExecutedAction(o)
         /\ HighestExecutedAction(n)' >= act
         /\ \A o \in Engines : \A a \in executed'[o] \ executed[o] : \A b \in executed[o] : a > b
<1>1. PICK E \in SUBSET (0..4) : E = executed[n]
  BY Zenon
<1>2. PICK F \in SUBSET (0..4) : /\ F = executed'[n]
                                 /\ F = IF Executes(n, act) THEN E \cup {act} ELSE E
                                 /\ executed' = [executed EXCEPT ![n] = F]
  BY <1>1, Zenon DEF Record
<1>3. executed' \in [Engines -> SUBSET (0..4)] /\ \A o \in Engines \ {n} : executed'[o] = executed[o]
  BY <1>2, Zenon
<1>4. PICK e \in 0..4 : e = Max({0} \cup E) /\ \A b \in E : e >= b
  BY HighestIsGreatest, Zenon
<1>5. PICK h \in 0..4 : h = Max({0} \cup F) /\ \A b \in F : h >= b
  BY HighestIsGreatest, Zenon
<1>6. HighestExecutedAction(n) = e /\ HighestExecutedAction(n)' = h
  BY <1>1, <1>2, <1>4, <1>5, Zenon DEF HighestExecutedAction
<1>7. \/ F = E /\ h = e /\ e >= act
      \/ F = E \cup {act} /\ act \notin E /\ act >= e /\ h >= act
  <2>1. CASE Executes(n, act)
    BY <1>1, <1>2, <1>5, <1>6, <2>1, Zenon DEF Executes
  <2>2. CASE ~Executes(n, act)
    <3>1. act = 0 \/ act \in E \/ ~(act >= e)
      BY <1>1, <1>6, <2>2, Zenon DEF Executes
    <3>2. e >= act
      BY <1>4, <3>1
    <3> QED
      BY <1>2, <1>4, <1>5, <2>2, <3>2, Zenon
  <2> QED
    BY <2>1, <2>2, Zenon
<1>8. h >= e /\ h >= act
  BY <1>4, <1>5, <1>7
<1>9. ASSUME NEW a \in F \ E, NEW b \in E PROVE a > b
  <2>1. a = act /\ act >= e /\ e >= b /\ act # b
    BY <1>4, <1>7, <1>9, Zenon
  <2> QED
    BY <2>1
<1>10. ASSUME NEW o \in Engines PROVE HighestExecutedAction(o)' >= HighestExecutedAction(o)
  <2>1. CASE o = n
    BY <1>6, <1>8, <2>1, Zenon
  <2>2. CASE o # n
    <3>1. PICK q \in 0..4 : q = HighestExecutedAction(o)
      BY HighestIsGreatest, Zenon DEF HighestExecutedAction
    <3>2. HighestExecutedAction(o)' = q
      BY <1>3, <2>2, <3>1, Zenon DEF HighestExecutedAction
    <3> QED
      BY <3>1, <3>2
  <2> QED
    BY <2>1, <2>2, Zenon
<1> QED
  BY <1>1, <1>2, <1>3, <1>6, <1>8, <1>9, <1>10, Zenon

LEMMA EvaluateType ==
  ASSUME NEW limits, NEW posterior PROVE Evaluate(limits, posterior) \in 0..4
<1>1. PICK E \in SUBSET (0..4) : E = {i \in 1..4 : posterior >= limits[i]}
  <2>1. \A i \in 1..4 : i \in 0..4
    OBVIOUS
  <2> QED
    BY <2>1, Zenon
<1> QED
  BY <1>1, HighestIsGreatest, Zenon DEF Evaluate

LEMMA EngineInit == Init => EngineInv
BY Zenon DEF Init, EngineInv, AppliedIsContained

\* What a step may never do to the receipts.
Escalates ==
  \A n \in Engines : \A a \in executed'[n] \ executed[n] : \A b \in executed[n] : a > b

LEMMA EngineStep == ProtocolTypes /\ EngineInv /\ [Next]_vars => EngineInv' /\ Escalates
<1> SUFFICES ASSUME ProtocolTypes, EngineInv, [Next]_vars PROVE EngineInv' /\ Escalates
  BY Zenon
<1>1. /\ executed \in [Engines -> SUBSET (0..4)]
      /\ applied \in [Engines -> SUBSET checkpoints]
  BY Zenon DEF EngineInv
<1>2. checkpoints \subseteq checkpoints'
  <2>1. Observed
    BY TypesStep, Zenon
  <2> QED
    BY <2>1, Zenon DEF Observed
<1>3. \A o \in Engines : HighestExecutedAction(o) \in 0..4
  BY <1>1, HighestIsGreatest, Zenon DEF HighestExecutedAction
<1>4. \A c \in checkpoints : c.action \in 0..4
  BY Zenon DEF ProtocolTypes, Decisions
<1>5. ASSUME NEW o \in Engines, NEW c \in applied[o] PROVE HighestExecutedAction(o) >= c.action
  BY Zenon DEF EngineInv, AppliedIsContained
<1>6. CASE UNCHANGED <<executed, applied>>
  <2>1. Escalates
    BY <1>6, Zenon DEF Escalates
  <2>2. AppliedIsContained'
    BY <1>5, <1>6, Zenon DEF AppliedIsContained, HighestExecutedAction
  <2>3. applied' \in [Engines -> SUBSET checkpoints']
    BY <1>1, <1>2, <1>6, Zenon
  <2> QED
    BY <1>1, <1>6, <2>1, <2>2, <2>3, Zenon DEF EngineInv
<1>7. ASSUME NEW n \in Engines, NEW act \in 0..4, Record(n, act),
             \/ applied' = applied
             \/ \E c \in checkpoints : c.action = act /\ applied' = [applied EXCEPT ![n] = @ \cup {c}]
      PROVE  EngineInv' /\ Escalates
  <2>1. /\ executed' \in [Engines -> SUBSET (0..4)]
        /\ \A o \in Engines : HighestExecutedAction(o)' >= HighestExecutedAction(o)
        /\ HighestExecutedAction(n)' >= act
        /\ Escalates
    BY <1>1, <1>7, RecordEffect, Zenon DEF Escalates
  <2>2. \A o \in Engines : HighestExecutedAction(o)' \in 0..4
    BY <2>1, HighestIsGreatest, Zenon DEF HighestExecutedAction
  <2>3. applied' \in [Engines -> SUBSET checkpoints']
    BY <1>1, <1>2, <1>7
  <2>4. ASSUME NEW o \in Engines, NEW c \in applied'[o] PROVE HighestExecutedAction(o)' >= c.action
    <3>1. PICK h, q \in 0..4 : h = HighestExecutedAction(o)' /\ q = HighestExecutedAction(o) /\ h >= q
      BY <1>3, <2>1, <2>2, Zenon
    <3>2. c \in applied[o] \/ (o = n /\ c \in checkpoints /\ c.action = act)
      BY <1>1, <1>7
    <3>3. CASE c \in applied[o]
      <4>1. PICK s \in 0..4 : s = c.action /\ q >= s
        BY <1>1, <1>4, <1>5, <3>1, <3>3, Zenon
      <4> QED
        BY <3>1, <4>1
    <3>4. CASE o = n /\ c.action = act
      BY <2>1, <3>4, Zenon
    <3> QED
      BY <3>2, <3>3, <3>4, Zenon
  <2>5. AppliedIsContained'
    BY <2>4, Zenon DEF AppliedIsContained
  <2> QED
    BY <2>1, <2>3, <2>5 DEF EngineInv
<1>8. ASSUME NEW n \in Engines, ProcessFleetState(n) PROVE EngineInv' /\ Escalates
  BY <1>7, <1>8, EvaluateType, Zenon DEF ProcessFleetState
<1>9. ASSUME NEW n \in Engines, Escalate(n) PROVE EngineInv' /\ Escalates
  <2>1. HighestExecutedAction(n) + 1 \in 0..4
    BY <1>3, <1>9 DEF Escalate
  <2> QED
    BY <1>7, <1>9, <2>1, Zenon DEF Escalate
<1>10. ASSUME NEW n \in Engines, NEW c \in checkpoints, ApplyCheckpointDecisions(n, c)
       PROVE  EngineInv' /\ Escalates
  BY <1>4, <1>7, <1>10, Zenon DEF ApplyCheckpointDecisions
<1>11. ASSUME NEW n \in Engines, UpdatePartitionState(n) PROVE EngineInv' /\ Escalates
  BY <1>6, <1>11, Zenon DEF UpdatePartitionState
<1>12. CASE UNCHANGED engine
  BY <1>6, <1>12, Zenon DEF engine
<1> QED
  BY <1>8, <1>9, <1>10, <1>11, <1>12, Zenon DEF Next, vars

\* An observer that has applied a checkpoint stays contained at least as
\* severely as the checkpoint decided (apply_checkpoint_decisions), whatever
\* its own posterior and its escalations make of it.
THEOREM FleetAppliedIsContained == Spec => []AppliedIsContained
<1>1. EngineInv => AppliedIsContained
  BY Zenon DEF EngineInv
<1>2. FleetInv => ProtocolTypes
  BY Zenon DEF FleetInv
<1> QED
  BY <1>1, <1>2, FleetAlways, EngineInit, EngineStep, PTL DEF Spec

\* Every new receipt of execute_decision is more severe than all earlier ones
\* of the observer, whichever caller asked.
THEOREM FleetEscalatesOnly == Spec => EscalatesOnly
<1>1. ProtocolTypes /\ EngineInv /\ [Next]_vars => [Escalates]_executed
  BY EngineStep, Zenon
<1>2. FleetInv => ProtocolTypes
  BY Zenon DEF FleetInv
<1> QED
  BY <1>1, <1>2, FleetAlways, EngineInit, EngineStep, PTL DEF Spec, EscalatesOnly,
     Escalates
=============================================================================
