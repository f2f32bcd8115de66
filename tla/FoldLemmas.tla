----------------------------- MODULE FoldLemmas -----------------------------
(***************************************************************************)
(* What the folds and maxima of the community modules compute.  Proofs by  *)
(* induction are proofs by least counterexample: the set of numbers for    *)
(* which a claim fails has a least element if it has any.                  *)
(***************************************************************************)
EXTENDS Integers, FiniteSets, SequenceFolds, FiniteSetsExt, Functions,
        FiniteSetTheorems, TLAPS

\* A set of natural numbers has a least element.
LEMMA Least ==
  ASSUME NEW T \in SUBSET Nat, T # {}
  PROVE  \E m \in T : \A n \in T : m <= n
<1> DEFINE U == {0..n : n \in T}
<1>1. \A n \in T : n \in Nat /\ IsFiniteSet(0..n) /\ 0..n \in SUBSET Nat
  BY FS_Interval
<1>2. U \subseteq FiniteSubsetsOf(Nat) /\ U # {}
  BY <1>1, Zenon DEF FiniteSubsetsOf
<1>3. PICK x \in U : \A y \in U : ~(<<y, x>> \in StrictSubsetOrdering(Nat))
  <2> HIDE DEF U
  <2> QED
    BY <1>2, FS_StrictSubsetOrderingWellFounded, WFMin, Zenon
<1>4. PICK m \in T : x = 0..m
  BY Zenon
<1>5. ASSUME NEW n \in T, n < m PROVE FALSE
  <2>1. 0..n \in U
    BY Zenon
  <2>2. 0..n \subseteq 0..m /\ m \in 0..m /\ m \notin 0..n
    BY <1>1, <1>5
  <2>3. <<0..n, 0..m>> \in StrictSubsetOrdering(Nat)
    BY <1>1, <2>2, Zenon DEF StrictSubsetOrdering
  <2> QED
    BY <1>3, <1>4, <2>1, <2>3, Zenon
<1> QED
  BY <1>1, <1>5

\* Induction: a set of natural numbers that has 0 and, with n, n + 1 is all of
\* them.  A claim about every n is used with the set of the n it holds for.
LEMMA Induction ==
  ASSUME NEW G \in SUBSET Nat, 0 \in G, \A n \in G : n + 1 \in G
  PROVE  G = Nat
<1> SUFFICES ASSUME Nat \ G # {} PROVE FALSE
  BY Zenon
<1>1. PICK m \in Nat \ G : \A n \in Nat \ G : m <= n
  BY Least, Zenon
<1>2. m - 1 \in Nat /\ m - 1 \in G
  BY <1>1
<1> QED
  BY <1>1, <1>2

\* Max of a nonempty finite set of numbers is its greatest element.
LEMMA MaxIsGreatest ==
  ASSUME NEW S \in SUBSET Nat, S # {}, NEW b \in Nat, \A x \in S : x <= b
  PROVE  Max(S) \in S /\ \A x \in S : Max(S) >= x
<1> DEFINE T == {n \in Nat : \A x \in S : x <= n}
<1>1. T \in SUBSET Nat /\ T # {}
  BY Zenon
<1>2. PICK m \in T : \A n \in T : m <= n
  BY <1>1, Least, Zenon
<1>3. m \in S
  <2> SUFFICES ASSUME m \notin S PROVE FALSE
    BY Zenon
  <2>1. \A x \in S : x < m
    OBVIOUS
  <2>2. m \in Nat /\ m # 0
    <3>1. PICK y \in S : TRUE
      BY Zenon
    <3>2. y \in Nat /\ m \in Nat /\ y < m
      BY <2>1, Zenon
    <3> QED
      BY <3>2
  <2>4. m - 1 \in Nat /\ \A x \in S : x <= m - 1
    BY <2>1, <2>2
  <2>3. m - 1 \in T
    BY <2>4, Zenon
  <2> QED
    BY <1>2, <2>3
<1>4. \E y \in S : \A x \in S : y >= x
  BY <1>3, Zenon
<1> QED
  BY <1>4, Zenon DEF Max

-----------------------------------------------------------------------------
\* Recursion over the subsets of a finite set S: C[s] is the element taken off
\* the nonempty s, Op[x] combines x with the value for the rest, in V.
Maps(g, S, V) == g \in [SUBSET S -> V]
Picks(C, S) == \A s \in SUBSET S : s # {} => C[s] \in s
Closed(Op, S, V) == \A x \in S, v \in V : Op[x][v] \in V
ObeysAt(g, s, base, C, Op, V) ==
  IF s = {} THEN g[s] = base
            ELSE g[s \ {C[s]}] \in V => g[s] = Op[C[s]][g[s \ {C[s]}]]
Obeys(g, S, base, C, Op, V) == \A s \in SUBSET S : ObeysAt(g, s, base, C, Op, V)

\* There is a function that obeys the recursion,
LEMMA Recursion ==
  ASSUME NEW S, IsFiniteSet(S), NEW V, NEW base \in V, NEW C, Picks(C, S), NEW Op, Closed(Op, S, V)
  PROVE  \E g : Maps(g, S, V) /\ Obeys(g, S, base, C, Op, V)
<1> DEFINE Ok(g, s) == ObeysAt(g, s, base, C, Op, V)
           G == {n \in Nat : \E g \in [SUBSET S -> V] :
                   \A s \in SUBSET S : Cardinality(s) <= n => Ok(g, s)}
<1> USE DEF Picks, Closed, ObeysAt
<1>1. \A s \in SUBSET S : IsFiniteSet(s) /\ Cardinality(s) \in Nat /\ Cardinality(s) <= Cardinality(S)
  BY FS_Subset, FS_CardinalityType, Zenon
<1>2. \A s \in SUBSET S : Cardinality(s) = 0 <=> s = {}
  BY <1>1, FS_EmptySet, Zenon
<1>3. \A s \in SUBSET S : s # {} => /\ C[s] \in S
                                    /\ s \ {C[s]} \in SUBSET S
                                    /\ Cardinality(s \ {C[s]}) = Cardinality(s) - 1
  BY <1>1, FS_RemoveElement, Zenon
<1>4. 0 \in G
  <2> DEFINE g == [s \in SUBSET S |-> base]
  <2>1. g \in [SUBSET S -> V]
    BY Zenon
  <2>2. \A s \in SUBSET S : Cardinality(s) <= 0 => Ok(g, s)
    BY <1>1, <1>2
  <2> QED
    BY <2>1, <2>2, Zenon
<1>5. ASSUME NEW n \in G PROVE n + 1 \in G
  <2>1. PICK g \in [SUBSET S -> V] : \A s \in SUBSET S : Cardinality(s) <= n => Ok(g, s)
    BY Zenon
  <2> DEFINE h == [s \in SUBSET S |-> IF Cardinality(s) = n + 1 THEN Op[C[s]][g[s \ {C[s]}]]
                                                                ELSE g[s]]
  <2>2. n \in Nat
    BY Zenon
  <2>3. h \in [SUBSET S -> V]
    <3> SUFFICES ASSUME NEW s \in SUBSET S, Cardinality(s) = n + 1
                 PROVE  Op[C[s]][g[s \ {C[s]}]] \in V
      BY Zenon
    <3>1. s # {}
      BY <1>2, <2>2
    <3> QED
      BY <3>1, <1>3, Zenon
  <2>4. ASSUME NEW s \in SUBSET S, Cardinality(s) <= n + 1 PROVE Ok(h, s)
    <3>1. CASE s = {}
      <4>1. Cardinality(s) = 0
        BY <3>1, <1>2, Zenon
      <4>2. Ok(g, s)
        <5>1. Cardinality(s) <= n
          BY <4>1, <2>2
        <5> HIDE DEF Ok
        <5> QED
          BY <5>1, <2>1, Zenon
      <4>3. h[s] = g[s]
        BY <4>1, <2>2
      <4> QED
        BY <3>1, <4>2, <4>3, Zenon
    <3>2. CASE s # {}
      <4>1. PICK x \in S : x = C[s]
        BY <3>2, <1>3, Zenon
      <4>2. PICK r \in SUBSET S : r = s \ {x}
        BY Zenon
      <4>3. Cardinality(r) = Cardinality(s) - 1
        BY <3>2, <1>3, <4>1, <4>2, Zenon
      <4>4. h[r] = g[r]
        BY <1>1, <2>2, <2>4, <4>3
      <4>5. h[s] = Op[x][g[r]]
        <5>1. CASE Cardinality(s) = n + 1
          BY <5>1, <4>1, <4>2, Zenon
        <5>2. CASE Cardinality(s) # n + 1
          <6>1. Cardinality(s) <= n
            BY <5>2, <1>1, <2>2, <2>4
          <6>2. Ok(g, s)
            BY <6>1, <2>1, Zenon
          <6> QED
            BY <5>2, <6>2, <3>2, <4>1, <4>2, Zenon
        <5> QED
          BY <5>1, <5>2, Zenon
      <4> QED
        BY <3>2, <4>1, <4>2, <4>4, <4>5, Zenon
    <3> QED
      BY <3>1, <3>2, Zenon
  <2> QED
    <3> HIDE DEF h, Ok
    <3> QED
      BY <2>2, <2>3, <2>4
<1>6. G = Nat
  <2> HIDE DEF G
  <2>1. G \in SUBSET Nat
    BY Zenon DEF G
  <2> QED
    BY <1>4, <1>5, <2>1, Induction, Zenon
<1>7. Cardinality(S) \in G
  BY <1>6, FS_CardinalityType, Zenon
<1> QED
  BY <1>1, <1>7, Zenon DEF Obeys, Maps

\* and two functions that obey it agree on the subsets for which both do.
LEMMA RecursionUnique ==
  ASSUME NEW S, IsFiniteSet(S), NEW V, NEW base, NEW C, Picks(C, S), NEW Op,
         NEW g, Maps(g, S, V), Obeys(g, S, base, C, Op, V), NEW h, Obeys(h, S, base, C, Op, V)
  PROVE  \A s \in SUBSET S : g[s] = h[s]
<1> USE DEF Maps, Picks, Obeys, ObeysAt
<1> DEFINE G == {n \in Nat : \A s \in SUBSET S : Cardinality(s) <= n => g[s] = h[s]}
<1>1. \A s \in SUBSET S : IsFiniteSet(s) /\ Cardinality(s) \in Nat
  BY FS_Subset, FS_CardinalityType, Zenon
<1>2. \A s \in SUBSET S : Cardinality(s) = 0 <=> s = {}
  BY <1>1, FS_EmptySet, Zenon
<1>3. \A s \in SUBSET S : s # {} => /\ s \ {C[s]} \in SUBSET S
                                    /\ Cardinality(s \ {C[s]}) = Cardinality(s) - 1
  BY <1>1, FS_RemoveElement, Zenon
<1>4. 0 \in G
  <2> SUFFICES ASSUME NEW s \in SUBSET S, Cardinality(s) <= 0 PROVE g[s] = h[s]
    BY Zenon
  <2>1. s = {}
    BY <1>1, <1>2
  <2> QED
    BY <2>1, Zenon
<1>5. ASSUME NEW n \in G PROVE n + 1 \in G
  <2>1. n \in Nat
    BY Zenon
  <2>2. ASSUME NEW s \in SUBSET S, Cardinality(s) <= n + 1 PROVE g[s] = h[s]
    <3>1. CASE s = {}
      BY <3>1, Zenon
    <3>2. CASE s # {}
      <4>1. PICK r \in SUBSET S : r = s \ {C[s]} /\ Cardinality(r) = Cardinality(s) - 1
        BY <3>2, <1>3, Zenon
      <4>2. g[r] = h[r]
        BY <4>1, <1>1, <2>1, <2>2
      <4>3. g[s] = Op[C[s]][g[r]]
        BY <3>2, <4>1, Zenon
      <4>4. h[s] = Op[C[s]][h[r]]
        BY <3>2, <4>1, <4>2, Zenon
      <4> QED
        BY <4>2, <4>3, <4>4, Zenon
    <3> QED
      BY <3>1, <3>2, Zenon
  <2> QED
    BY <2>1, <2>2
<1>6. G = Nat
  <2> HIDE DEF G
  <2>1. G \in SUBSET Nat
    BY Zenon DEF G
  <2> QED
    BY <1>4, <1>5, <2>1, Induction, Zenon
<1> QED
  BY <1>1, <1>6
-----------------------------------------------------------------------------
\* SumFunctionOnSet obeys its recursion.
SumPick(S) == [s \in SUBSET S |-> CHOOSE x \in s : TRUE]
SumOp(f, S) == [x \in S |-> [v \in Int |-> f[x] + v]]
Sums(g, f, S) == Maps(g, S, Int) /\ Obeys(g, S, 0, SumPick(S), SumOp(f, S), Int)
Numbers(f, S) == \A x \in S : f[x] \in Int

LEMMA SumObeys ==
  ASSUME NEW S, IsFiniteSet(S), NEW f, Numbers(f, S)
  PROVE  \E g : Sums(g, f, S) /\ SumFunctionOnSet(f, S) = g[S]
<1> DEFINE first(s) == CHOOSE x \in s : TRUE
           rhs(h) == [s \in SUBSET S |-> IF s = {} THEN 0 ELSE f[first(s)] + h[s \ {first(s)}]]
           iter == CHOOSE iter : iter = rhs(iter)
           Ok(h, s) == ObeysAt(h, s, 0, SumPick(S), SumOp(f, S), Int)
<1>1. SumFunctionOnSet(f, S) = iter[S]
  BY Zenon DEF SumFunctionOnSet, FoldFunctionOnSet, MapThenFoldSet
<1>2. \A s \in SUBSET S : SumPick(S)[s] = first(s)
  BY Zenon DEF SumPick
<1>3. Picks(SumPick(S), S)
  BY <1>2, Zenon DEF Picks
<1>4. \A x \in S, v \in Int : SumOp(f, S)[x][v] = f[x] + v
  BY Zenon DEF SumOp
<1>5. Closed(SumOp(f, S), S, Int)
  BY <1>4 DEF Closed, Numbers
<1>6. PICK g : Maps(g, S, Int) /\ Obeys(g, S, 0, SumPick(S), SumOp(f, S), Int)
  <2>1. 0 \in Int
    OBVIOUS
  <2> QED
    BY <1>3, <1>5, <2>1, Recursion, Zenon
<1>7. ASSUME NEW h, NEW s \in SUBSET S, s # {}, h[s \ {first(s)}] \in Int
      PROVE  /\ SumOp(f, S)[SumPick(S)[s]][h[s \ {SumPick(S)[s]}]] = f[first(s)] + h[s \ {first(s)}]
             /\ SumPick(S)[s] = first(s)
  <2>1. PICK x \in S : x = first(s)
    BY <1>7, Zenon
  <2> HIDE DEF first
  <2> QED
    BY <1>2, <1>4, <1>7, <2>1, Zenon
<1> HIDE DEF first
<1>8. g = rhs(g)
  <2>1. ASSUME NEW s \in SUBSET S
        PROVE  g[s] = IF s = {} THEN 0 ELSE f[first(s)] + g[s \ {first(s)}]
    BY <1>2, <1>6, <1>7, Zenon DEF Maps, Obeys, ObeysAt
  <2> QED
    BY <1>6, <2>1, Zenon DEF Maps
<1>9. iter = rhs(iter)
  <2> HIDE DEF rhs
  <2> QED
    BY <1>8, Zenon
<1>10. Obeys(iter, S, 0, SumPick(S), SumOp(f, S), Int)
  <2> HIDE DEF iter
  <2> SUFFICES ASSUME NEW s \in SUBSET S PROVE Ok(iter, s)
    BY Zenon DEF Obeys
  <2>1. iter[s] = IF s = {} THEN 0 ELSE f[first(s)] + iter[s \ {first(s)}]
    BY <1>9, Zenon
  <2> QED
    BY <1>2, <1>7, <2>1, Zenon DEF ObeysAt
<1>11. iter[S] = g[S]
  <2> HIDE DEF iter
  <2>1. \A s \in SUBSET S : g[s] = iter[s]
    BY <1>3, <1>6, <1>10, RecursionUnique
  <2> QED
    BY <2>1, Zenon
<1> QED
  BY <1>1, <1>6, <1>11, Zenon DEF Sums

LEMMA SumUnique ==
  ASSUME NEW S, IsFiniteSet(S), NEW f, NEW g, Sums(g, f, S),
         NEW h, Obeys(h, S, 0, SumPick(S), SumOp(f, S), Int)
  PROVE  \A s \in SUBSET S : g[s] = h[s]
<1>1. Picks(SumPick(S), S)
  BY Zenon DEF Picks, SumPick
<1> QED
  BY <1>1, RecursionUnique DEF Sums

\* Any element may be taken off first,
LEMMA SumAnyOrder ==
  ASSUME NEW S, IsFiniteSet(S), NEW f, Numbers(f, S), NEW g, Sums(g, f, S),
         NEW t \in SUBSET S, NEW z \in t
  PROVE  g[t] = f[z] + g[t \ {z}]
<1> USE DEF Numbers, Sums, Maps
<1> DEFINE G == {n \in Nat : \A s \in SUBSET S : Cardinality(s) <= n =>
                   \A x \in s : g[s] = f[x] + g[s \ {x}]}
<1>1. \A s \in SUBSET S : IsFiniteSet(s) /\ Cardinality(s) \in Nat
  BY FS_Subset, FS_CardinalityType, Zenon
<1>2. \A s \in SUBSET S : Cardinality(s) = 0 <=> s = {}
  BY <1>1, FS_EmptySet, Zenon
<1>3. \A s \in SUBSET S : s # {} =>
        \E y \in s : g[s] = f[y] + g[s \ {y}] /\ Cardinality(s \ {y}) = Cardinality(s) - 1
  <2> SUFFICES ASSUME NEW s \in SUBSET S, s # {}
               PROVE  \E y \in s : /\ g[s] = f[y] + g[s \ {y}]
                                   /\ Cardinality(s \ {y}) = Cardinality(s) - 1
    BY Zenon
  <2>1. PICK y \in s : y = SumPick(S)[s]
    BY Zenon DEF SumPick
  <2>2. PICK v \in Int : v = g[s \ {y}]
    BY Zenon
  <2>3. g[s] = SumOp(f, S)[y][v]
    BY <2>1, <2>2, Zenon DEF Obeys, ObeysAt
  <2>4. g[s] = f[y] + v
    BY <2>3, Zenon DEF SumOp
  <2>5. Cardinality(s \ {y}) = Cardinality(s) - 1
    BY <1>1, FS_RemoveElement, Zenon
  <2> QED
    BY <2>2, <2>4, <2>5, Zenon
<1>4. 0 \in G
  <2> SUFFICES ASSUME NEW s \in SUBSET S, Cardinality(s) <= 0 PROVE s = {}
    BY Zenon
  <2> QED
    BY <1>1, <1>2
<1>5. ASSUME NEW n \in G PROVE n + 1 \in G
  <2>1. n \in Nat
    BY Zenon
  <2>2. ASSUME NEW s \in SUBSET S, Cardinality(s) <= n + 1, NEW x \in s
        PROVE  g[s] = f[x] + g[s \ {x}]
    <3>1. PICK y \in s : g[s] = f[y] + g[s \ {y}] /\ Cardinality(s \ {y}) = Cardinality(s) - 1
      BY <1>3, Zenon
    <3>2. CASE y = x
      BY <3>1, <3>2, Zenon
    <3>3. CASE y # x
      <4>1. PICK a \in SUBSET S : a = s \ {y}
        BY Zenon
      <4>2. PICK b \in SUBSET S : b = s \ {x}
        BY Zenon
      <4>3. PICK c \in SUBSET S : c = s \ {x, y}
        BY Zenon
      <4>4. Cardinality(a) = Cardinality(s) - 1 /\ Cardinality(b) = Cardinality(s) - 1
        BY <1>1, <4>1, <4>2, FS_RemoveElement, Zenon
      <4>5. Cardinality(a) <= n /\ Cardinality(b) <= n
        BY <1>1, <2>1, <2>2, <4>4
      <4>6. x \in a /\ a \ {x} = c /\ y \in b /\ b \ {y} = c
        BY <3>3, <4>1, <4>2, <4>3, Zenon
      <4>7. g[a] = f[x] + g[c]
        BY <4>5, <4>6
      <4>8. g[b] = f[y] + g[c]
        BY <4>5, <4>6
      <4>9. g[s] = f[y] + g[a] /\ f[x] \in Int /\ f[y] \in Int /\ g[c] \in Int
        BY <3>1, <4>1, Zenon
      <4> QED
        BY <4>2, <4>7, <4>8, <4>9
    <3> QED
      BY <3>2, <3>3, Zenon
  <2> QED
    BY <2>1, <2>2
<1>6. G = Nat
  <2> HIDE DEF G
  <2>1. G \in SUBSET Nat
    BY Zenon DEF G
  <2> QED
    BY <1>4, <1>5, <2>1, Induction, Zenon
<1>7. Cardinality(t) \in Nat /\ Cardinality(t) \in G
  BY <1>1, <1>6, Zenon
<1> QED
  BY <1>7

LEMMA SumEmpty == ASSUME NEW f PROVE SumFunctionOnSet(f, {}) = 0
<1>1. IsFiniteSet({})
  BY FS_EmptySet, Zenon
<1>2. PICK g : Sums(g, f, {}) /\ SumFunctionOnSet(f, {}) = g[{}]
  <2>1. Numbers(f, {})
    BY Zenon DEF Numbers
  <2> QED
    BY <1>1, <2>1, SumObeys, Zenon
<1> QED
  BY <1>2, Zenon DEF Sums, Obeys, ObeysAt

\* so a sum over one element more is larger by that element's value.
LEMMA SumOneMore ==
  ASSUME NEW S, IsFiniteSet(S), NEW f, NEW x, x \notin S, Numbers(f, S \cup {x})
  PROVE  /\ SumFunctionOnSet(f, S) \in Int
         /\ SumFunctionOnSet(f, S \cup {x}) = SumFunctionOnSet(f, S) + f[x]
<1>1. PICK T : T = S \cup {x}
  BY Zenon
<1>2. IsFiniteSet(T) /\ S \in SUBSET T /\ T \in SUBSET T /\ x \in T /\ T \ {x} = S
  BY <1>1, FS_AddElement, Zenon
<1>3. Numbers(f, T) /\ Numbers(f, S) /\ f[x] \in Int
  BY <1>1, Zenon DEF Numbers
<1>4. PICK g : Sums(g, f, T) /\ SumFunctionOnSet(f, T) = g[T]
  BY <1>2, <1>3, SumObeys, Zenon
<1>5. PICK h : Sums(h, f, S) /\ SumFunctionOnSet(f, S) = h[S]
  BY <1>3, SumObeys, Zenon
<1>6. Obeys(g, S, 0, SumPick(S), SumOp(f, S), Int)
  <2> SUFFICES ASSUME NEW s \in SUBSET S
               PROVE  ObeysAt(g, s, 0, SumPick(S), SumOp(f, S), Int)
    BY Zenon DEF Obeys, Sums
  <2>1. ObeysAt(g, s, 0, SumPick(T), SumOp(f, T), Int)
    BY <1>2, <1>4, Zenon DEF Obeys, Sums
  <2>2. CASE s = {}
    BY <2>1, <2>2, Zenon DEF ObeysAt
  <2>3. CASE s # {}
    <3>1. PICK y \in s : y = SumPick(S)[s]
      BY <2>3, Zenon DEF SumPick
    <3>2. y = SumPick(T)[s]
      BY <3>1, <1>2, Zenon DEF SumPick
    <3>3. ASSUME NEW v \in Int PROVE SumOp(f, S)[y][v] = SumOp(f, T)[y][v]
      BY <1>2, Zenon DEF SumOp
    <3> QED
      BY <2>1, <2>3, <3>1, <3>2, <3>3, Zenon DEF ObeysAt
  <2> QED
    BY <2>2, <2>3, Zenon
<1>7. h[S] = g[S]
  <2>1. \A s \in SUBSET S : h[s] = g[s]
    BY <1>5, <1>6, SumUnique
  <2> QED
    BY <2>1, Zenon
<1>8. g[T] = f[x] + g[T \ {x}]
  BY <1>2, <1>3, <1>4, SumAnyOrder
<1>9. h[S] \in Int
  BY <1>5, Zenon DEF Sums, Maps
<1>10. g[T] = f[x] + h[S]
  BY <1>2, <1>7, <1>8, Zenon
<1>11. g[T] = h[S] + f[x]
  BY <1>3, <1>9, <1>10
<1> QED
  BY <1>1, <1>4, <1>5, <1>9, <1>11, Zenon
-----------------------------------------------------------------------------
\* FoldLeft over a sequence of length n takes the largest index off first: it
\* runs through the indices in order.  acc[k] is the value after the first k.
MaxPick(n) == [s \in SUBSET (1..n) |-> Max(s)]
Runs(acc, n, base, Op, V) ==
  /\ acc \in [0..n -> V]
  /\ acc[0] = base
  /\ \A k \in 1..n : acc[k] = Op[k][acc[k - 1]]

LEMMA MaxPicks == ASSUME NEW n \in Nat PROVE Picks(MaxPick(n), 1..n)
<1> SUFFICES ASSUME NEW s \in SUBSET (1..n), s # {} PROVE Max(s) \in s
  BY Zenon DEF Picks, MaxPick
<1>1. s \in SUBSET Nat /\ \A x \in s : x <= n
  OBVIOUS
<1> QED
  BY <1>1, MaxIsGreatest, Zenon

LEMMA MaxOfPrefix ==
  ASSUME NEW n \in Nat, NEW k \in 1..n
  PROVE  MaxPick(n)[1..k] = k /\ (1..k) \ {k} = 1..(k - 1) /\ 1..k \in SUBSET (1..n) /\ 1..k # {}
<1>1. 1..k \in SUBSET (1..n) /\ 1..k # {} /\ 1..k \in SUBSET Nat /\ \A x \in 1..k : x <= n
  OBVIOUS
<1>2. PICK m \in 1..k : m = Max(1..k) /\ \A x \in 1..k : m >= x
  BY <1>1, MaxIsGreatest, Zenon
<1>3. k \in 1..k
  OBVIOUS
<1>4. m = k
  BY <1>2, <1>3
<1>5. (1..k) \ {k} = 1..(k - 1)
  OBVIOUS
<1>6. MaxPick(n)[1..k] = Max(1..k)
  BY <1>1, Zenon DEF MaxPick
<1> QED
  BY <1>1, <1>2, <1>4, <1>5, <1>6, Zenon

LEMMA LeftFold ==
  ASSUME NEW n \in Nat, NEW V, NEW base \in V, NEW Op, Closed(Op, 1..n, V),
         NEW iter, Obeys(iter, 1..n, base, MaxPick(n), Op, V)
  PROVE  \E acc : Runs(acc, n, base, Op, V) /\ acc[n] = iter[1..n]
<1>1. IsFiniteSet(1..n)
  BY FS_Interval
<1>2. PICK g : Maps(g, 1..n, V) /\ Obeys(g, 1..n, base, MaxPick(n), Op, V)
  BY <1>1, MaxPicks, Recursion, Zenon
<1>3. \A s \in SUBSET (1..n) : g[s] = iter[s]
  <2>1. PICK I, C : I = 1..n /\ C = MaxPick(n)
    BY Zenon
  <2>2. /\ IsFiniteSet(I) /\ Picks(C, I) /\ Maps(g, I, V)
        /\ Obeys(g, I, base, C, Op, V) /\ Obeys(iter, I, base, C, Op, V)
    BY <1>1, <1>2, <2>1, MaxPicks, Zenon
  <2>3. \A s \in SUBSET I : g[s] = iter[s]
    BY <2>2, RecursionUnique
  <2> QED
    BY <2>1, <2>3, Zenon
<1> DEFINE acc == [k \in 0..n |-> g[1..k]]
<1>4. acc \in [0..n -> V]
  <2>1. \A k \in 0..n : 1..k \in SUBSET (1..n)
    OBVIOUS
  <2> QED
    BY <1>2, <2>1, Zenon DEF Maps
<1>5. acc[0] = base
  <2>1. 1..0 = {} /\ {} \in SUBSET (1..n) /\ 0 \in 0..n
    OBVIOUS
  <2>2. g[{}] = base
    BY <1>2, <2>1, Zenon DEF Obeys, ObeysAt
  <2> QED
    BY <2>1, <2>2, Zenon
<1>6. ASSUME NEW k \in 1..n PROVE acc[k] = Op[k][acc[k - 1]]
  <2>1. PICK s \in SUBSET (1..n) : s = 1..k
    BY MaxOfPrefix, Zenon
  <2>2. PICK r \in SUBSET (1..n) : r = 1..(k - 1)
    OBVIOUS
  <2>3. MaxPick(n)[s] = k /\ s \ {k} = r /\ s # {}
    BY <2>1, <2>2, MaxOfPrefix, Zenon
  <2>4. ObeysAt(g, s, base, MaxPick(n), Op, V) /\ g[r] \in V
    BY <1>2, Zenon DEF Obeys, Maps
  <2>5. g[s] = Op[k][g[r]]
    BY <2>3, <2>4, Zenon DEF ObeysAt
  <2>6. k \in 0..n /\ k - 1 \in 0..n /\ acc[k] = g[s] /\ acc[k - 1] = g[r]
    BY <2>1, <2>2
  <2> QED
    BY <2>5, <2>6, Zenon
<1>7. acc[n] = iter[1..n]
  BY <1>3
<1> QED
  <2> HIDE DEF acc
  <2> QED
    BY <1>4, <1>5, <1>6, <1>7, Zenon DEF Runs
=============================================================================
