----------------------- MODULE SeqlockFastpathProofs -----------------------
(***************************************************************************)
(* Proofs about SeqlockFastpath, for any set of threads, any policy and    *)
(* any number of operations below the wrap-around of the sequence.         *)
(*                                                                         *)
(* The inductive invariant says what the thread inside the writer gate has *)
(* done to the sequence and the snapshot (WriterPhase), that everything is *)
(* settled while nobody is inside (Settled), and what a reader in its loop *)
(* may conclude (ReaderPhase).                                             *)
(***************************************************************************)
EXTENDS SeqlockFastpath, FiniteSetTheorems, TLAPS

GatePcs == PublishPcs \cup SeedPcs

\* The mutex excludes: exactly its holder is inside publish or seed.
GateOwner == \A t \in Threads : writer_gate = t <=> pc[t] \in GatePcs

\* No write is in progress: the sequence is even and the content is visible.
Settled == /\ sequence % 2 = 0
           /\ sequence <= 2 * tickets
           /\ committed = snapshot
           /\ (initialized => tickets > 0) /\ (tickets > 0 => initialized)
           /\ tickets > 0 => snapshot # None

\* What the gate's holder has done so far, by program point.
WriterPhase(t) ==
  /\ pc[t] \in GatePcs \ {"s_recheck"} => next[t] \in 1 .. tickets
  /\ pc[t] \in {"p_odd", "p_lock", "p_store"} =>
       /\ committed = snapshot
       /\ (initialized => tickets > 1) /\ (tickets > 1 => initialized)
       /\ initialized => snapshot # None
  /\ pc[t] = "p_odd" => sequence % 2 = 0 /\ sequence + 2 <= 2 * tickets
  /\ pc[t] \in {"p_lock", "p_store", "p_init", "p_even"} =>
       /\ start[t] % 2 = 0
       /\ sequence = start[t] + 1
       /\ start[t] + 2 <= 2 * tickets
  /\ pc[t] \in {"p_init", "p_even"} => snapshot = next[t]
  /\ pc[t] = "p_init" => ((initialized => tickets > 1) /\ (tickets > 1 => initialized))
  /\ pc[t] = "p_even" => initialized
  /\ pc[t] \in {"p_count", "s_recheck"} => Settled
  /\ pc[t] \in {"s_lock", "s_store", "s_init"} =>
       /\ ~initialized
       /\ tickets = 1
       /\ sequence = 0
  /\ pc[t] = "s_init" => snapshot = next[t]

\* What a reader has seen: its start is even and not ahead of the sequence,
\* and while the sequence has not moved its clone is the visible content.
ReaderPhase(t) ==
  /\ pc[t] \in LoopPcs => initialized /\ snapshot # None
  /\ pc[t] \in LoopPcs => attempts[t] <= MaxRetries
                          /\ pressure[t] <= MaxWriterPressure
  /\ pc[t] \in {"r_lock", "r_clone", "r_validate"} =>
       start[t] % 2 = 0 /\ start[t] <= sequence
  /\ pc[t] = "r_validate" /\ start[t] = sequence => cloned[t] = committed

\* A read is pending exactly while its thread is inside read_clone_or_else.
ResultPhase(t) == result[t] = Pending <=> pc[t] \in ReadPcs

IInv == /\ TypeOK
        /\ GateOwner
        /\ writer_gate = NoThread => Settled
        /\ \A t \in Threads : WriterPhase(t)
        /\ \A t \in Threads : ReaderPhase(t)
        /\ \A t \in Threads : ResultPhase(t)

USE NoThreadAssumption, BoundsAssumption, NoWrapAssumption

LEMMA InitIInv == Init => IInv
<1> SUFFICES ASSUME Init PROVE IInv
  BY Zenon
<1> USE DEF Init, None
<1>1. result \in [Threads -> Results]
  BY DEF NotRead, Results
<1>2. /\ initialized \in BOOLEAN /\ rwReaders \in SUBSET Threads
      /\ {writer_gate, rwWriter} \subseteq Threads \cup {NoThread}
      /\ tele \in [Counters -> Nat] /\ pc \in [Threads -> Pcs]
  BY Zenon DEF Pcs
<1>3. /\ sequence \in 0 .. SeqModulus - 1
      /\ {snapshot, tickets, committed} \subseteq 0 .. MaxWrites
  OBVIOUS
<1>4. /\ start \in [Threads -> 0 .. SeqModulus - 1]
      /\ attempts \in [Threads -> 0 .. MaxRetries + 1]
      /\ pressure \in [Threads -> 0 .. MaxWriterPressure + 1]
  OBVIOUS
<1>5. cloned \in [Threads -> 0 .. MaxWrites] /\ next \in [Threads -> 0 .. MaxWrites]
  OBVIOUS
<1>6. TypeOK
  BY <1>1, <1>2, <1>3, <1>4, <1>5, Zenon DEF TypeOK
<1>7. GateOwner /\ Settled
  BY DEF GateOwner, Settled, GatePcs, PublishPcs, SeedPcs
<1>8. ASSUME NEW t \in Threads
      PROVE WriterPhase(t) /\ ReaderPhase(t) /\ ResultPhase(t)
  BY Zenon DEF WriterPhase, ReaderPhase, ResultPhase, GatePcs, PublishPcs, SeedPcs,
         ReadPcs, LoopPcs, NotRead, Pending
<1> QED
  BY <1>6, <1>7, <1>8, Zenon DEF IInv

\* Two increments keep the counters' type.
LEMMA CountTwo ==
  ASSUME NEW f \in [Counters -> Nat], NEW c \in Counters, NEW d \in Counters
  PROVE [f EXCEPT ![c] = @ + 1, ![d] = @ + 1] \in [Counters -> Nat]
<1>1. [f EXCEPT ![c] = @ + 1] \in [Counters -> Nat]
  OBVIOUS
<1> QED
  BY <1>1

LEMMA FallbackCounts ==
  ASSUME tele \in [Counters -> Nat], NEW c \in Counters, CountFallback(c)
  PROVE tele' \in [Counters -> Nat]
<1>1. "fallback_reads" \in Counters
  BY Zenon DEF Counters
<1> QED
  BY <1>1, CountTwo, Zenon DEF CountFallback

LEMMA PressureCounts ==
  ASSUME tele \in [Counters -> Nat]
  PROVE [tele EXCEPT !.total_retries = @ + 1,
                     !.writer_pressure_observations = @ + 1] \in [Counters -> Nat]
<1>1. "total_retries" \in Counters /\ "writer_pressure_observations" \in Counters
  BY Zenon DEF Counters
<1> QED
  BY <1>1, CountTwo, Zenon

LEMMA FallbackIsResult == Fallback \in Results
BY DEF Fallback, Results, None

LEMMA PublishLockGateStep == ASSUME IInv, NEW t \in Threads, PublishLockGate(t) PROVE IInv'
<1> USE DEF PublishLockGate, Goto, shared, locals, ghosts, IInv, None
<1>1. TypeOK'
  BY DEF TypeOK, Results, WriterPhase, ReaderPhase, Settled, Pcs, ReadPcs, LoopPcs,
     PublishPcs, SeedPcs, GatePcs
<1>2. GateOwner'
  BY Zenon DEF TypeOK, GateOwner, GatePcs, PublishPcs, SeedPcs, ReadPcs
<1>3. (writer_gate = NoThread => Settled)'
  BY Zenon DEF TypeOK, GateOwner, Settled, WriterPhase, GatePcs, PublishPcs, SeedPcs
<1>4. ASSUME NEW u \in Threads PROVE WriterPhase(u)'
  BY DEF TypeOK, GateOwner, WriterPhase, GatePcs, PublishPcs, SeedPcs, Settled
<1>5. ASSUME NEW u \in Threads PROVE ReaderPhase(u)'
  BY Zenon DEF TypeOK, GateOwner, ReaderPhase, WriterPhase, LoopPcs, GatePcs,
     PublishPcs, SeedPcs, Settled
<1>6. ASSUME NEW u \in Threads PROVE ResultPhase(u)'
  BY Zenon DEF TypeOK, ResultPhase, ReadPcs, Pending
<1> QED
  BY <1>1, <1>2, <1>3, <1>4, <1>5, <1>6, Zenon DEF IInv

LEMMA PublishOddStep == ASSUME IInv, NEW t \in Threads, PublishOdd(t) PROVE IInv'
<1> USE DEF PublishOdd, Goto, shared, locals, ghosts, IInv, None
<1>1. TypeOK'
  BY DEF TypeOK, Results, WriterPhase, ReaderPhase, Settled, Pcs, ReadPcs, LoopPcs,
     PublishPcs, SeedPcs, GatePcs
<1>2. GateOwner'
  BY Zenon DEF TypeOK, GateOwner, GatePcs, PublishPcs, SeedPcs, ReadPcs
<1>3. (writer_gate = NoThread => Settled)'
  BY Zenon DEF TypeOK, GateOwner, Settled, WriterPhase, GatePcs, PublishPcs, SeedPcs
<1>4. ASSUME NEW u \in Threads PROVE WriterPhase(u)'
  <2>1. /\ pc[t] = "p_odd" /\ pc'[t] = "p_lock" /\ next'[t] = next[t]
        /\ u # t => pc'[u] = pc[u]
    BY Zenon DEF TypeOK
  <2>2. CASE u = t
    <3>1. /\ next[t] \in 1 .. tickets
          /\ sequence % 2 = 0 /\ sequence + 2 <= 2 * tickets
      BY <2>1, Zenon DEF WriterPhase, GatePcs, PublishPcs
    <3>2. sequence' = sequence + 1 /\ start'[t] = sequence
      BY <3>1 DEF TypeOK
    <3> QED
      BY <2>1, <2>2, <3>1, <3>2 DEF WriterPhase, GatePcs, PublishPcs
  <2>3. CASE u # t
    <3>1. pc'[u] \notin GatePcs
      BY <2>1, <2>3, Zenon DEF GateOwner, GatePcs, PublishPcs
    <3> QED
      BY <3>1, Zenon DEF WriterPhase, GatePcs, PublishPcs, SeedPcs
  <2> QED
    BY <2>2, <2>3, Zenon
<1>5. ASSUME NEW u \in Threads PROVE ReaderPhase(u)'
  <2>1. /\ pc[t] = "p_odd" /\ pc'[t] = "p_lock"
        /\ u # t => pc'[u] = pc[u] /\ start'[u] = start[u]
    BY Zenon DEF TypeOK
  <2>2. sequence' = sequence + 1 /\ sequence \in Nat /\ start[u] \in Nat
    <3>1. sequence + 2 <= 2 * tickets
      BY <2>1, Zenon DEF WriterPhase
    <3> QED
      BY <3>1 DEF TypeOK
  <2>3. CASE u = t
    BY <2>1, <2>3, Zenon DEF ReaderPhase, LoopPcs
  <2>4. CASE u # t
    BY <2>1, <2>2, <2>4 DEF ReaderPhase
  <2> QED
    BY <2>3, <2>4, Zenon
<1>6. ASSUME NEW u \in Threads PROVE ResultPhase(u)'
  BY Zenon DEF TypeOK, ResultPhase, ReadPcs, Pending
<1> QED
  BY <1>1, <1>2, <1>3, <1>4, <1>5, <1>6, Zenon DEF IInv

LEMMA WriteLockStep == ASSUME IInv, NEW t \in Threads, WriteLock(t) PROVE IInv'
<1> USE DEF WriteLock, Goto, shared, locals, ghosts, IInv, None
<1>1. TypeOK'
  BY DEF TypeOK, Results, WriterPhase, ReaderPhase, Settled, Pcs, ReadPcs, LoopPcs,
     PublishPcs, SeedPcs, GatePcs
<1>2. GateOwner'
  BY Zenon DEF TypeOK, GateOwner, GatePcs, PublishPcs, SeedPcs, ReadPcs
<1>3. (writer_gate = NoThread => Settled)'
  BY Zenon DEF TypeOK, GateOwner, Settled, WriterPhase, GatePcs, PublishPcs, SeedPcs
<1>4. ASSUME NEW u \in Threads PROVE WriterPhase(u)'
  BY DEF TypeOK, GateOwner, WriterPhase, GatePcs, PublishPcs, SeedPcs, Settled
<1>5. ASSUME NEW u \in Threads PROVE ReaderPhase(u)'
  BY DEF TypeOK, GateOwner, ReaderPhase, WriterPhase, LoopPcs, GatePcs, PublishPcs,
     SeedPcs, Settled
<1>6. ASSUME NEW u \in Threads PROVE ResultPhase(u)'
  BY Zenon DEF TypeOK, ResultPhase, ReadPcs, Pending
<1> QED
  BY <1>1, <1>2, <1>3, <1>4, <1>5, <1>6, Zenon DEF IInv

LEMMA WriteSnapshotStep == ASSUME IInv, NEW t \in Threads, WriteSnapshot(t) PROVE IInv'
<1> USE DEF WriteSnapshot, Goto, shared, locals, ghosts, IInv, None
<1>1. TypeOK'
  BY Zenon DEF TypeOK, Results, WriterPhase, ReaderPhase, Settled, Pcs, ReadPcs,
     LoopPcs, PublishPcs, SeedPcs, GatePcs
<1>2. GateOwner'
  BY Zenon DEF TypeOK, GateOwner, GatePcs, PublishPcs, SeedPcs, ReadPcs
<1>3. (writer_gate = NoThread => Settled)'
  BY Zenon DEF TypeOK, GateOwner, Settled, WriterPhase, GatePcs, PublishPcs, SeedPcs
<1>4. ASSUME NEW u \in Threads PROVE WriterPhase(u)'
  BY DEF TypeOK, GateOwner, WriterPhase, GatePcs, PublishPcs, SeedPcs, Settled
<1>5. ASSUME NEW u \in Threads PROVE ReaderPhase(u)'
  BY DEF TypeOK, GateOwner, ReaderPhase, WriterPhase, LoopPcs, GatePcs, PublishPcs,
     SeedPcs, Settled
<1>6. ASSUME NEW u \in Threads PROVE ResultPhase(u)'
  BY Zenon DEF TypeOK, ResultPhase, ReadPcs, Pending
<1> QED
  BY <1>1, <1>2, <1>3, <1>4, <1>5, <1>6, Zenon DEF IInv

LEMMA PublishInitStep == ASSUME IInv, NEW t \in Threads, PublishInit(t) PROVE IInv'
<1> USE DEF PublishInit, Goto, shared, locals, ghosts, IInv, None
<1>1. TypeOK'
  BY Zenon DEF TypeOK, Results, WriterPhase, ReaderPhase, Settled, Pcs, ReadPcs,
     LoopPcs, PublishPcs, SeedPcs, GatePcs
<1>2. GateOwner'
  BY Zenon DEF TypeOK, GateOwner, GatePcs, PublishPcs, SeedPcs, ReadPcs
<1>3. (writer_gate = NoThread => Settled)'
  BY Zenon DEF TypeOK, GateOwner, Settled, WriterPhase, GatePcs, PublishPcs, SeedPcs
<1>4. ASSUME NEW u \in Threads PROVE WriterPhase(u)'
  BY DEF TypeOK, GateOwner, WriterPhase, GatePcs, PublishPcs, SeedPcs, Settled
<1>5. ASSUME NEW u \in Threads PROVE ReaderPhase(u)'
  BY Zenon DEF TypeOK, GateOwner, ReaderPhase, WriterPhase, LoopPcs, GatePcs,
     PublishPcs, SeedPcs, Settled
<1>6. ASSUME NEW u \in Threads PROVE ResultPhase(u)'
  BY Zenon DEF TypeOK, ResultPhase, ReadPcs, Pending
<1> QED
  BY <1>1, <1>2, <1>3, <1>4, <1>5, <1>6, Zenon DEF IInv

LEMMA PublishEvenStep == ASSUME IInv, NEW t \in Threads, PublishEven(t) PROVE IInv'
<1> USE DEF PublishEven, Goto, shared, locals, ghosts, IInv, None
<1>1. TypeOK'
  BY DEF TypeOK, Results, WriterPhase, ReaderPhase, Settled, Pcs, ReadPcs, LoopPcs,
     PublishPcs, SeedPcs, GatePcs
<1>2. GateOwner'
  BY Zenon DEF TypeOK, GateOwner, GatePcs, PublishPcs, SeedPcs, ReadPcs
<1>3. (writer_gate = NoThread => Settled)'
  BY Zenon DEF TypeOK, GateOwner, Settled, WriterPhase, GatePcs, PublishPcs, SeedPcs
<1>4. ASSUME NEW u \in Threads PROVE WriterPhase(u)'
  BY DEF TypeOK, GateOwner, WriterPhase, GatePcs, PublishPcs, SeedPcs, Settled
<1>5. ASSUME NEW u \in Threads PROVE ReaderPhase(u)'
  BY DEF TypeOK, GateOwner, ReaderPhase, WriterPhase, LoopPcs, GatePcs, PublishPcs,
     SeedPcs, Settled
<1>6. ASSUME NEW u \in Threads PROVE ResultPhase(u)'
  BY Zenon DEF TypeOK, ResultPhase, ReadPcs, Pending
<1> QED
  BY <1>1, <1>2, <1>3, <1>4, <1>5, <1>6, Zenon DEF IInv

LEMMA PublishReturnStep == ASSUME IInv, NEW t \in Threads, PublishReturn(t) PROVE IInv'
<1> USE DEF PublishReturn, Goto, shared, locals, ghosts, IInv, None
<1>1. TypeOK'
  BY DEF TypeOK, Results, WriterPhase, ReaderPhase, Settled, Pcs, ReadPcs, LoopPcs,
     PublishPcs, SeedPcs, GatePcs
<1>2. GateOwner'
  BY Zenon DEF TypeOK, GateOwner, GatePcs, PublishPcs, SeedPcs, ReadPcs
<1>3. (writer_gate = NoThread => Settled)'
  BY Zenon DEF TypeOK, GateOwner, Settled, WriterPhase, GatePcs, PublishPcs, SeedPcs
<1>4. ASSUME NEW u \in Threads PROVE WriterPhase(u)'
  BY Zenon DEF TypeOK, GateOwner, WriterPhase, GatePcs, PublishPcs, SeedPcs, Settled
<1>5. ASSUME NEW u \in Threads PROVE ReaderPhase(u)'
  BY Zenon DEF TypeOK, GateOwner, ReaderPhase, WriterPhase, LoopPcs, GatePcs,
     PublishPcs, SeedPcs, Settled
<1>6. ASSUME NEW u \in Threads PROVE ResultPhase(u)'
  BY Zenon DEF TypeOK, ResultPhase, ReadPcs, Pending
<1> QED
  BY <1>1, <1>2, <1>3, <1>4, <1>5, <1>6, Zenon DEF IInv

LEMMA SeedCallStep == ASSUME IInv, NEW t \in Threads, SeedCall(t) PROVE IInv'
<1> USE DEF SeedCall, Goto, shared, locals, ghosts, IInv, None
<1>1. TypeOK'
  BY Zenon DEF TypeOK, Results, WriterPhase, ReaderPhase, Settled, Pcs, ReadPcs,
     LoopPcs, PublishPcs, SeedPcs, GatePcs
<1>2. GateOwner'
  BY Zenon DEF TypeOK, GateOwner, GatePcs, PublishPcs, SeedPcs, ReadPcs
<1>3. (writer_gate = NoThread => Settled)'
  BY Zenon DEF TypeOK, GateOwner, Settled, WriterPhase, GatePcs, PublishPcs, SeedPcs
<1>4. ASSUME NEW u \in Threads PROVE WriterPhase(u)'
  BY Zenon DEF TypeOK, GateOwner, WriterPhase, GatePcs, PublishPcs, SeedPcs, Settled
<1>5. ASSUME NEW u \in Threads PROVE ReaderPhase(u)'
  BY Zenon DEF TypeOK, GateOwner, ReaderPhase, WriterPhase, LoopPcs, GatePcs,
     PublishPcs, SeedPcs, Settled
<1>6. ASSUME NEW u \in Threads PROVE ResultPhase(u)'
  BY Zenon DEF TypeOK, ResultPhase, ReadPcs, Pending
<1> QED
  BY <1>1, <1>2, <1>3, <1>4, <1>5, <1>6, Zenon DEF IInv

LEMMA SeedLockGateStep == ASSUME IInv, NEW t \in Threads, SeedLockGate(t) PROVE IInv'
<1> USE DEF SeedLockGate, Goto, shared, locals, ghosts, IInv, None
<1>1. TypeOK'
  BY Zenon DEF TypeOK, Results, WriterPhase, ReaderPhase, Settled, Pcs, ReadPcs,
     LoopPcs, PublishPcs, SeedPcs, GatePcs
<1>2. GateOwner'
  BY Zenon DEF TypeOK, GateOwner, GatePcs, PublishPcs, SeedPcs, ReadPcs
<1>3. (writer_gate = NoThread => Settled)'
  BY Zenon DEF TypeOK, GateOwner, Settled, WriterPhase, GatePcs, PublishPcs, SeedPcs
<1>4. ASSUME NEW u \in Threads PROVE WriterPhase(u)'
  BY Zenon DEF TypeOK, GateOwner, WriterPhase, GatePcs, PublishPcs, SeedPcs, Settled
<1>5. ASSUME NEW u \in Threads PROVE ReaderPhase(u)'
  BY Zenon DEF TypeOK, GateOwner, ReaderPhase, WriterPhase, LoopPcs, GatePcs,
     PublishPcs, SeedPcs, Settled
<1>6. ASSUME NEW u \in Threads PROVE ResultPhase(u)'
  BY Zenon DEF TypeOK, ResultPhase, ReadPcs, Pending
<1> QED
  BY <1>1, <1>2, <1>3, <1>4, <1>5, <1>6, Zenon DEF IInv

LEMMA SeedRecheckStep == ASSUME IInv, NEW t \in Threads, SeedRecheck(t) PROVE IInv'
<1> USE DEF SeedRecheck, Goto, shared, locals, ghosts, IInv, None, SeedWins
<1>1. TypeOK'
  <2>1. tickets' \in 0 .. MaxWrites
    BY DEF TypeOK, WriterPhase, Settled
  <2>2. next' \in [Threads -> 0 .. MaxWrites]
    BY <2>1 DEF TypeOK
  <2>3. pc' \in [Threads -> Pcs] /\ writer_gate' \in Threads \cup {NoThread}
    BY Zenon DEF TypeOK, Pcs, SeedPcs
  <2> QED
    BY <2>1, <2>2, <2>3, Zenon DEF TypeOK
<1>2. GateOwner'
  BY DEF TypeOK, GateOwner, GatePcs, PublishPcs, SeedPcs, ReadPcs
<1>3. (writer_gate = NoThread => Settled)'
  BY DEF TypeOK, GateOwner, Settled, WriterPhase, GatePcs, PublishPcs, SeedPcs
<1>4. ASSUME NEW u \in Threads PROVE WriterPhase(u)'
  BY DEF TypeOK, GateOwner, WriterPhase, GatePcs, PublishPcs, SeedPcs, Settled
<1>5. ASSUME NEW u \in Threads PROVE ReaderPhase(u)'
  BY DEF TypeOK, GateOwner, ReaderPhase, WriterPhase, LoopPcs, GatePcs, PublishPcs,
     SeedPcs, Settled
<1>6. ASSUME NEW u \in Threads PROVE ResultPhase(u)'
  BY DEF TypeOK, ResultPhase, ReadPcs, Pending
<1> QED
  BY <1>1, <1>2, <1>3, <1>4, <1>5, <1>6, Zenon DEF IInv

LEMMA SeedInitStep == ASSUME IInv, NEW t \in Threads, SeedInit(t) PROVE IInv'
<1> USE DEF SeedInit, Goto, shared, locals, ghosts, IInv, None
<1>1. TypeOK'
  BY Zenon DEF TypeOK, Results, WriterPhase, ReaderPhase, Settled, Pcs, ReadPcs,
     LoopPcs, PublishPcs, SeedPcs, GatePcs
<1>2. GateOwner'
  BY Zenon DEF TypeOK, GateOwner, GatePcs, PublishPcs, SeedPcs, ReadPcs
<1>3. (writer_gate = NoThread => Settled)'
  BY DEF TypeOK, GateOwner, Settled, WriterPhase, GatePcs, PublishPcs, SeedPcs
<1>4. ASSUME NEW u \in Threads PROVE WriterPhase(u)'
  BY DEF TypeOK, GateOwner, WriterPhase, GatePcs, PublishPcs, SeedPcs, Settled
<1>5. ASSUME NEW u \in Threads PROVE ReaderPhase(u)'
  BY Zenon DEF TypeOK, GateOwner, ReaderPhase, WriterPhase, LoopPcs, GatePcs,
     PublishPcs, SeedPcs, Settled
<1>6. ASSUME NEW u \in Threads PROVE ResultPhase(u)'
  BY Zenon DEF TypeOK, ResultPhase, ReadPcs, Pending
<1> QED
  BY <1>1, <1>2, <1>3, <1>4, <1>5, <1>6, Zenon DEF IInv

LEMMA ReadCallStep == ASSUME IInv, NEW t \in Threads, ReadCall(t) PROVE IInv'
<1> USE DEF ReadCall, Goto, shared, locals, ghosts, IInv, None, Pending
<1>1. TypeOK'
  BY DEF TypeOK, Results, WriterPhase, ReaderPhase, Settled, Pcs, ReadPcs, LoopPcs,
     PublishPcs, SeedPcs, GatePcs
<1>2. GateOwner'
  BY Zenon DEF TypeOK, GateOwner, GatePcs, PublishPcs, SeedPcs, ReadPcs
<1>3. (writer_gate = NoThread => Settled)'
  BY Zenon DEF TypeOK, GateOwner, Settled, WriterPhase, GatePcs, PublishPcs, SeedPcs
<1>4. ASSUME NEW u \in Threads PROVE WriterPhase(u)'
  BY Zenon DEF TypeOK, GateOwner, WriterPhase, GatePcs, PublishPcs, SeedPcs, Settled
<1>5. ASSUME NEW u \in Threads PROVE ReaderPhase(u)'
  BY Zenon DEF TypeOK, GateOwner, ReaderPhase, WriterPhase, LoopPcs, GatePcs,
     PublishPcs, SeedPcs, Settled
<1>6. ASSUME NEW u \in Threads PROVE ResultPhase(u)'
  BY Zenon DEF TypeOK, ResultPhase, ReadPcs, Pending
<1> QED
  BY <1>1, <1>2, <1>3, <1>4, <1>5, <1>6, Zenon DEF IInv

LEMMA ReadCheckInitStep == ASSUME IInv, NEW t \in Threads, ReadCheckInit(t) PROVE IInv'
<1> USE DEF ReadCheckInit, Goto, shared, locals, ghosts, IInv, None
<1>1. TypeOK'
  BY DEF TypeOK, Results, WriterPhase, ReaderPhase, Settled, Pcs, ReadPcs, LoopPcs,
     PublishPcs, SeedPcs, GatePcs
<1>2. GateOwner'
  BY Zenon DEF TypeOK, GateOwner, GatePcs, PublishPcs, SeedPcs, ReadPcs
<1>3. (writer_gate = NoThread => Settled)'
  BY Zenon DEF TypeOK, GateOwner, Settled, WriterPhase, GatePcs, PublishPcs, SeedPcs
<1>4. ASSUME NEW u \in Threads PROVE WriterPhase(u)'
  BY Zenon DEF TypeOK, GateOwner, WriterPhase, GatePcs, PublishPcs, SeedPcs, Settled
<1>5. ASSUME NEW u \in Threads PROVE ReaderPhase(u)'
  BY DEF TypeOK, GateOwner, ReaderPhase, WriterPhase, LoopPcs, GatePcs, PublishPcs,
     SeedPcs, Settled
<1>6. ASSUME NEW u \in Threads PROVE ResultPhase(u)'
  BY Zenon DEF TypeOK, ResultPhase, ReadPcs, Pending
<1> QED
  BY <1>1, <1>2, <1>3, <1>4, <1>5, <1>6, Zenon DEF IInv

LEMMA ReadLoadStartStep == ASSUME IInv, NEW t \in Threads, ReadLoadStart(t) PROVE IInv'
<1> USE DEF ReadLoadStart, Goto, shared, locals, ghosts, IInv, None
<1>1. TypeOK'
  <2>1. start' \in [Threads -> 0 .. SeqModulus - 1]
    BY Zenon DEF TypeOK
  <2>2. tele' \in [Counters -> Nat]
    <3>1. CASE sequence % 2 = 1
      BY <3>1, PressureCounts, Zenon DEF TypeOK
    <3>2. CASE sequence % 2 # 1
      BY <3>2, Zenon DEF TypeOK
    <3> QED
      BY <3>1, <3>2, Zenon
  <2>3. pressure' \in [Threads -> 0 .. MaxWriterPressure + 1]
    BY DEF TypeOK, ReaderPhase, LoopPcs
  <2>4. pc' \in [Threads -> Pcs]
    BY DEF TypeOK, Pcs, ReadPcs
  <2> QED
    BY <2>1, <2>2, <2>3, <2>4, Zenon DEF TypeOK
<1>2. GateOwner'
  BY DEF TypeOK, GateOwner, GatePcs, PublishPcs, SeedPcs, ReadPcs
<1>3. (writer_gate = NoThread => Settled)'
  BY Zenon DEF TypeOK, GateOwner, Settled, WriterPhase, GatePcs, PublishPcs, SeedPcs
<1>4. ASSUME NEW u \in Threads PROVE WriterPhase(u)'
  BY DEF TypeOK, GateOwner, WriterPhase, GatePcs, PublishPcs, SeedPcs, Settled
<1>5. ASSUME NEW u \in Threads PROVE ReaderPhase(u)'
  BY DEF TypeOK, GateOwner, ReaderPhase, WriterPhase, LoopPcs, GatePcs, PublishPcs,
     SeedPcs, Settled
<1>6. ASSUME NEW u \in Threads PROVE ResultPhase(u)'
  BY Zenon DEF TypeOK, ResultPhase, ReadPcs, Pending
<1> QED
  BY <1>1, <1>2, <1>3, <1>4, <1>5, <1>6, Zenon DEF IInv

LEMMA ReadLockStep == ASSUME IInv, NEW t \in Threads, ReadLock(t) PROVE IInv'
<1> USE DEF ReadLock, Goto, shared, locals, ghosts, IInv, None
<1>1. TypeOK'
  BY Zenon DEF TypeOK, Results, WriterPhase, ReaderPhase, Settled, Pcs, ReadPcs,
     LoopPcs, PublishPcs, SeedPcs, GatePcs
<1>2. GateOwner'
  BY Zenon DEF TypeOK, GateOwner, GatePcs, PublishPcs, SeedPcs, ReadPcs
<1>3. (writer_gate = NoThread => Settled)'
  BY Zenon DEF TypeOK, GateOwner, Settled, WriterPhase, GatePcs, PublishPcs, SeedPcs
<1>4. ASSUME NEW u \in Threads PROVE WriterPhase(u)'
  BY Zenon DEF TypeOK, GateOwner, WriterPhase, GatePcs, PublishPcs, SeedPcs, Settled
<1>5. ASSUME NEW u \in Threads PROVE ReaderPhase(u)'
  BY Zenon DEF TypeOK, GateOwner, ReaderPhase, WriterPhase, LoopPcs, GatePcs,
     PublishPcs, SeedPcs, Settled
<1>6. ASSUME NEW u \in Threads PROVE ResultPhase(u)'
  BY Zenon DEF TypeOK, ResultPhase, ReadPcs, Pending
<1> QED
  BY <1>1, <1>2, <1>3, <1>4, <1>5, <1>6, Zenon DEF IInv

LEMMA ReadCloneStep == ASSUME IInv, NEW t \in Threads, ReadClone(t) PROVE IInv'
<1> USE DEF ReadClone, Goto, shared, locals, ghosts, IInv, None
<1>1. TypeOK'
  BY Zenon DEF TypeOK, Results, WriterPhase, ReaderPhase, Settled, Pcs, ReadPcs,
     LoopPcs, PublishPcs, SeedPcs, GatePcs
<1>2. GateOwner'
  BY Zenon DEF TypeOK, GateOwner, GatePcs, PublishPcs, SeedPcs, ReadPcs
<1>3. (writer_gate = NoThread => Settled)'
  BY Zenon DEF TypeOK, GateOwner, Settled, WriterPhase, GatePcs, PublishPcs, SeedPcs
<1>4. ASSUME NEW u \in Threads PROVE WriterPhase(u)'
  BY Zenon DEF TypeOK, GateOwner, WriterPhase, GatePcs, PublishPcs, SeedPcs, Settled
<1>5. ASSUME NEW u \in Threads PROVE ReaderPhase(u)'
  BY DEF TypeOK, GateOwner, ReaderPhase, WriterPhase, LoopPcs, GatePcs, PublishPcs,
     SeedPcs, Settled
<1>6. ASSUME NEW u \in Threads PROVE ResultPhase(u)'
  BY Zenon DEF TypeOK, ResultPhase, ReadPcs, Pending
<1> QED
  BY <1>1, <1>2, <1>3, <1>4, <1>5, <1>6, Zenon DEF IInv

LEMMA ReadValidatedStep == ASSUME IInv, NEW t \in Threads, ReadValidated(t) PROVE IInv'
<1> USE DEF ReadValidated, Goto, shared, locals, ghosts, IInv, None, Validates, FastPath
<1>1. TypeOK'
  <2>1. tele' \in [Counters -> Nat] /\ pc' \in [Threads -> Pcs]
    BY DEF TypeOK, Counters, Pcs, ReadPcs
  <2>2. result' \in [Threads -> Results]
    BY DEF TypeOK, Results
  <2> QED
    BY <2>1, <2>2, Zenon DEF TypeOK
<1>2. GateOwner'
  BY DEF TypeOK, GateOwner, GatePcs, PublishPcs, SeedPcs, ReadPcs
<1>3. (writer_gate = NoThread => Settled)'
  BY Zenon DEF TypeOK, GateOwner, Settled, WriterPhase, GatePcs, PublishPcs, SeedPcs
<1>4. ASSUME NEW u \in Threads PROVE WriterPhase(u)'
  BY DEF TypeOK, GateOwner, WriterPhase, GatePcs, PublishPcs, SeedPcs, Settled
<1>5. ASSUME NEW u \in Threads PROVE ReaderPhase(u)'
  BY DEF TypeOK, GateOwner, ReaderPhase, WriterPhase, LoopPcs, GatePcs, PublishPcs,
     SeedPcs, Settled
<1>6. ASSUME NEW u \in Threads PROVE ResultPhase(u)'
  BY DEF TypeOK, ResultPhase, ReadPcs, Pending
<1> QED
  BY <1>1, <1>2, <1>3, <1>4, <1>5, <1>6, Zenon DEF IInv

LEMMA ReadRetryStep == ASSUME IInv, NEW t \in Threads, ReadRetry(t) PROVE IInv'
<1> USE DEF ReadRetry, Goto, shared, locals, ghosts, IInv, None, Validates
<1>1. TypeOK'
  BY DEF TypeOK, Results, WriterPhase, ReaderPhase, Settled, Pcs, ReadPcs, LoopPcs,
     PublishPcs, SeedPcs, GatePcs
<1>2. GateOwner'
  BY Zenon DEF TypeOK, GateOwner, GatePcs, PublishPcs, SeedPcs, ReadPcs
<1>3. (writer_gate = NoThread => Settled)'
  BY Zenon DEF TypeOK, GateOwner, Settled, WriterPhase, GatePcs, PublishPcs, SeedPcs
<1>4. ASSUME NEW u \in Threads PROVE WriterPhase(u)'
  BY Zenon DEF TypeOK, GateOwner, WriterPhase, GatePcs, PublishPcs, SeedPcs, Settled
<1>5. ASSUME NEW u \in Threads PROVE ReaderPhase(u)'
  BY DEF TypeOK, GateOwner, ReaderPhase, WriterPhase, LoopPcs, GatePcs, PublishPcs,
     SeedPcs, Settled
<1>6. ASSUME NEW u \in Threads PROVE ResultPhase(u)'
  BY Zenon DEF TypeOK, ResultPhase, ReadPcs, Pending
<1> QED
  BY <1>1, <1>2, <1>3, <1>4, <1>5, <1>6, Zenon DEF IInv

LEMMA ReadFallbackStep == ASSUME IInv, NEW t \in Threads, ReadFallback(t) PROVE IInv'
<1> USE DEF ReadFallback, Goto, shared, locals, ghosts, IInv, None
<1>1. TypeOK'
  <2>1. \E c \in Counters : CountFallback(c)
    BY Zenon DEF Counters
  <2>2. tele' \in [Counters -> Nat]
    BY <2>1, FallbackCounts, Zenon DEF TypeOK
  <2>3. Fallback \in Results
    BY FallbackIsResult, Zenon
  <2>4. result' \in [Threads -> Results]
    BY <2>3, Zenon DEF TypeOK
  <2>5. pc' \in [Threads -> Pcs]
    BY Zenon DEF TypeOK, Pcs
  <2> QED
    BY <2>2, <2>4, <2>5, Zenon DEF TypeOK
<1>2. GateOwner'
  BY Zenon DEF TypeOK, GateOwner, GatePcs, PublishPcs, SeedPcs, ReadPcs
<1>3. (writer_gate = NoThread => Settled)'
  BY Zenon DEF TypeOK, GateOwner, Settled, WriterPhase, GatePcs, PublishPcs, SeedPcs
<1>4. ASSUME NEW u \in Threads PROVE WriterPhase(u)'
  BY DEF TypeOK, GateOwner, WriterPhase, GatePcs, PublishPcs, SeedPcs, Settled
<1>5. ASSUME NEW u \in Threads PROVE ReaderPhase(u)'
  BY DEF TypeOK, GateOwner, ReaderPhase, WriterPhase, LoopPcs, GatePcs, PublishPcs,
     SeedPcs, Settled
<1>6. ASSUME NEW u \in Threads PROVE ResultPhase(u)'
  BY Zenon DEF TypeOK, ResultPhase, ReadPcs, Pending, Fallback
<1> QED
  BY <1>1, <1>2, <1>3, <1>4, <1>5, <1>6, Zenon DEF IInv

LEMMA NextIInv == ASSUME IInv, [Next]_vars PROVE IInv'
<1>1. CASE UNCHANGED vars
  BY <1>1 DEF vars, shared, locals, ghosts, IInv, TypeOK, GateOwner, Settled,
              WriterPhase, ReaderPhase, ResultPhase
<1>2. CASE Rest
  BY <1>1, <1>2, Zenon DEF Rest
<1>3. ASSUME NEW t \in Threads, Call(t) PROVE IInv'
  BY <1>3, PublishLockGateStep, SeedCallStep, ReadCallStep, Zenon DEF Call
<1>4. ASSUME NEW t \in Threads, Step(t) PROVE IInv'
  BY <1>4, PublishOddStep, WriteLockStep, WriteSnapshotStep, PublishInitStep,
     PublishEvenStep, PublishReturnStep, SeedLockGateStep, SeedRecheckStep,
     SeedInitStep, ReadCheckInitStep, ReadLoadStartStep, ReadLockStep,
     ReadCloneStep, ReadValidatedStep, ReadRetryStep, ReadFallbackStep, Zenon
     DEF Step
<1> QED
  BY <1>1, <1>2, <1>3, <1>4, Zenon DEF Next

\* The inductive invariant holds of every reachable state.
THEOREM SeqlockInvariant == Spec => []IInv
<1>1. Init => IInv
  BY InitIInv, Zenon
<1>2. IInv /\ [Next]_vars => IInv'
  BY NextIInv, Zenon
<1> QED
  BY <1>1, <1>2, PTL DEF Spec

\* publish, seed and read keep every shared variable, local and counter in
\* its type, whatever the interleaving.
THEOREM SeqlockTypeCorrect == Spec => []TypeOK
<1>1. IInv => TypeOK
  BY Zenon DEF IInv
<1> QED
  BY <1>1, SeqlockInvariant, PTL

\* read_clone_or_else returns through the fast path only content whose
\* publication (or seed) has finished and that nothing has superseded.
THEOREM SeqlockValidatedClone == Spec => []ValidatedCloneIsCommitted
<1>1. IInv => ValidatedCloneIsCommitted
  BY Zenon DEF IInv, ReaderPhase, ValidatedCloneIsCommitted, Validates
<1> QED
  BY <1>1, SeqlockInvariant, PTL

\* A reader that passed the initialized test never meets a None snapshot.
THEOREM SeqlockLoopSeesASnapshot == Spec => []LoopSeesASnapshot
<1>1. IInv => LoopSeesASnapshot
  BY Zenon DEF IInv, ReaderPhase, LoopSeesASnapshot
<1> QED
  BY <1>1, SeqlockInvariant, PTL

LEMMA InitRefines == Init => Register!Init
BY Zenon DEF Init, Register!Init, NotRead, Register!NotRead

\* A write takes effect where its publication closes or its seed is marked.
LEMMA WriteRefines ==
  ASSUME IInv, NEW t \in Threads, PublishEven(t) \/ SeedInit(t)
  PROVE Register!Write
<1>1. snapshot \in 1 .. MaxWrites /\ committed' = snapshot /\ UNCHANGED result
  BY DEF PublishEven, SeedInit, Goto, IInv, TypeOK, WriterPhase, GatePcs,
         PublishPcs, SeedPcs
<1> QED
  BY <1>1, Zenon DEF Register!Write

LEMMA CallRefines ==
  ASSUME IInv, NEW t \in Threads, ReadCall(t)
  PROVE Register!Call(t)
<1>1. result[t] # Pending
  BY Zenon DEF ReadCall, Goto, IInv, ResultPhase, ReadPcs
<1> QED
  BY <1>1, Zenon DEF ReadCall, ghosts, Register!Call, Pending, Register!Pending

\* A fast-path read takes effect at its end load.
LEMMA ValidatedRefines ==
  ASSUME IInv, NEW t \in Threads, ReadValidated(t)
  PROVE Register!ServeFast(t) \/ UNCHANGED <<committed, result>>
<1>1. result[t] = Pending /\ cloned[t] = committed
  BY Zenon DEF ReadValidated, Validates, Goto, IInv, TypeOK, ResultPhase, ReadPcs,
         ReaderPhase
<1> QED
  BY <1>1, Zenon DEF ReadValidated, ghosts, Register!ServeFast, Pending,
     Register!Pending, FastPath, Register!FastPath

LEMMA FallbackRefines ==
  ASSUME IInv, NEW t \in Threads, ReadFallback(t)
  PROVE Register!GiveUp(t)
<1>1. result[t] = Pending
  BY Zenon DEF ReadFallback, Goto, IInv, ResultPhase, ReadPcs
<1> QED
  BY <1>1, Zenon DEF ReadFallback, ghosts, Register!GiveUp, Pending,
     Register!Pending, Fallback, Register!Fallback

LEMMA NextRefines ==
  ASSUME IInv, [Next]_vars
  PROVE [Register!Next]_(Register!vars)
<1> USE DEF Register!vars, Register!Next
<1>1. CASE UNCHANGED vars \/ Rest
  BY <1>1, Zenon DEF Rest, vars, ghosts
<1>2. ASSUME NEW t \in Threads, Call(t) PROVE [Register!Next]_(Register!vars)
  BY <1>2, CallRefines, Zenon DEF Call, PublishLockGate, SeedCall, ghosts
<1>3. ASSUME NEW t \in Threads, Step(t) PROVE [Register!Next]_(Register!vars)
  <2>1. CASE PublishEven(t) \/ SeedInit(t)
    BY <2>1, WriteRefines, Zenon
  <2>2. CASE ReadValidated(t) \/ ReadFallback(t)
    BY <2>2, ValidatedRefines, FallbackRefines, Zenon
  <2>3. CASE PublishOdd(t) \/ PublishInit(t) \/ PublishReturn(t) \/ WriteLock(t)
             \/ WriteSnapshot(t) \/ SeedLockGate(t) \/ SeedRecheck(t)
    BY <2>3, Zenon DEF PublishOdd, PublishInit, PublishReturn, WriteLock, ghosts,
                WriteSnapshot, SeedLockGate, SeedRecheck
  <2>4. CASE ReadCheckInit(t) \/ ReadLoadStart(t) \/ ReadLock(t)
             \/ ReadClone(t) \/ ReadRetry(t)
    BY <2>4, Zenon DEF ReadCheckInit, ReadLoadStart, ReadLock, ReadClone, ReadRetry,
                ghosts
  <2> QED
    BY <1>3, <2>1, <2>2, <2>3, <2>4, Zenon DEF Step
<1> QED
  BY <1>1, <1>2, <1>3, Zenon DEF Next

\* SnapshotFastPath implements the atomic register SnapshotRegister: reads
\* served by the fast path and completed writes are linearizable.
THEOREM SeqlockRefinesRegister == Spec => RegisterSpec
<1>1. Init => Register!Init
  BY InitRefines, Zenon
<1>2. IInv /\ [Next]_vars => [Register!Next]_(Register!vars)
  BY NextRefines, Zenon
<1> QED
  BY <1>1, <1>2, SeqlockInvariant, PTL DEF Spec, RegisterSpec, Register!Spec

(***************************************************************************)
(* The telemetry.  The bound on retries is a sum over the reads in flight: *)
(* each call brings Budget retries, and Owing is the set of those that its *)
(* reader may still make.  A retry removes one pair, a return removes the  *)
(* rest of its reader's.                                                   *)
(***************************************************************************)
Budget == MaxRetries + MaxWriterPressure + 1

Owed(t) == CASE pc[t] = "r_init" -> 1 .. Budget
             [] pc[t] \in LoopPcs -> 1 .. (Budget - (attempts[t] + pressure[t]))
             [] OTHER -> {}

Owing == {p \in Threads \X (1 .. Budget) : p[2] \in Owed(p[1])}

TeleInv ==
  /\ IsFiniteSet(InFlight) /\ IsFiniteSet(Owing)
  /\ tele.total_reads = tele.fast_path_reads + tele.fallback_reads + Cardinality(InFlight)
  /\ tele.fallback_reads = tele.retry_budget_fallbacks
       + tele.uninitialized_fallbacks + tele.writer_pressure_fallbacks
  /\ tele.total_retries + Cardinality(Owing) <= tele.total_reads * Budget

ReadCounters == Counters \ {"writer_pressure_observations", "writes"}

\* The read counters other than those of C keep their value.
Others(C) == \A c \in ReadCounters \ C : tele'[c] = tele[c]

LEMMA OneMoreBudget ==
  ASSUME NEW x \in Nat, NEW b \in Nat
  PROVE  x * b \in Nat /\ (x + 1) * b = x * b + b
OBVIOUS

LEMMA TeleTypes ==
  ASSUME TypeOK, TypeOK'
  PROVE  /\ Budget \in Nat
         /\ \A c \in ReadCounters : tele[c] \in Nat /\ tele'[c] \in Nat
BY DEF TypeOK, Budget, ReadCounters

\* A step that touches no read counter and gives no reader more retries.
LEMMA QuietTele ==
  ASSUME TypeOK, TypeOK', TeleInv, Others({}), InFlight' = InFlight, Owing' \subseteq Owing
  PROVE  TeleInv'
<1>1. /\ tele'.total_reads = tele.total_reads /\ tele'.fast_path_reads = tele.fast_path_reads
      /\ tele'.fallback_reads = tele.fallback_reads /\ tele'.total_retries = tele.total_retries
      /\ tele'.retry_budget_fallbacks = tele.retry_budget_fallbacks
      /\ tele'.uninitialized_fallbacks = tele.uninitialized_fallbacks
      /\ tele'.writer_pressure_fallbacks = tele.writer_pressure_fallbacks
  BY Zenon DEF Others, ReadCounters, Counters
<1>2. IsFiniteSet(Owing') /\ Cardinality(Owing') <= Cardinality(Owing)
  BY FS_Subset, Zenon DEF TeleInv
<1>3. Cardinality(Owing') \in Nat /\ Cardinality(Owing) \in Nat
  BY <1>2, FS_CardinalityType, Zenon DEF TeleInv
<1>4. tele.total_retries \in Nat /\ tele.total_reads \in Nat /\ Budget \in Nat
  BY TeleTypes, Zenon DEF ReadCounters, Counters
<1>5. tele.total_reads * Budget \in Nat
  BY <1>4, OneMoreBudget, Zenon
<1>6. Budget' = Budget
  BY Zenon DEF Budget
<1>7. PICK k \in Nat : k = tele.total_reads * Budget
  BY <1>5, Zenon
<1>8. tele'.total_retries + Cardinality(Owing') <= tele'.total_reads * Budget
  <2>1. tele.total_retries + Cardinality(Owing) <= k
    BY <1>7, Zenon DEF TeleInv
  <2>2. tele.total_retries + Cardinality(Owing') <= k
    BY <1>2, <1>3, <1>4, <2>1
  <2> QED
    BY <1>1, <1>7, <2>2, Zenon
<1> QED
  BY <1>1, <1>2, <1>6, <1>8, Zenon DEF TeleInv

\* A retry is taken from what its reader may still make.
LEMMA RetryTele ==
  ASSUME TypeOK, TypeOK', TeleInv, Others({"total_retries"}),
         tele'.total_retries = tele.total_retries + 1,
         InFlight' = InFlight, NEW p \in Owing, Owing' \subseteq Owing \ {p}
  PROVE  TeleInv'
<1>1. /\ tele'.total_reads = tele.total_reads /\ tele'.fast_path_reads = tele.fast_path_reads
      /\ tele'.fallback_reads = tele.fallback_reads
      /\ tele'.retry_budget_fallbacks = tele.retry_budget_fallbacks
      /\ tele'.uninitialized_fallbacks = tele.uninitialized_fallbacks
      /\ tele'.writer_pressure_fallbacks = tele.writer_pressure_fallbacks
  BY Zenon DEF Others, ReadCounters, Counters
<1>2. IsFiniteSet(Owing \ {p}) /\ Cardinality(Owing \ {p}) = Cardinality(Owing) - 1
  BY FS_RemoveElement, Zenon DEF TeleInv
<1>3. IsFiniteSet(Owing') /\ Cardinality(Owing') <= Cardinality(Owing \ {p})
  BY <1>2, FS_Subset, Zenon
<1>4. Cardinality(Owing') \in Nat /\ Cardinality(Owing) \in Nat
  BY <1>3, FS_CardinalityType, Zenon DEF TeleInv
<1>5. tele.total_retries \in Nat /\ tele.total_reads \in Nat /\ Budget \in Nat
  BY TeleTypes, Zenon DEF ReadCounters, Counters
<1>6. PICK k \in Nat : k = tele.total_reads * Budget
  BY <1>5, OneMoreBudget, Zenon
<1>7. Budget' = Budget
  BY Zenon DEF Budget
<1>8. tele'.total_retries + Cardinality(Owing') <= tele'.total_reads * Budget
  <2>1. tele.total_retries + Cardinality(Owing) <= k
    BY <1>6, Zenon DEF TeleInv
  <2>2. (tele.total_retries + 1) + Cardinality(Owing') <= k
    BY <1>2, <1>3, <1>4, <1>5, <2>1
  <2> QED
    BY <1>1, <1>6, <2>2, Zenon
<1> QED
  BY <1>1, <1>3, <1>7, <1>8, Zenon DEF TeleInv

\* A call brings one read in flight and its whole budget.
LEMMA CallTele ==
  ASSUME TypeOK, TypeOK', TeleInv, Others({"total_reads"}),
         tele'.total_reads = tele.total_reads + 1, NEW t, t \notin InFlight,
         InFlight' = InFlight \cup {t}, Owing' \subseteq Owing \cup ({t} \X (1 .. Budget))
  PROVE  TeleInv'
<1>1. /\ tele'.total_retries = tele.total_retries /\ tele'.fast_path_reads = tele.fast_path_reads
      /\ tele'.fallback_reads = tele.fallback_reads
      /\ tele'.retry_budget_fallbacks = tele.retry_budget_fallbacks
      /\ tele'.uninitialized_fallbacks = tele.uninitialized_fallbacks
      /\ tele'.writer_pressure_fallbacks = tele.writer_pressure_fallbacks
  BY Zenon DEF Others, ReadCounters, Counters
<1>2. /\ tele.total_retries \in Nat /\ tele.total_reads \in Nat /\ Budget \in Nat
      /\ tele.fast_path_reads \in Nat /\ tele.fallback_reads \in Nat
  BY TeleTypes, Zenon DEF ReadCounters, Counters
<1>3. PICK b \in Nat : b = Budget
  BY <1>2, Zenon
<1>4. IsFiniteSet({t} \X (1 .. b)) /\ Cardinality({t} \X (1 .. b)) = b
  <2>1. IsFiniteSet(1 .. b) /\ Cardinality(1 .. b) = b
    BY FS_Interval
  <2>2. IsFiniteSet({t}) /\ Cardinality({t}) = 1
    BY FS_Singleton, Zenon
  <2>3. /\ IsFiniteSet({t} \X (1 .. b))
        /\ Cardinality({t} \X (1 .. b)) = Cardinality({t}) * Cardinality(1 .. b)
    BY <2>1, <2>2, FS_Product, Zenon
  <2>4. 1 * b = b
    OBVIOUS
  <2> QED
    BY <2>1, <2>2, <2>3, <2>4, Zenon
<1>5. PICK P : P = {t} \X (1 .. b) /\ IsFiniteSet(P) /\ Cardinality(P) = b
  BY <1>4, Zenon
<1>6. IsFiniteSet(Owing) /\ Cardinality(Owing) \in Nat
  BY FS_CardinalityType, Zenon DEF TeleInv
<1>7. /\ IsFiniteSet(Owing \cup P)
      /\ Cardinality(Owing \cup P) = Cardinality(Owing) + b - Cardinality(Owing \cap P)
  BY <1>5, <1>6, FS_Union
<1>8. Cardinality(Owing \cap P) \in Nat
  BY <1>6, FS_Subset, FS_CardinalityType, Owing \cap P \in SUBSET Owing, Zenon
<1>9. IsFiniteSet(Owing') /\ Cardinality(Owing') <= Cardinality(Owing \cup P)
  BY <1>3, <1>5, <1>7, FS_Subset, Zenon
<1>10. Cardinality(Owing') \in Nat
  BY <1>9, FS_CardinalityType, Zenon
<1>11. Cardinality(Owing') <= Cardinality(Owing) + b
  BY <1>6, <1>7, <1>8, <1>9, <1>10
<1>12. PICK k \in Nat : k = tele.total_reads * b /\ (tele.total_reads + 1) * b = k + b
  BY <1>2, OneMoreBudget
<1>13. tele.total_retries + Cardinality(Owing) <= k
  BY <1>3, <1>12, Zenon DEF TeleInv
<1>14. tele.total_retries + Cardinality(Owing') <= k + b
  BY <1>2, <1>6, <1>10, <1>11, <1>13
<1>15. tele'.total_retries + Cardinality(Owing') <= tele'.total_reads * Budget
  BY <1>1, <1>3, <1>12, <1>14, Zenon
<1>16. IsFiniteSet(InFlight') /\ Cardinality(InFlight') = Cardinality(InFlight) + 1
  BY FS_AddElement, Zenon DEF TeleInv
<1>17. Cardinality(InFlight) \in Nat
  BY FS_CardinalityType, Zenon DEF TeleInv
<1>18. tele.total_reads + 1 = tele.fast_path_reads + tele.fallback_reads + (Cardinality(InFlight) + 1)
  BY <1>2, <1>17 DEF TeleInv
<1>19. Budget' = Budget
  BY Zenon DEF Budget
<1> QED
  BY <1>1, <1>9, <1>15, <1>16, <1>18, <1>19, Zenon DEF TeleInv

\* A read that returns leaves InFlight for one of the two counters.
LEMMA ReturnTele ==
  ASSUME TypeOK, TypeOK', TeleInv, tele'.total_reads = tele.total_reads,
         tele'.total_retries = tele.total_retries,
         tele'.fast_path_reads + tele'.fallback_reads = tele.fast_path_reads + tele.fallback_reads + 1,
         tele'.fallback_reads = tele'.retry_budget_fallbacks
           + tele'.uninitialized_fallbacks + tele'.writer_pressure_fallbacks,
         NEW t \in InFlight, InFlight' = InFlight \ {t}, Owing' \subseteq Owing
  PROVE  TeleInv'
<1>1. /\ tele.total_retries \in Nat /\ tele.total_reads \in Nat /\ Budget \in Nat
      /\ tele.fast_path_reads \in Nat /\ tele.fallback_reads \in Nat
      /\ tele'.fast_path_reads \in Nat /\ tele'.fallback_reads \in Nat
  BY TeleTypes, Zenon DEF ReadCounters, Counters
<1>2. IsFiniteSet(Owing') /\ Cardinality(Owing') <= Cardinality(Owing)
  BY FS_Subset, Zenon DEF TeleInv
<1>3. Cardinality(Owing') \in Nat /\ Cardinality(Owing) \in Nat
  BY <1>2, FS_CardinalityType, Zenon DEF TeleInv
<1>4. PICK k \in Nat : k = tele.total_reads * Budget
  BY <1>1, OneMoreBudget, Zenon
<1>5. tele.total_retries + Cardinality(Owing) <= k
  BY <1>4, Zenon DEF TeleInv
<1>6. tele.total_retries + Cardinality(Owing') <= k
  BY <1>1, <1>2, <1>3, <1>5
<1>7. tele'.total_retries + Cardinality(Owing') <= tele'.total_reads * Budget
  BY <1>4, <1>6, Zenon
<1>8. IsFiniteSet(InFlight') /\ Cardinality(InFlight') = Cardinality(InFlight) - 1
  BY FS_RemoveElement, Zenon DEF TeleInv
<1>9. Cardinality(InFlight) \in Nat
  BY FS_CardinalityType, Zenon DEF TeleInv
<1>10. tele.total_reads = tele'.fast_path_reads + tele'.fallback_reads + (Cardinality(InFlight) - 1)
  BY <1>1, <1>9 DEF TeleInv
<1>11. Budget' = Budget
  BY Zenon DEF Budget
<1> QED
  BY <1>2, <1>7, <1>8, <1>10, <1>11, Zenon DEF TeleInv

\* What a step of thread t leaves alone.
LEMMA OwingOf ==
  ASSUME NEW t \in Threads, NEW x, TypeOK, pc' = [pc EXCEPT ![t] = x],
         \A u \in Threads \ {t} : attempts'[u] = attempts[u] /\ pressure'[u] = pressure[u]
  PROVE  /\ \A p \in Owing' : p[1] # t => p \in Owing
         /\ \A p \in Owing' : p[1] = t => p[2] \in Owed(t)'
         /\ Owed(t)' \subseteq Owed(t) => Owing' \subseteq Owing
<1>1. \A u \in Threads \ {t} : Owed(u)' = Owed(u)
  BY Zenon DEF Owed, Budget, TypeOK
<1>2. Owing' = {p \in Threads \X (1 .. Budget) : p[2] \in Owed(p[1])'}
  BY Zenon DEF Owing, Budget
<1>3. ASSUME NEW p \in Owing', p[1] # t PROVE p \in Owing
  BY <1>1, <1>2, <1>3, Zenon DEF Owing
<1>4. ASSUME NEW p \in Owing', p[1] = t PROVE p[2] \in Owed(t)'
  <2>1. p[2] \in Owed(p[1])'
    BY <1>2, Zenon
  <2> QED
    BY <1>4, <2>1, Zenon
<1>5. ASSUME Owed(t)' \subseteq Owed(t), NEW p \in Owing', p[1] = t PROVE p \in Owing
  <2>1. p \in Threads \X (1 .. Budget) /\ p[2] \in Owed(t)
    BY <1>2, <1>4, <1>5, Zenon
  <2> QED
    BY <1>5, <2>1, Zenon DEF Owing
<1> QED
  BY <1>3, <1>4, <1>5, Zenon

LEMMA InFlightOf ==
  ASSUME NEW t \in Threads, NEW x, TypeOK, pc' = [pc EXCEPT ![t] = x]
  PROVE  /\ x \in ReadPcs /\ pc[t] \in ReadPcs => InFlight' = InFlight
         /\ x \notin ReadPcs /\ pc[t] \notin ReadPcs => InFlight' = InFlight
         /\ x \in ReadPcs => InFlight' = InFlight \cup {t}
         /\ x \notin ReadPcs => InFlight' = InFlight \ {t}
<1>1. pc'[t] = x /\ \A u \in Threads \ {t} : pc'[u] = pc[u]
  BY Zenon DEF TypeOK
<1>2. InFlight' = {u \in Threads : pc'[u] \in ReadPcs}
  BY Zenon DEF InFlight
<1> QED
  BY <1>1, <1>2, Zenon DEF InFlight

\* A step outside read_clone_or_else.
LEMMA WriterTele ==
  ASSUME TypeOK, TypeOK', TeleInv, NEW t \in Threads, NEW x, x \notin ReadPcs, pc[t] \notin ReadPcs,
         pc' = [pc EXCEPT ![t] = x], UNCHANGED <<attempts, pressure>>, Others({})
  PROVE  TeleInv'
<1>1. InFlight' = InFlight
  BY InFlightOf, Zenon
<1>2. Owed(t)' = {}
  BY Zenon DEF Owed, ReadPcs, LoopPcs, TypeOK
<1> QED
  BY <1>1, <1>2, OwingOf, QuietTele, Zenon

\* A step inside it that counts nothing.
LEMMA ReaderTele ==
  ASSUME TypeOK, TypeOK', TeleInv, NEW t \in Threads, NEW x, x \in ReadPcs, pc[t] \in ReadPcs,
         pc' = [pc EXCEPT ![t] = x], Owed(t)' \subseteq Owed(t), UNCHANGED tele,
         \A u \in Threads \ {t} : attempts'[u] = attempts[u] /\ pressure'[u] = pressure[u]
  PROVE  TeleInv'
<1>1. InFlight' = InFlight
  BY InFlightOf, Zenon
<1>2. Others({})
  BY Zenon DEF Others
<1> QED
  BY <1>1, <1>2, OwingOf, QuietTele, Zenon

\* A retry spends the last of what its reader may still make.
LEMMA SpentTele ==
  ASSUME IInv, TypeOK', TeleInv, NEW t \in Threads, NEW x \in ReadPcs, pc[t] \in LoopPcs,
         pc' = [pc EXCEPT ![t] = x], x # "r_init",
         attempts'[t] + pressure'[t] = attempts[t] + pressure[t] + 1,
         \A u \in Threads \ {t} : attempts'[u] = attempts[u] /\ pressure'[u] = pressure[u],
         Others({"total_retries"}), tele'.total_retries = tele.total_retries + 1
  PROVE  TeleInv'
<1>1. TypeOK /\ pc[t] \in ReadPcs /\ pc'[t] = x
  BY Zenon DEF IInv, TypeOK, LoopPcs, ReadPcs
<1>2. InFlight' = InFlight
  BY <1>1, InFlightOf, Zenon
<1>3. PICK n \in Nat : n = attempts[t] + pressure[t] /\ n < Budget
  BY DEF IInv, TypeOK, ReaderPhase, Budget
<1>4. Budget \in Nat /\ Budget' = Budget
  BY DEF Budget
<1>5. PICK d \in 1 .. Budget : d = Budget - n
  BY <1>3, <1>4
<1>6. Owed(t) = 1 .. d
  BY <1>3, <1>5, Zenon DEF Owed, LoopPcs
<1>7. Owed(t)' \subseteq 1 .. (d - 1)
  <2>1. CASE x \in LoopPcs
    <3>1. Owed(t)' = 1 .. (Budget - (n + 1))
      BY <1>1, <1>3, <1>4, <2>1, Zenon DEF Owed
    <3> QED
      BY <1>3, <1>4, <1>5, <3>1
  <2>2. CASE x \notin LoopPcs
    BY <1>1, <2>2, Zenon DEF Owed
  <2> QED
    BY <2>1, <2>2, Zenon
<1>8. <<t, d>> \in Owing
  BY <1>5, <1>6 DEF Owing
<1>9. Owing' \subseteq Owing
  <2>1. 1 .. (d - 1) \subseteq 1 .. d
    BY <1>4, <1>5
  <2>2. Owed(t)' \subseteq Owed(t)
    BY <1>6, <1>7, <2>1, Zenon
  <2> QED
    BY <1>1, <2>2, OwingOf, Zenon
<1>10. <<t, d>> \notin Owing'
  <2>1. d \notin Owed(t)'
    <3>1. d \notin 1 .. (d - 1)
      BY <1>4, <1>5
    <3> QED
      BY <1>7, <3>1, Zenon
  <2> QED
    BY <1>1, <2>1, OwingOf, Zenon
<1> QED
  BY <1>1, <1>2, <1>8, <1>9, <1>10, RetryTele, Zenon

LEMMA ReadCallTele ==
  ASSUME TypeOK, TypeOK', TeleInv, NEW t \in Threads, ReadCall(t) PROVE TeleInv'
<1>1. pc[t] = "idle" /\ pc' = [pc EXCEPT ![t] = "r_init"] /\ UNCHANGED <<attempts, pressure>>
  BY Zenon DEF ReadCall, Goto, locals
<1>2. Others({"total_reads"}) /\ tele'.total_reads = tele.total_reads + 1
  BY Zenon DEF ReadCall, Others, ReadCounters, Counters, TypeOK
<1>3. t \notin InFlight /\ InFlight' = InFlight \cup {t}
  <2>1. "r_init" \in ReadPcs /\ "idle" \notin ReadPcs
    BY Zenon DEF ReadPcs
  <2>2. InFlight' = InFlight \cup {t}
    BY <1>1, <2>1, InFlightOf, Zenon
  <2> QED
    BY <1>1, <2>1, <2>2, Zenon DEF InFlight
<1>4. Owing' \subseteq Owing \cup ({t} \X (1 .. Budget))
  <2>1. ASSUME NEW p \in Owing', p[1] = t PROVE p \in {t} \X (1 .. Budget)
    <3>1. p \in Threads \X (1 .. Budget)
      BY Zenon DEF Owing, Budget
    <3> QED
      BY <2>1, <3>1, Zenon
  <2> QED
    BY <1>1, <2>1, OwingOf, Zenon
<1> QED
  BY <1>2, <1>3, <1>4, CallTele, Zenon

LEMMA ReadReturnTele ==
  ASSUME TypeOK, TypeOK', TeleInv, NEW t \in Threads, pc[t] \in ReadPcs,
         pc' = [pc EXCEPT ![t] = "idle"], UNCHANGED <<attempts, pressure>>,
         tele'.total_reads = tele.total_reads, tele'.total_retries = tele.total_retries,
         tele'.fast_path_reads + tele'.fallback_reads = tele.fast_path_reads + tele.fallback_reads + 1,
         tele'.fallback_reads = tele'.retry_budget_fallbacks
           + tele'.uninitialized_fallbacks + tele'.writer_pressure_fallbacks
  PROVE  TeleInv'
<1>1. t \in InFlight /\ InFlight' = InFlight \ {t}
  <2>1. "idle" \notin ReadPcs
    BY Zenon DEF ReadPcs
  <2>2. InFlight' = InFlight \ {t}
    BY <2>1, InFlightOf, Zenon
  <2> QED
    BY <2>2, Zenon DEF InFlight
<1>2. Owed(t)' = {}
  BY Zenon DEF Owed, LoopPcs, TypeOK
<1>3. Owing' \subseteq Owing
  BY <1>2, OwingOf, Zenon
<1> QED
  BY <1>1, <1>3, ReturnTele, Zenon

LEMMA InitTele == Init => TeleInv
<1> SUFFICES ASSUME Init PROVE TeleInv
  BY Zenon
<1>1. \A t \in Threads : pc[t] = "idle"
  BY Zenon DEF Init
<1>2. InFlight = {} /\ Owing = {}
  BY <1>1, Zenon DEF InFlight, Owing, Owed, ReadPcs, LoopPcs
<1>3. IsFiniteSet({}) /\ Cardinality({}) = 0
  BY FS_EmptySet, Zenon
<1>4. \A c \in Counters : tele[c] = 0
  BY Zenon DEF Init
<1>5. Budget \in Nat /\ 0 * Budget = 0
  BY DEF Budget
<1> QED
  BY <1>2, <1>3, <1>4, <1>5 DEF TeleInv, Counters

LEMMA NextTele == ASSUME IInv, IInv', TeleInv, [Next]_vars PROVE TeleInv'
<1>0. TypeOK /\ TypeOK'
  BY Zenon DEF IInv
<1>1. CASE UNCHANGED vars \/ Rest
  <2>1. UNCHANGED <<tele, pc, attempts, pressure>>
    BY <1>1, Zenon DEF Rest, vars, locals
  <2>2. InFlight' = InFlight /\ Owing' = Owing
    BY <2>1, Zenon DEF InFlight, Owing, Owed, Budget
  <2> QED
    BY <2>1, <2>2, Zenon DEF TeleInv, Budget
<1>2. ASSUME NEW t \in Threads, Call(t) \/ Step(t) PROVE TeleInv'
  <2>1. CASE \/ PublishLockGate(t) \/ SeedCall(t) \/ PublishOdd(t) \/ PublishInit(t)
             \/ PublishEven(t) \/ PublishReturn(t) \/ WriteLock(t) \/ WriteSnapshot(t)
             \/ SeedLockGate(t) \/ SeedRecheck(t) \/ SeedInit(t)
    <3>1. UNCHANGED <<attempts, pressure>>
      BY <2>1, Zenon DEF PublishLockGate, SeedCall, PublishOdd, PublishInit,
         PublishEven, PublishReturn,
                  WriteLock, WriteSnapshot, SeedLockGate, SeedRecheck, SeedInit, locals
    <3>2. \E x : x \notin ReadPcs /\ pc[t] \notin ReadPcs /\ pc' = [pc EXCEPT ![t] = x]
      <4>1. \E x, y \in Pcs \ ReadPcs : Goto(t, y, x)
        <5>1. {"idle", "s_gate"} \cup PublishPcs \cup SeedPcs \subseteq Pcs \ ReadPcs
          BY DEF Pcs, PublishPcs, SeedPcs, ReadPcs
        <5>2. \E x, y \in {"idle", "s_gate"} \cup PublishPcs \cup SeedPcs : Goto(t, y, x)
          BY <2>1, Zenon DEF PublishLockGate, SeedCall, PublishOdd, PublishInit,
             PublishEven,
                      PublishReturn, WriteLock, WriteSnapshot, SeedLockGate, SeedRecheck,
                      SeedWins, SeedInit, PublishPcs, SeedPcs
        <5> QED
          BY <5>1, <5>2, Zenon
      <4> QED
        BY <4>1, Zenon DEF Goto
    <3>3. Others({})
      <4>1. UNCHANGED tele \/ tele' = [tele EXCEPT !.writes = @ + 1]
        BY <2>1 DEF PublishLockGate, SeedCall, PublishOdd, PublishInit, PublishEven,
                    PublishReturn, WriteLock, WriteSnapshot, SeedLockGate, SeedRecheck, SeedInit
      <4> QED
        BY <1>0, <4>1, Zenon DEF Others, ReadCounters, Counters, TypeOK
    <3> QED
      BY <1>0, <3>1, <3>2, <3>3, WriterTele, Zenon
  <2>2. CASE ReadCall(t)
    BY <1>0, <2>2, ReadCallTele, Zenon
  <2>3. CASE ReadCheckInit(t)
    <3>1. /\ pc[t] = "r_init" /\ UNCHANGED tele /\ attempts'[t] = 0 /\ pressure'[t] = 0
          /\ \A u \in Threads \ {t} : attempts'[u] = attempts[u] /\ pressure'[u] = pressure[u]
      BY <1>0, <2>3, Zenon DEF ReadCheckInit, Goto, TypeOK
    <3>2. PICK x \in {"r_load", "fb_uninitialized"} : pc' = [pc EXCEPT ![t] = x]
      BY <2>3, Zenon DEF ReadCheckInit, Goto
    <3>3. Owed(t) = 1 .. Budget
      BY <3>1, Zenon DEF Owed, LoopPcs
    <3>4. Owed(t)' \subseteq 1 .. Budget
      <4>1. pc'[t] = x /\ Budget \in Nat
        BY <1>0, <3>2 DEF TypeOK, Budget
      <4> QED
        BY <3>1, <3>2, <4>1 DEF Owed, LoopPcs, Budget
    <3>5. x \in ReadPcs /\ pc[t] \in ReadPcs
      BY <3>1, <3>2, Zenon DEF ReadPcs
    <3> QED
      BY <1>0, <3>1, <3>2, <3>3, <3>4, <3>5, ReaderTele, Zenon
  <2>4. CASE ReadLoadStart(t) /\ sequence % 2 = 1
    <3>1. PICK x \in {"r_load", "fb_pressure"} : pc' = [pc EXCEPT ![t] = x]
      BY <2>4, Zenon DEF ReadLoadStart, Goto
    <3>2. pc[t] \in LoopPcs /\ x \in ReadPcs /\ x # "r_init"
      BY <2>4, <3>1, Zenon DEF ReadLoadStart, Goto, LoopPcs, ReadPcs
    <3>3. /\ attempts'[t] + pressure'[t] = attempts[t] + pressure[t] + 1
          /\ \A u \in Threads \ {t} : attempts'[u] = attempts[u] /\ pressure'[u] = pressure[u]
      BY <1>0, <2>4 DEF ReadLoadStart, TypeOK
    <3>4. Others({"total_retries"}) /\ tele'.total_retries = tele.total_retries + 1
      <4>1. tele' = [tele EXCEPT !.total_retries = @ + 1, !.writer_pressure_observations = @ + 1]
        BY <2>4, Zenon DEF ReadLoadStart
      <4> QED
        BY <1>0, <4>1, Zenon DEF Others, ReadCounters, Counters, TypeOK
    <3> QED
      BY <1>0, <3>1, <3>2, <3>3, <3>4, SpentTele, Zenon
  <2>5. CASE (ReadLoadStart(t) /\ sequence % 2 # 1) \/ ReadLock(t) \/ ReadClone(t)
    <3>1. PICK x \in LoopPcs : pc[t] \in LoopPcs /\ pc' = [pc EXCEPT ![t] = x]
      BY <2>5, Zenon DEF ReadLoadStart, ReadLock, ReadClone, Goto, LoopPcs
    <3>2. UNCHANGED <<tele, attempts, pressure>>
      BY <2>5, Zenon DEF ReadLoadStart, ReadLock, ReadClone, locals
    <3>3. x \in ReadPcs /\ pc[t] \in ReadPcs
      BY <3>1, Zenon DEF LoopPcs, ReadPcs
    <3>4. Owed(t)' = Owed(t)
      <4>1. pc'[t] = x
        BY <1>0, <3>1, Zenon DEF TypeOK
      <4> QED
        BY <3>1, <3>2, <4>1, Zenon DEF Owed, LoopPcs, Budget
    <3> QED
      BY <1>0, <3>1, <3>2, <3>3, <3>4, ReaderTele, Zenon
  <2>6. CASE ReadValidated(t)
    <3>1. pc[t] = "r_validate" /\ UNCHANGED <<attempts, pressure>>
      BY <2>6, Zenon DEF ReadValidated, Goto, locals
    <3>2. CASE cloned[t] # None
      <4>1. pc' = [pc EXCEPT ![t] = "idle"] /\ tele' = [tele EXCEPT !.fast_path_reads = @ + 1]
        BY <2>6, <3>2 DEF ReadValidated, Goto
      <4>2. /\ tele'.total_reads = tele.total_reads /\ tele'.total_retries = tele.total_retries
            /\ tele'.fast_path_reads = tele.fast_path_reads + 1
            /\ tele'.fallback_reads = tele.fallback_reads
            /\ tele'.retry_budget_fallbacks = tele.retry_budget_fallbacks
            /\ tele'.uninitialized_fallbacks = tele.uninitialized_fallbacks
            /\ tele'.writer_pressure_fallbacks = tele.writer_pressure_fallbacks
        BY <1>0, <4>1, Zenon DEF Counters, TypeOK
      <4>3. tele.fast_path_reads \in Nat /\ tele.fallback_reads \in Nat
        BY <1>0, Zenon DEF Counters, TypeOK
      <4>4. /\ tele'.fast_path_reads + tele'.fallback_reads
                 = tele.fast_path_reads + tele.fallback_reads + 1
            /\ tele'.fallback_reads = tele'.retry_budget_fallbacks
                 + tele'.uninitialized_fallbacks + tele'.writer_pressure_fallbacks
        BY <4>2, <4>3 DEF TeleInv
      <4>5. pc[t] \in ReadPcs
        BY <3>1, Zenon DEF ReadPcs
      <4> QED
        BY <1>0, <3>1, <4>1, <4>2, <4>4, <4>5, ReadReturnTele, Zenon
    <3>3. CASE cloned[t] = None
      <4>1. pc' = [pc EXCEPT ![t] = "fb_uninitialized"] /\ UNCHANGED tele
        BY <2>6, <3>3, Zenon DEF ReadValidated, Goto
      <4>2. Owed(t)' = {}
        BY <1>0, <4>1, Zenon DEF Owed, LoopPcs, TypeOK
      <4>3. "fb_uninitialized" \in ReadPcs /\ pc[t] \in ReadPcs
        BY <3>1, Zenon DEF ReadPcs
      <4> QED
        BY <1>0, <3>1, <4>1, <4>2, <4>3, ReaderTele, Zenon
    <3> QED
      BY <3>2, <3>3, Zenon
  <2>7. CASE ReadRetry(t)
    <3>1. PICK x \in {"r_load", "fb_retries"} : pc' = [pc EXCEPT ![t] = x]
      BY <2>7, Zenon DEF ReadRetry, Goto
    <3>2. pc[t] \in LoopPcs /\ x \in ReadPcs /\ x # "r_init"
      BY <2>7, <3>1 DEF ReadRetry, Goto, LoopPcs, ReadPcs
    <3>3. /\ attempts'[t] + pressure'[t] = attempts[t] + pressure[t] + 1
          /\ \A u \in Threads \ {t} : attempts'[u] = attempts[u] /\ pressure'[u] = pressure[u]
      BY <1>0, <2>7 DEF ReadRetry, TypeOK
    <3>4. Others({"total_retries"}) /\ tele'.total_retries = tele.total_retries + 1
      BY <1>0, <2>7, Zenon DEF ReadRetry, Others, ReadCounters, Counters, TypeOK
    <3> QED
      BY <1>0, <3>1, <3>2, <3>3, <3>4, SpentTele, Zenon
  <2>8. CASE ReadFallback(t)
    <3>1. /\ pc[t] \in ReadPcs /\ pc' = [pc EXCEPT ![t] = "idle"]
          /\ UNCHANGED <<attempts, pressure>>
      BY <2>8, Zenon DEF ReadFallback, Goto, locals, ReadPcs
    <3>2. PICK r \in {"uninitialized_fallbacks", "writer_pressure_fallbacks",
                      "retry_budget_fallbacks"} :
            tele' = [tele EXCEPT ![r] = @ + 1, !.fallback_reads = @ + 1]
      BY <2>8, Zenon DEF ReadFallback, CountFallback
    <3>3. /\ tele'.total_reads = tele.total_reads /\ tele'.total_retries = tele.total_retries
          /\ tele'.fast_path_reads = tele.fast_path_reads
          /\ tele'.fallback_reads = tele.fallback_reads + 1
      BY <1>0, <3>2, Zenon DEF Counters, TypeOK
    <3>4. \A c \in {"uninitialized_fallbacks", "writer_pressure_fallbacks",
                    "retry_budget_fallbacks"} :
            tele'[c] = IF c = r THEN tele[c] + 1 ELSE tele[c]
      BY <1>0, <3>2, Zenon DEF Counters, TypeOK
    <3>5. /\ tele.fast_path_reads \in Nat /\ tele.fallback_reads \in Nat
          /\ tele.retry_budget_fallbacks \in Nat /\ tele.uninitialized_fallbacks \in Nat
          /\ tele.writer_pressure_fallbacks \in Nat
      BY <1>0, Zenon DEF Counters, TypeOK
    <3>6. tele'.fallback_reads = tele'.retry_budget_fallbacks
            + tele'.uninitialized_fallbacks + tele'.writer_pressure_fallbacks
      BY <3>3, <3>4, <3>5 DEF TeleInv
    <3>7. tele'.fast_path_reads + tele'.fallback_reads
            = tele.fast_path_reads + tele.fallback_reads + 1
      BY <3>3, <3>5
    <3> QED
      BY <1>0, <3>1, <3>3, <3>6, <3>7, ReadReturnTele, Zenon
  <2> QED
    BY <1>2, <2>1, <2>2, <2>3, <2>4, <2>5, <2>6, <2>7, <2>8 DEF Call, Step
<1> QED
  BY <1>1, <1>2, Zenon DEF Next

\* The read counters account for every call of read_clone_or_else, for any
\* number of threads and any policy: in flight, fast, or one of three fallback
\* reasons, and at most max_retries + max_writer_pressure_observations + 1
\* retries per call.
THEOREM SeqlockTelemetryAccounts == Spec => []TelemetryAccounts
<1>1. IInv /\ TeleInv => TelemetryAccounts
  <2> SUFFICES ASSUME IInv, TeleInv PROVE TelemetryAccounts
    BY Zenon
  <2>1. Cardinality(Owing) \in Nat
    BY FS_CardinalityType, Zenon DEF TeleInv
  <2>2. tele.total_retries \in Nat /\ tele.total_reads \in Nat /\ Budget \in Nat
    BY DEF IInv, TypeOK, Counters, Budget
  <2>3. PICK k \in Nat : k = tele.total_reads * Budget
    BY <2>2, OneMoreBudget, Zenon
  <2>4. tele.total_retries + Cardinality(Owing) <= k
    BY <2>3, Zenon DEF TeleInv
  <2>5. tele.total_retries <= k
    BY <2>1, <2>2, <2>4
  <2>6. tele.total_retries <= tele.total_reads * (MaxRetries + MaxWriterPressure + 1)
    BY <2>3, <2>5, Zenon DEF Budget
  <2> QED
    BY <2>6, Zenon DEF TeleInv, TelemetryAccounts
<1>2. IInv /\ IInv' /\ TeleInv /\ [Next]_vars => TeleInv'
  BY NextTele, Zenon
<1> QED
  BY <1>1, <1>2, InitTele, SeqlockInvariant, PTL DEF Spec
=============================================================================
