-------------------------- MODULE SeqlockFastpath --------------------------
(***************************************************************************)
(* SnapshotFastPath<T> (seqlock_fastpath.rs): a snapshot behind a RwLock,  *)
(* published under a writer mutex and validated by readers against a       *)
(* sequence number that is odd while a publication is in progress.         *)
(*                                                                         *)
(* One action per access to shared memory that another thread can observe. *)
(* A stored value is abstracted to the identity of the call that supplied  *)
(* it (its ticket); ticket 0 stands for the snapshot's initial None.       *)
(* Counter increments are folded into the access they follow.              *)
(***************************************************************************)
EXTENDS Integers, FiniteSets

CONSTANTS Threads,            \* threads sharing one SnapshotFastPath
          NoThread,           \* "no holder" for the mutex and the write lock
          MaxWrites,          \* bound: publications and seeds that get the gate
          MaxReads,           \* bound: calls of read_clone_or_else
          MaxRetries,         \* policy.max_retries
          MaxWriterPressure,  \* policy.max_writer_pressure_observations
          SeqModulus          \* 2^64 in the code: the sequence is a u64

\* The mutex is free exactly when no thread holds it.
ASSUME NoThreadAssumption == NoThread \notin Threads
ASSUME BoundsAssumption == /\ MaxWrites \in Nat \ {0} /\ MaxReads \in Nat
                           /\ MaxRetries \in Nat /\ MaxWriterPressure \in Nat
\* The sequence does not wrap within the run: 2^63 publications in the code.
ASSUME NoWrapAssumption == SeqModulus \in Nat /\ 2 * MaxWrites < SeqModulus

VARIABLES
  initialized, sequence,      \* the two atomics readers consult
  writer_gate,                \* holder of the writer mutex
  snapshot, rwWriter, rwReaders,  \* the RwLock: content, writer, readers
  tele,                       \* the telemetry counters
  pc, start, attempts, pressure, cloned, next,  \* locals of each thread
  result,                     \* what each thread's latest read returned
  tickets,                    \* writes that obtained the gate so far
  committed                   \* history: content made visible to readers

shared == <<initialized, sequence, writer_gate, snapshot, rwWriter, rwReaders>>
locals == <<start, attempts, pressure, cloned, next>>
ghosts == <<tickets, committed>>
vars == <<shared, tele, pc, locals, result, ghosts>>

None == 0

NotRead  == [kind |-> "NotRead", value |-> None]
Pending  == [kind |-> "Pending", value |-> None]
Fallback == [kind |-> "Fallback", value |-> None]
FastPath(v) == [kind |-> "FastPath", value |-> v]

Results == [kind : {"NotRead", "Pending", "Fallback", "FastPath"},
            value : 0 .. MaxWrites]

Counters == {"total_reads", "fast_path_reads", "fallback_reads",
             "total_retries", "writer_pressure_observations",
             "retry_budget_fallbacks", "uninitialized_fallbacks",
             "writer_pressure_fallbacks", "writes"}

ReadPcs == {"r_init", "r_load", "r_lock", "r_clone", "r_validate",
            "fb_uninitialized", "fb_pressure", "fb_retries"}
PublishPcs == {"p_odd", "p_lock", "p_store", "p_init", "p_even", "p_count"}
SeedPcs == {"s_recheck", "s_lock", "s_store", "s_init"}
Pcs == {"idle", "s_gate"} \cup ReadPcs \cup PublishPcs \cup SeedPcs

Init == /\ initialized = FALSE
        /\ sequence = 0
        /\ writer_gate = NoThread
        /\ snapshot = None
        /\ rwWriter = NoThread
        /\ rwReaders = {}
        /\ tele = [c \in Counters |-> 0]
        /\ pc = [t \in Threads |-> "idle"]
        /\ start = [t \in Threads |-> 0]
        /\ attempts = [t \in Threads |-> 0]
        /\ pressure = [t \in Threads |-> 0]
        /\ cloned = [t \in Threads |-> None]
        /\ next = [t \in Threads |-> None]
        /\ result = [t \in Threads |-> NotRead]
        /\ tickets = 0
        /\ committed = None

Goto(t, from, to) == pc[t] = from /\ pc' = [pc EXCEPT ![t] = to]

(***************************************************************************)
(* Writers.  The mutex serialises publish and seed; a ticket is drawn when *)
(* the mutex is obtained, so tickets are numbered in gate order.           *)
(***************************************************************************)
\* The caller's value enters with the lock: before it, publish has no effect.
PublishLockGate(t) ==
  /\ tickets < MaxWrites
  /\ writer_gate = NoThread
  /\ Goto(t, "idle", "p_odd")
  /\ writer_gate' = t
  /\ tickets' = tickets + 1
  /\ next' = [next EXCEPT ![t] = tickets + 1]
  /\ UNCHANGED <<initialized, sequence, snapshot, rwWriter, rwReaders, tele,
                 start, attempts, pressure, cloned, result, committed>>

\* Mutant: the initialized flag is raised before the snapshot is stored.
PublishOddInitializes(t) ==
  /\ Goto(t, "p_odd", "p_lock")
  /\ start' = [start EXCEPT ![t] = sequence]
  /\ sequence' = (sequence + 1) % SeqModulus
  /\ initialized' = TRUE
  /\ UNCHANGED <<writer_gate, snapshot, rwWriter, rwReaders, tele,
                 attempts, pressure, cloned, next, result, ghosts>>

\* sequence is written only under the gate, so load and store are one step.
PublishOdd(t) ==
  /\ Goto(t, "p_odd", "p_lock")
  /\ start' = [start EXCEPT ![t] = sequence]
  /\ sequence' = (sequence + 1) % SeqModulus
  /\ UNCHANGED <<initialized, writer_gate, snapshot, rwWriter, rwReaders, tele,
                 attempts, pressure, cloned, next, result, ghosts>>

\* snapshot.write(): exclusive, so it waits for every reader's clone.
WriteLock(t) ==
  /\ \/ Goto(t, "p_lock", "p_store")
     \/ Goto(t, "s_lock", "s_store")
  /\ rwWriter = NoThread
  /\ rwReaders = {}
  /\ rwWriter' = t
  /\ UNCHANGED <<initialized, sequence, writer_gate, snapshot, rwReaders, tele,
                 locals, result, ghosts>>

\* *guard = Some(next), and the guard is dropped at the end of the statement.
WriteSnapshot(t) ==
  /\ \/ Goto(t, "p_store", "p_init")
     \/ Goto(t, "s_store", "s_init")
  /\ snapshot' = next[t]
  /\ rwWriter' = NoThread
  /\ UNCHANGED <<initialized, sequence, writer_gate, rwReaders, tele, locals,
                 result, ghosts>>

PublishInit(t) ==
  /\ Goto(t, "p_init", "p_even")
  /\ initialized' = TRUE
  /\ UNCHANGED <<sequence, writer_gate, snapshot, rwWriter, rwReaders, tele,
                 locals, result, ghosts>>

PublishEven(t) ==
  /\ Goto(t, "p_even", "p_count")
  /\ sequence' = (start[t] + 2) % SeqModulus
  /\ committed' = snapshot
  /\ UNCHANGED <<initialized, writer_gate, snapshot, rwWriter, rwReaders, tele,
                 locals, result, tickets>>

PublishReturn(t) ==
  /\ Goto(t, "p_count", "idle")
  /\ tele' = [tele EXCEPT !.writes = @ + 1]
  /\ writer_gate' = NoThread
  /\ UNCHANGED <<initialized, sequence, snapshot, rwWriter, rwReaders, locals,
                 result, ghosts>>

\* The first, unlocked test; a call that finds it true returns at once.
SeedCall(t) ==
  /\ ~initialized
  /\ Goto(t, "idle", "s_gate")
  /\ UNCHANGED <<shared, tele, locals, result, ghosts>>

SeedLockGate(t) ==
  /\ writer_gate = NoThread
  /\ Goto(t, "s_gate", "s_recheck")
  /\ writer_gate' = t
  /\ UNCHANGED <<initialized, sequence, snapshot, rwWriter, rwReaders, tele,
                 locals, result, ghosts>>

SeedWins(t) ==
  /\ Goto(t, "s_recheck", "s_lock")
  /\ tickets' = tickets + 1
  /\ next' = [next EXCEPT ![t] = tickets + 1]
  /\ UNCHANGED writer_gate

\* Mutant: the loser tries again.
SeedRecheckRetries(t) ==
  /\ IF initialized
     THEN /\ Goto(t, "s_recheck", "s_gate")
          /\ writer_gate' = NoThread
          /\ UNCHANGED <<next, tickets>>
     ELSE SeedWins(t)
  /\ UNCHANGED <<initialized, sequence, snapshot, rwWriter, rwReaders, tele,
                 start, attempts, pressure, cloned, result, committed>>

\* The second test, under the gate: lose to an earlier writer, or go on.
SeedRecheck(t) ==
  /\ IF initialized
     THEN /\ Goto(t, "s_recheck", "idle")
          /\ writer_gate' = NoThread
          /\ UNCHANGED <<next, tickets>>
     ELSE SeedWins(t)
  /\ UNCHANGED <<initialized, sequence, snapshot, rwWriter, rwReaders, tele,
                 start, attempts, pressure, cloned, result, committed>>

\* The seed leaves the sequence alone and counts no write.
SeedInit(t) ==
  /\ Goto(t, "s_init", "idle")
  /\ initialized' = TRUE
  /\ committed' = snapshot
  /\ writer_gate' = NoThread
  /\ UNCHANGED <<sequence, snapshot, rwWriter, rwReaders, tele, locals, result,
                 tickets>>

(***************************************************************************)
(* Readers: read_clone_or_else.                                            *)
(***************************************************************************)
ReadCall(t) ==
  /\ tele.total_reads < MaxReads
  /\ Goto(t, "idle", "r_init")
  /\ tele' = [tele EXCEPT !.total_reads = @ + 1]
  /\ result' = [result EXCEPT ![t] = Pending]
  /\ UNCHANGED <<shared, locals, ghosts>>

ReadCheckInit(t) ==
  /\ Goto(t, "r_init", IF initialized THEN "r_load" ELSE "fb_uninitialized")
  /\ attempts' = [attempts EXCEPT ![t] = 0]
  /\ pressure' = [pressure EXCEPT ![t] = 0]
  /\ UNCHANGED <<shared, tele, start, cloned, next, result, ghosts>>

\* An odd sequence is writer pressure: spin within its own budget.
ReadLoadStart(t) ==
  /\ start' = [start EXCEPT ![t] = sequence]
  /\ IF sequence % 2 = 1
     THEN /\ pressure' = [pressure EXCEPT ![t] = @ + 1]
          /\ tele' = [tele EXCEPT !.total_retries = @ + 1,
                                  !.writer_pressure_observations = @ + 1]
          /\ Goto(t, "r_load", IF pressure[t] + 1 > MaxWriterPressure
                               THEN "fb_pressure" ELSE "r_load")
     ELSE /\ Goto(t, "r_load", "r_lock")
          /\ UNCHANGED <<pressure, tele>>
  /\ UNCHANGED <<shared, attempts, cloned, next, result, ghosts>>

\* snapshot.read(): shared, so it waits for a writer to drop its guard.
ReadLock(t) ==
  /\ rwWriter = NoThread
  /\ Goto(t, "r_lock", "r_clone")
  /\ rwReaders' = rwReaders \cup {t}
  /\ UNCHANGED <<initialized, sequence, writer_gate, snapshot, rwWriter, tele,
                 locals, result, ghosts>>

ReadClone(t) ==
  /\ Goto(t, "r_clone", "r_validate")
  /\ cloned' = [cloned EXCEPT ![t] = snapshot]
  /\ rwReaders' = rwReaders \ {t}
  /\ UNCHANGED <<initialized, sequence, writer_gate, snapshot, rwWriter, tele,
                 start, attempts, pressure, next, result, ghosts>>

\* Mutant: the end load is tested for evenness only.
ValidatesParityOnly(t) == sequence % 2 = 0

Validates(t) == start[t] = sequence /\ sequence % 2 = 0

\* A validated clone is returned; the code keeps a branch for a None.
ReadValidated(t) ==
  /\ Validates(t)
  /\ IF cloned[t] # None
     THEN /\ Goto(t, "r_validate", "idle")
          /\ tele' = [tele EXCEPT !.fast_path_reads = @ + 1]
          /\ result' = [result EXCEPT ![t] = FastPath(cloned[t])]
     ELSE /\ Goto(t, "r_validate", "fb_uninitialized")
          /\ UNCHANGED <<tele, result>>
  /\ UNCHANGED <<shared, locals, ghosts>>

ReadRetry(t) ==
  /\ ~Validates(t)
  /\ attempts' = [attempts EXCEPT ![t] = @ + 1]
  /\ tele' = [tele EXCEPT !.total_retries = @ + 1]
  /\ Goto(t, "r_validate", IF attempts[t] + 1 > MaxRetries
                           THEN "fb_retries" ELSE "r_load")
  /\ UNCHANGED <<shared, start, pressure, cloned, next, result, ghosts>>

CountFallback(reason) == tele' = [tele EXCEPT ![reason] = @ + 1,
                                              !.fallback_reads = @ + 1]

\* Mutant: a retry-budget fallback is not counted under its reason.
ReadFallbackUncounted(t) ==
  /\ \/ /\ Goto(t, "fb_uninitialized", "idle")
        /\ CountFallback("uninitialized_fallbacks")
     \/ /\ Goto(t, "fb_pressure", "idle")
        /\ CountFallback("writer_pressure_fallbacks")
     \/ /\ Goto(t, "fb_retries", "idle")
        /\ tele' = [tele EXCEPT !.fallback_reads = @ + 1]
  /\ result' = [result EXCEPT ![t] = Fallback]
  /\ UNCHANGED <<shared, locals, ghosts>>

\* Mutant: out of retries, the reader returns the clone it failed to validate.
ReadFallbackStale(t) ==
  /\ \/ /\ Goto(t, "fb_uninitialized", "idle")
        /\ CountFallback("uninitialized_fallbacks")
        /\ result' = [result EXCEPT ![t] = Fallback]
     \/ /\ Goto(t, "fb_pressure", "idle")
        /\ CountFallback("writer_pressure_fallbacks")
        /\ result' = [result EXCEPT ![t] = Fallback]
     \/ /\ Goto(t, "fb_retries", "idle")
        /\ CountFallback("retry_budget_fallbacks")
        /\ result' = [result EXCEPT ![t] = FastPath(cloned[t])]
  /\ UNCHANGED <<shared, locals, ghosts>>

ReadFallback(t) ==
  /\ \/ /\ Goto(t, "fb_uninitialized", "idle")
        /\ CountFallback("uninitialized_fallbacks")
     \/ /\ Goto(t, "fb_pressure", "idle")
        /\ CountFallback("writer_pressure_fallbacks")
     \/ /\ Goto(t, "fb_retries", "idle")
        /\ CountFallback("retry_budget_fallbacks")
  /\ result' = [result EXCEPT ![t] = Fallback]
  /\ UNCHANGED <<shared, locals, ghosts>>

(***************************************************************************)
(* The specification.  A thread that has begun an operation keeps running  *)
(* (weak fairness of its steps); nothing forces anyone to call.            *)
(***************************************************************************)
Call(t) == PublishLockGate(t) \/ SeedCall(t) \/ ReadCall(t)

Step(t) == \/ PublishOdd(t) \/ PublishInit(t) \/ PublishEven(t)
           \/ PublishReturn(t) \/ WriteLock(t) \/ WriteSnapshot(t)
           \/ SeedLockGate(t) \/ SeedRecheck(t) \/ SeedInit(t)
           \/ ReadCheckInit(t) \/ ReadLoadStart(t) \/ ReadLock(t)
           \/ ReadClone(t) \/ ReadValidated(t) \/ ReadRetry(t)
           \/ ReadFallback(t)

\* Every call has returned and the bounds allow no other.
Rest == (\A t \in Threads : pc[t] = "idle") /\ UNCHANGED vars

Next == (\E t \in Threads : Call(t) \/ Step(t)) \/ Rest

Spec == Init /\ [][Next]_vars

FairSpec == Spec /\ \A t \in Threads : WF_vars(Step(t))

(***************************************************************************)
(* Properties.                                                             *)
(***************************************************************************)
\* Every variable keeps its type; local counters stay within the policy.
TypeOK ==
  /\ initialized \in BOOLEAN
  /\ sequence \in 0 .. SeqModulus - 1
  /\ writer_gate \in Threads \cup {NoThread}
  /\ snapshot \in 0 .. MaxWrites
  /\ rwWriter \in Threads \cup {NoThread}
  /\ rwReaders \in SUBSET Threads
  /\ tele \in [Counters -> Nat]
  /\ pc \in [Threads -> Pcs]
  /\ start \in [Threads -> 0 .. SeqModulus - 1]
  /\ attempts \in [Threads -> 0 .. MaxRetries + 1]
  /\ pressure \in [Threads -> 0 .. MaxWriterPressure + 1]
  /\ cloned \in [Threads -> 0 .. MaxWrites]
  /\ next \in [Threads -> 0 .. MaxWrites]
  /\ result \in [Threads -> Results]
  /\ tickets \in 0 .. MaxWrites
  /\ committed \in 0 .. MaxWrites

LoopPcs == {"r_load", "r_lock", "r_clone", "r_validate"}

\* When read_clone_or_else's end load validates, the clone is the content of
\* the last finished publication or seed: never one superseded meanwhile, and
\* never one whose publication is still in its odd window.
ValidatedCloneIsCommitted ==
  \A t \in Threads :
    pc[t] = "r_validate" /\ Validates(t) => cloned[t] = committed

\* A reader past the initialized test always finds Some: the Uninitialized
\* branch behind a validated read is dead code in every interleaving.
LoopSeesASnapshot ==
  \A t \in Threads : pc[t] \in LoopPcs => snapshot # None

InFlight == {t \in Threads : pc[t] \in ReadPcs}

\* The read counters account for every call: each one is in flight, was
\* served fast, or fell back for exactly one of the three reasons, and no read
\* retries more often than max_retries + max_writer_pressure_observations + 1
\* times.
TelemetryAccounts ==
  /\ tele.total_reads = tele.fast_path_reads + tele.fallback_reads
                          + Cardinality(InFlight)
  /\ tele.fallback_reads = tele.retry_budget_fallbacks
       + tele.uninitialized_fallbacks + tele.writer_pressure_fallbacks
  /\ tele.total_retries <= tele.total_reads * (MaxRetries + MaxWriterPressure + 1)

\* Every read, publish and seed returns: the lock order (gate, then RwLock)
\* cannot deadlock and a reader cannot spin forever under writer pressure.
OperationsReturn ==
  \A t \in Threads : (pc[t] # "idle") ~> (pc[t] = "idle")

\* The fast path implements the atomic register: a write takes effect when
\* its publication closes, a fast-path read when its end load validates.  Reads
\* of all threads therefore never go back in time.
Register == INSTANCE SnapshotRegister
              WITH Versions <- 1 .. MaxWrites, NoVersion <- None,
                   reg <- committed, outcome <- result

RegisterSpec == Register!Spec
=============================================================================
