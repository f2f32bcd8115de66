-------------------------- MODULE IdempotencyStore --------------------------
(***************************************************************************)
(* IdempotencyStore (idempotency_key.rs) and the executions it admits.     *)
(*                                                                         *)
(* A key is an input with the epoch it was derived under: the derivation   *)
(* hashes both and is taken to be injective.  An input stands for the      *)
(* computation, its arguments, trace and attempt number; attempts beyond   *)
(* max_retries are refused without effect and left out.                    *)
(*                                                                         *)
(* The store does not see executions.  executing[k] are those of key k that*)
(* have not reported, numbered by started[k]; the n-th one has result n.   *)
(* Executions report late, or never.                                       *)
(***************************************************************************)
EXTENDS SecurityEpoch, VirtualClock, FiniteSets

CONSTANTS Inputs,      \* inputs of claims
          Computation, \* the computation of an input
          Ttl,         \* entry_ttl_ticks of a computation
          MaxRuns      \* bound: executions of one key

ASSUME StoreConfigured ==
  (\A i \in Inputs : Ttl[Computation[i]] \in Nat) /\ MaxRuns \in Nat

VARIABLES entries, started, executing, done, last_start

store_vars == <<now, current_epoch, entries, started, executing, done, last_start>>

Keys == Inputs \X Epochs
Results == 1..MaxRuns
NoEntry == [status |-> "none", result |-> 0, created_at |-> 0, epoch |-> 0]

\* done[k]: executions that reported a result; last_start[k]: when the latest began.
StoreInit == /\ now = 0
             /\ current_epoch = 0
             /\ entries = [k \in Keys |-> NoEntry]
             /\ started = [k \in Keys |-> 0]
             /\ executing = [k \in Keys |-> {}]
             /\ done = [k \in Keys |-> {}]
             /\ last_start = [k \in Keys |-> 0]

\* The clock of the callers.
StoreTick == /\ ClockTick
             /\ UNCHANGED <<current_epoch, entries, started, executing, done, last_start>>

ComputationOf(k) == Computation[k[1]]

\* Mutant: the entry goes one tick before its time to live is over.
FreshEarly(k) == now - entries[k].created_at + 1 < Ttl[ComputationOf(k)]

\* What evict_expired and evict_all_expired retain.
Fresh(k) == now - entries[k].created_at < Ttl[ComputationOf(k)]

\* entries without the expired ones of a set of computations.
Evicted(comps) ==
  [k \in Keys |-> IF ComputationOf(k) \in comps /\ ~Fresh(k) THEN NoEntry ELSE entries[k]]

NewEntry(k) ==
  [status |-> "InProgress", result |-> 0, created_at |-> now, epoch |-> current_epoch]

\* check_and_claim with a key of the current epoch; any other is refused.
\* Only a claim of a key with no entry starts an execution.
CheckAndClaim(k) ==
  LET kept == Evicted({ComputationOf(k)}) IN
  /\ k[2] = current_epoch
  /\ IF kept[k].status = "none"
     THEN /\ started[k] < MaxRuns
          /\ entries' = [kept EXCEPT ![k] = NewEntry(k)]
          /\ started' = [started EXCEPT ![k] = @ + 1]
          /\ executing' = [executing EXCEPT ![k] = @ \cup {started[k] + 1}]
          /\ last_start' = [last_start EXCEPT ![k] = now]
     ELSE entries' = kept /\ UNCHANGED <<started, executing, last_start>>
  /\ UNCHANGED <<now, current_epoch, done>>

\* The status of an entry that still exists is overwritten, whatever it is.
Mark(k, status, result) ==
  entries' = IF entries[k].status = "none" THEN entries
             ELSE [entries EXCEPT ![k].status = status, ![k].result = result]

\* Mutant: the report names the execution after it.
MarkCompletedOther(k, n) ==
  /\ n \in executing[k]
  /\ Mark(k, "Completed", n + 1)
  /\ executing' = [executing EXCEPT ![k] = @ \ {n}]
  /\ done' = [done EXCEPT ![k] = @ \cup {n}]
  /\ UNCHANGED <<now, current_epoch, started, last_start>>

MarkCompleted(k, n) ==
  /\ n \in executing[k]
  /\ Mark(k, "Completed", n)
  /\ executing' = [executing EXCEPT ![k] = @ \ {n}]
  /\ done' = [done EXCEPT ![k] = @ \cup {n}]
  /\ UNCHANGED <<now, current_epoch, started, last_start>>

MarkFailed(k, n) ==
  /\ n \in executing[k]
  /\ Mark(k, "Failed", 0)
  /\ executing' = [executing EXCEPT ![k] = @ \ {n}]
  /\ UNCHANGED <<now, current_epoch, started, done, last_start>>

EvictAllExpired ==
  /\ entries' = Evicted({Computation[i] : i \in Inputs})
  /\ UNCHANGED <<now, current_epoch, started, executing, done, last_start>>

\* The store takes any epoch; the epochs of the system only grow.
StoreAdvanceEpoch(e) ==
  /\ e > current_epoch
  /\ entries' = [k \in Keys |-> IF entries[k].epoch = e THEN entries[k] ELSE NoEntry]
  /\ current_epoch' = e
  /\ UNCHANGED <<now, started, executing, done, last_start>>

StoreNext == \/ StoreTick
             \/ \E k \in Keys : CheckAndClaim(k)
             \/ \E k \in Keys, n \in Results : MarkCompleted(k, n) \/ MarkFailed(k, n)
             \/ EvictAllExpired
             \/ \E e \in Epochs : StoreAdvanceEpoch(e)

StoreSpec == StoreInit /\ [][StoreNext]_store_vars

(***************************************************************************)
(* Properties.                                                             *)
(***************************************************************************)
\* The types of the store and of the executions it admits.
StoreTypeOK ==
  /\ now \in Nat /\ current_epoch \in Epochs
  /\ entries \in [Keys -> [status : {"none", "InProgress", "Completed", "Failed"},
                           result : Nat, created_at : Nat, epoch : Epochs]]
  /\ started \in [Keys -> Nat]
  /\ executing \in [Keys -> SUBSET Nat] /\ done \in [Keys -> SUBSET Nat]
  /\ last_start \in [Keys -> 0..now]

\* What a claim is told about a key is true: a cached result was reported by an
\* execution of that very key, a duplicate in progress is the execution the
\* entry was made for and has not reported, and nothing is answered from
\* another epoch.
AnswersAreTrue ==
  \A k \in Keys :
    /\ entries[k].status = "Completed" => entries[k].result \in done[k]
    /\ entries[k].status = "InProgress" => started[k] \in executing[k]
    /\ entries[k].status # "none" => k[2] = current_epoch

\* Two executions of a key begin at least the time to live apart, however
\* claims, reports and evictions interleave.
OncePerTtl ==
  [][\A k \in Keys : started'[k] # started[k] =>
       started[k] = 0 \/ now - last_start[k] >= Ttl[ComputationOf(k)]]_store_vars
=============================================================================
