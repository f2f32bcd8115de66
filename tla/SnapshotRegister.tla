-------------------------- MODULE SnapshotRegister --------------------------
(***************************************************************************)
(* What SnapshotFastPath promises its callers: an atomic register.         *)
(*                                                                         *)
(* A write replaces the register in one step.  A read that is served by    *)
(* the fast path returns the register's content at one instant between     *)
(* its call and its return; a read may instead give up and let the caller  *)
(* compute the value (the fallback closure), at any time.  Nothing is said *)
(* about when a read falls back: that is the policy's business.            *)
(***************************************************************************)
CONSTANTS Threads,   \* the threads that share the register
          Versions,  \* the identities of the written values
          NoVersion  \* the content before the first write

VARIABLES reg,       \* the register
          outcome    \* what each thread's latest read came to

vars == <<reg, outcome>>

NotRead  == [kind |-> "NotRead", value |-> NoVersion]
Pending  == [kind |-> "Pending", value |-> NoVersion]
Fallback == [kind |-> "Fallback", value |-> NoVersion]
FastPath(v) == [kind |-> "FastPath", value |-> v]

Init == /\ reg = NoVersion
        /\ outcome = [t \in Threads |-> NotRead]

Write == \E v \in Versions : reg' = v /\ UNCHANGED outcome

Call(t) == /\ outcome[t] # Pending
           /\ outcome' = [outcome EXCEPT ![t] = Pending]
           /\ UNCHANGED reg

ServeFast(t) == /\ outcome[t] = Pending
                /\ reg # NoVersion
                /\ outcome' = [outcome EXCEPT ![t] = FastPath(reg)]
                /\ UNCHANGED reg

GiveUp(t) == /\ outcome[t] = Pending
             /\ outcome' = [outcome EXCEPT ![t] = Fallback]
             /\ UNCHANGED reg

Next == \/ Write
        \/ \E t \in Threads : Call(t) \/ ServeFast(t) \/ GiveUp(t)

Spec == Init /\ [][Next]_vars
=============================================================================
