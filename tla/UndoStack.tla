----------------------------- MODULE UndoStack ------------------------------
(***************************************************************************)
(* What a saga promises (saga_orchestrator.rs, lines 10 to 13): its steps  *)
(* are done one after the other; it commits when all are done; when one    *)
(* fails, the steps done so far are undone, the last one first.  It may be *)
(* given up at any time before, and then what was done stays done.         *)
(***************************************************************************)
EXTENDS Integers

CONSTANTS Sagas, N

VARIABLES phase,  \* phase[s]: where the saga stands
          stack   \* stack[s]: the steps done and not undone

Steps == 0..N-1
Phases == {"none", "forward", "undoing", "committed", "undone", "abandoned", "forgotten"}

Init == /\ phase = [s \in Sagas |-> "none"]
        /\ stack = [s \in Sagas |-> {}]

Move(s, p, st) == /\ phase' = [phase EXCEPT ![s] = p]
                  /\ stack' = [stack EXCEPT ![s] = st]

Start(s) == phase[s] = "none" /\ Move(s, "forward", stack[s])

Push(s) == \E i \in Steps :
             /\ phase[s] = "forward"
             /\ stack[s] = 0..i-1
             /\ Move(s, IF i = N-1 THEN "committed" ELSE "forward", 0..i)

Fail(s) == /\ phase[s] = "forward"
           /\ Move(s, IF stack[s] = {} THEN "undone" ELSE "undoing", stack[s])

Pop(s) == \E i \in Steps :
            /\ phase[s] = "undoing"
            /\ stack[s] = 0..i
            /\ Move(s, IF i = 0 THEN "undone" ELSE "undoing", 0..i-1)

\* Several sagas may be abandoned, or forgotten, at once.
Abandon == \E S \in SUBSET {s \in Sagas : phase[s] \in {"forward", "undoing"}} :
             /\ phase' = [s \in Sagas |-> IF s \in S THEN "abandoned" ELSE phase[s]]
             /\ UNCHANGED stack

Forget == \E S \in SUBSET {s \in Sagas : phase[s] \in {"committed", "undone", "abandoned"}} :
            /\ phase' = [s \in Sagas |-> IF s \in S THEN "forgotten" ELSE phase[s]]
            /\ stack' = [s \in Sagas |-> IF s \in S THEN {} ELSE stack[s]]

Next == \/ \E s \in Sagas : Start(s) \/ Push(s) \/ Fail(s) \/ Pop(s)
        \/ Abandon
        \/ Forget

Spec == Init /\ [][Next]_<<phase, stack>>
=============================================================================
