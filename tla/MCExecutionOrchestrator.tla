---------------------- MODULE MCExecutionOrchestrator -----------------------
(***************************************************************************)
(* The engine with three attempts, seen from three sides; focus, chosen    *)
(* initially, says from which.  The steps of a side are some of Next.      *)
(*                                                                         *)
(* "engine": p1 that needs two receipts, p2 that needs none and p3 that    *)
(* does not parse, under every decision and every failure, with room for   *)
(* one saga; callers stage what prepare asked them for.                    *)
(* "receipts": p1, p4 that shares an obligation with it and p5 that lists  *)
(* one twice, and every receipt but the one for the last attempt under     *)
(* every attempt; what follows the guards fails, which leaves nothing      *)
(* behind but the grants.                                                  *)
(* "executor": the containment executor by itself under all of its         *)
(* actions, with up to four receipts for an extension.                     *)
(***************************************************************************)
EXTENDS ExecutionOrchestrator

CONSTANTS p1, p2, p3, p4, p5,
          MaxStaged    \* bound: receipts staged at one time

VARIABLE focus

MCNeeds == [p \in Extensions |-> CASE p = p1 -> <<"o1", "o2">>
                                   [] p = p4 -> <<"o1">>
                                   [] p = p5 -> <<"o2", "o2">>
                                   [] OTHER -> <<>>]

Good(k) == [minted_for |-> k, approves |-> {p1, p4, p5} \X Obligations]
MCDeclassReceipts == {Good(0), Good(1), Good(2), [minted_for |-> 1, approves |-> {<<p1, "o1">>}]}

MCInit == Init /\ focus \in {"engine", "receipts", "executor"}

EngineNext ==
  \/ \E p \in {p1, p2, p3} :
       \/ PrepareNextRuntimeFlowGuards(p)
       \/ \E fate \in Fates, decided \in Decisions, stop \in BOOLEAN : Execute(p, fate, decided, stop)
  \/ /\ reserved.package = p1
     /\ \E o \in Obligations : StageReceipt(reserved.attempt, o, Good(reserved.attempt))

ReceiptsNext ==
  \/ \E p \in {p1, p4, p5} :
       \/ PrepareNextRuntimeFlowGuards(p)
       \/ \E fate \in {"checkpoint", "interpreter"} : Execute(p, fate, "Allow", FALSE)
  \/ /\ \E k \in 0..MaxAttempts-1, o \in Obligations, receipt \in DeclassReceipts \ {Good(2)} :
          StageReceipt(k, o, receipt)
     /\ Cardinality(staged') <= MaxStaged

ExecutorNext ==
  \E action \in ContainmentActions, decision \in {-1, -2} :
    /\ Len(receipts[p1]) < 4
    /\ ContainmentNext(p1, action, decision)

MCNext == /\ UNCHANGED focus
          /\ \/ focus = "engine" /\ EngineNext
             \/ focus = "receipts" /\ ReceiptsNext
             \/ focus = "executor" /\ ExecutorNext /\ UNCHANGED <<engine, ghosts>>

MCSpec == MCInit /\ [][MCNext]_<<focus, vars>>
=============================================================================
