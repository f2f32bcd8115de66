------------------------ MODULE ContainmentExecutor -------------------------
(***************************************************************************)
(* ContainmentExecutor (containment_executor.rs): the containment state of *)
(* every extension and the receipts of the actions taken on it.            *)
(*                                                                         *)
(* A decision is the number of the attempt that took it and stands for the *)
(* decision id together with the epoch it is taken in, the two things      *)
(* execute compares (the engine's epoch is fixed by its configuration);    *)
(* the decisions of callers other than the engine are negative.  Hashes,   *)
(* timestamps and the contents of a sandbox policy or a forensic snapshot  *)
(* are left out; sandboxed[x] says that the policy is set.                 *)
(***************************************************************************)
EXTENDS Integers, Sequences

CONSTANTS Extensions

VARIABLES contained,  \* contained[x]: ContainmentState, or "Unregistered"
          sandboxed,  \* sandboxed[x]: sandbox_policy is set
          receipts    \* receipts[x]: the receipts, oldest first

containment == <<contained, sandboxed, receipts>>

TargetState == [Allow |-> "Running", Challenge |-> "Challenged", Sandbox |-> "Sandboxed",
                Suspend |-> "Suspended", Terminate |-> "Terminated",
                Quarantine |-> "Quarantined"]
ContainmentActions == DOMAIN TargetState

ValidActions ==
  [Running |-> ContainmentActions,
   Challenged |-> ContainmentActions \ {"Challenge"},
   Sandboxed |-> {"Suspend", "Terminate", "Quarantine"},
   Suspended |-> {"Terminate", "Quarantine"},
   Terminated |-> {}, Quarantined |-> {}]

ContainmentInit == /\ contained = [x \in Extensions |-> "Unregistered"]
                   /\ sandboxed = [x \in Extensions |-> FALSE]
                   /\ receipts = [x \in Extensions |-> <<>>]

\* The state register leaves extension x in.
Registered(x) == IF contained[x] = "Unregistered" THEN "Running" ELSE contained[x]

\* execute answers with the last receipt when x is in the target state by
\* this very decision, in the same epoch.
Repeated(x, action, decision) ==
  /\ contained[x] = TargetState[action]
  /\ receipts[x] # <<>>
  /\ receipts[x][Len(receipts[x])].decision = decision

Refuses(x, action, decision) ==
  ~Repeated(x, action, decision) /\ action \notin ValidActions[Registered(x)]

\* register followed by execute, when execute does not refuse.
Contain(x, action, decision) ==
  /\ ~Refuses(x, action, decision)
  /\ IF Repeated(x, action, decision)
       THEN UNCHANGED containment
       ELSE /\ contained' = [contained EXCEPT ![x] = TargetState[action]]
            /\ sandboxed' = [sandboxed EXCEPT ![x] = @ \/ action = "Sandbox"]
            /\ receipts' = [receipts EXCEPT ![x] = Append(@,
                 [action |-> action, decision |-> decision,
                  previous |-> Registered(x), new |-> TargetState[action]])]

RegisterOnly(x) == /\ contained' = [contained EXCEPT ![x] = Registered(x)]
                   /\ UNCHANGED <<sandboxed, receipts>>

\* Mutant: the extension resumes without its sandbox.
ResumesToRunning(x) == "Running"

ResumesTo(x) == IF sandboxed[x] THEN "Sandboxed" ELSE "Running"

Resume(x, decision) ==
  /\ contained[x] = "Suspended"
  /\ contained' = [contained EXCEPT ![x] = ResumesTo(x)]
  /\ receipts' = [receipts EXCEPT ![x] = Append(@,
       [action |-> "Allow", decision |-> decision,
        previous |-> contained[x], new |-> ResumesTo(x)])]
  /\ UNCHANGED sandboxed

\* The executor by itself, driven by any caller.
ContainmentNext(x, action, decision) ==
  \/ RegisterOnly(x)
  \/ contained[x] # "Unregistered" /\ Contain(x, action, decision)
  \/ Resume(x, decision)
-----------------------------------------------------------------------------
Freedom == [Unregistered |-> 0, Running |-> 0, Challenged |-> 0, Sandboxed |-> 1,
            Suspended |-> 2, Terminated |-> 3, Quarantined |-> 3]

\* Over any sequence of actions, suspensions and resumptions an extension
\* that was sandboxed never runs outside the sandbox again, and one that is
\* terminated or quarantined stays as it is.
ContainmentSticks ==
  [][\A x \in Extensions :
       /\ Freedom[contained[x]] >= 1 /\ sandboxed[x] => Freedom[contained'[x]] >= 1
       /\ Freedom[contained[x]] = 3 => contained'[x] = contained[x]]_containment
=============================================================================
