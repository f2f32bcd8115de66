-------------------------- MODULE RegionLifecycle --------------------------
(***************************************************************************)
(* Region (region_lifecycle.rs): the three-phase close protocol            *)
(* cancel -> drain -> finalize over a tree of regions that own obligations.*)
(*                                                                         *)
(* A region owns its children by value, so once attached a child is driven *)
(* only through the root of its tree.  The tree is represented by the set  *)
(* of ancestors of each region; each recursive descent of the code is the  *)
(* set of regions it reaches (Reach).  Finalizing is passed through inside *)
(* finalize and is never the state of a region between two calls.  Reasons,*)
(* event records and descriptions are left out.                            *)
(***************************************************************************)
EXTENDS Naturals, FiniteSets

CONSTANTS Regions,      \* region identities
          Obligations,  \* obligation identifiers, per region
          Deadlines,    \* values of DrainDeadline.max_ticks passed to drain
          MaxTicks      \* bound: drain ticks of one region

ASSUME DeadlinesAssumption == Deadlines \subseteq Nat /\ MaxTicks \in Nat

VARIABLES region_state, \* RegionState of each region
          status,     \* status[r][o]: "absent" or ObligationStatus
          deadline, elapsed, escalated,  \* the drain clock of each region
          ancestors,  \* the regions that own r, directly or not
          succeeded   \* regions whose finalize returned success

region_vars == <<region_state, status, deadline, elapsed, escalated, ancestors, succeeded>>

RegionStates == {"Running", "CancelRequested", "Draining", "Closed"}
Statuses == {"absent", "Pending", "Committed", "Aborted"}

RegionInit ==
  /\ region_state = [r \in Regions |-> "Running"]
  /\ status = [r \in Regions |-> [o \in Obligations |-> "absent"]]
  /\ deadline = [r \in Regions |-> 0]
  /\ elapsed = [r \in Regions |-> 0]
  /\ escalated = [r \in Regions |-> FALSE]
  /\ ancestors = [r \in Regions |-> {}]
  /\ succeeded = {}

IsRoot(r) == ancestors[r] = {}
Subtree(r) == {x \in Regions : x = r \/ r \in ancestors[x]}
Children(r) == {x \in Regions : ancestors[x] = ancestors[r] \cup {r}}
Pending(r) == {o \in Obligations : status[r][o] = "Pending"}

\* r, and what a recursion from r visits when it enters only children whose
\* state under st is s.
Reach(r, s, st) ==
  {x \in Subtree(r) :
     \A y \in Subtree(r) \ {r} : (y = x \/ y \in ancestors[x]) => st[y] = s}

\* st with the regions of xs moved to s.
Move(st, xs, s) == [x \in Regions |-> IF x \in xs THEN s ELSE st[x]]

(***************************************************************************)
(* Building the tree and working in it.                                    *)
(***************************************************************************)
\* The child moves into the parent with everything it owns; no state check.
AddChild(p, c) ==
  /\ p # c /\ IsRoot(p) /\ IsRoot(c)
  /\ ancestors' = [x \in Regions |->
                     IF x \in Subtree(c) THEN ancestors[x] \cup {p}
                                         ELSE ancestors[x]]
  /\ UNCHANGED <<region_state, status, deadline, elapsed, escalated, succeeded>>

\* Mutant: work is accepted until the region drains.
RegisterObligationLate(r, o) ==
  /\ IsRoot(r)
  /\ region_state[r] \in {"Running", "CancelRequested"}
  /\ status' = [status EXCEPT ![r][o] = "Pending"]
  /\ UNCHANGED <<region_state, deadline, elapsed, escalated, ancestors, succeeded>>

\* A registration on a region that is not Running returns false.
RegisterObligation(r, o) ==
  /\ IsRoot(r)
  /\ region_state[r] = "Running"
  /\ status' = [status EXCEPT ![r][o] = "Pending"]
  /\ UNCHANGED <<region_state, deadline, elapsed, escalated, ancestors, succeeded>>

\* commit_obligation and abort_obligation: any known obligation, any state.
ResolveObligation(r, o, outcome) ==
  /\ IsRoot(r)
  /\ status[r][o] # "absent"
  /\ status' = [status EXCEPT ![r][o] = outcome]
  /\ UNCHANGED <<region_state, deadline, elapsed, escalated, ancestors, succeeded>>

(***************************************************************************)
(* The phases.  Each refuses a root in the wrong state and otherwise takes *)
(* the children that are in the same phase along, leaves first.            *)
(***************************************************************************)
Cancel(r) ==
  /\ IsRoot(r)
  /\ region_state[r] = "Running"
  /\ region_state' = Move(region_state, Reach(r, "Running", region_state), "CancelRequested")
  /\ UNCHANGED <<status, deadline, elapsed, escalated, ancestors, succeeded>>

\* Mutant: drain takes every child along, whatever its state.
DrainEveryChild(r, d) ==
  /\ IsRoot(r)
  /\ region_state[r] = "CancelRequested"
  /\ region_state' = Move(region_state, Subtree(r), "Draining")
  /\ deadline' = Move(deadline, Subtree(r), d)
  /\ elapsed' = Move(elapsed, Subtree(r), 0)
  /\ UNCHANGED <<status, escalated, ancestors, succeeded>>

Drain(r, d) ==
  /\ IsRoot(r)
  /\ region_state[r] = "CancelRequested"
  /\ LET draining == Reach(r, "CancelRequested", region_state) IN
     /\ region_state' = Move(region_state, draining, "Draining")
     /\ deadline' = Move(deadline, draining, d)
     /\ elapsed' = Move(elapsed, draining, 0)
  /\ UNCHANGED <<status, escalated, ancestors, succeeded>>

DrainTick(r) ==
  /\ IsRoot(r)
  /\ region_state[r] = "Draining"
  /\ elapsed[r] < MaxTicks
  /\ LET ticked == Reach(r, "Draining", region_state) IN
     /\ elapsed' = [x \in Regions |-> IF x \in ticked THEN elapsed[x] + 1
                                                      ELSE elapsed[x]]
     /\ escalated' = [x \in Regions |->
                        \/ escalated[x]
                        \/ x \in ticked /\ elapsed[x] + 1 >= deadline[x]]
  /\ UNCHANGED <<region_state, status, deadline, ancestors, succeeded>>

\* Pending obligations are aborted where the drain timed out, and only there.
ForceAbort(closing, esc) ==
  [x \in Regions |->
     IF x \in closing /\ esc[x]
     THEN [o \in Obligations |-> IF status[x][o] = "Pending" THEN "Aborted"
                                                             ELSE status[x][o]]
     ELSE status[x]]

\* Mutant: a child that is not draining is not looked at.
SucceedsDrainingOnly(x, closing, st) ==
  \A y \in closing \cap Subtree(x) : \A o \in Obligations : st[y][o] # "Pending"

\* success of x: nothing pending below it in what this call closes, and every
\* other child it meets is already Closed.
Succeeds(x, closing, st) ==
  \A y \in closing \cap Subtree(x) :
    /\ \A o \in Obligations : st[y][o] # "Pending"
    /\ \A z \in Children(y) \ closing : region_state[z] = "Closed"

Closing(closing, st) ==
  /\ status' = st
  /\ region_state' = Move(region_state, closing, "Closed")
  /\ succeeded' = succeeded \cup {x \in closing : Succeeds(x, closing, st)}

\* Mutant: the timeout escalation is noted but pending work is left alone.
FinalizeKeepsPending(r) ==
  /\ IsRoot(r)
  /\ region_state[r] = "Draining"
  /\ Closing(Reach(r, "Draining", region_state), status)
  /\ UNCHANGED <<deadline, elapsed, escalated, ancestors>>

Finalize(r) ==
  /\ IsRoot(r)
  /\ region_state[r] = "Draining"
  /\ LET closing == Reach(r, "Draining", region_state)
     IN Closing(closing, ForceAbort(closing, escalated))
  /\ UNCHANGED <<deadline, elapsed, escalated, ancestors>>

\* close: cancel, drain, tick to the deadline unless r and its children have
\* nothing pending, finalize.
Close(r, d) ==
  /\ IsRoot(r)
  /\ region_state[r] = "Running"
  /\ LET cancelled == Move(region_state, Reach(r, "Running", region_state), "CancelRequested")
         draining == Reach(r, "CancelRequested", cancelled)
         closing == Reach(r, "Draining", Move(cancelled, draining, "Draining"))
         idle == \A x \in {r} \cup Children(r) : Pending(x) = {}
         ticks == IF idle THEN 0 ELSE d
         dl == Move(deadline, draining, d)
         el == Move(elapsed, draining, 0)
         esc == [x \in Regions |->
                   \/ escalated[x]
                   \/ x \in closing /\ ticks > 0 /\ el[x] + ticks >= dl[x]]
     IN /\ deadline' = dl
        /\ elapsed' = [x \in Regions |-> IF x \in closing THEN el[x] + ticks
                                                          ELSE el[x]]
        /\ escalated' = esc
        /\ Closing(closing, ForceAbort(closing, esc))
  /\ UNCHANGED ancestors

RegionNext ==
  \/ \E p, c \in Regions : AddChild(p, c)
  \/ \E r \in Regions :
       \/ \E o \in Obligations :
            \/ RegisterObligation(r, o)
            \/ ResolveObligation(r, o, "Committed")
            \/ ResolveObligation(r, o, "Aborted")
       \/ Cancel(r) \/ DrainTick(r) \/ Finalize(r)
       \/ \E d \in Deadlines : Drain(r, d) \/ Close(r, d)

RegionSpec == RegionInit /\ [][RegionNext]_region_vars

(***************************************************************************)
(* Properties.                                                             *)
(***************************************************************************)
Rank == [s \in RegionStates |->
           CASE s = "Running" -> 0 [] s = "CancelRequested" -> 1
             [] s = "Draining" -> 2 [] s = "Closed" -> 3]

\* The types of the fields of Region.
RegionTypeOK ==
  /\ region_state \in [Regions -> RegionStates]
  /\ status \in [Regions -> [Obligations -> Statuses]]
  /\ deadline \in [Regions -> Nat]
  /\ elapsed \in [Regions -> Nat]
  /\ escalated \in [Regions -> BOOLEAN]
  /\ ancestors \in [Regions -> SUBSET Regions]
  /\ succeeded \subseteq Regions

\* Phase order is strict: whichever region of the tree a call is made on, no
\* region goes back to an earlier phase, and Closed is final.
PhasesOnlyAdvance ==
  [][\A r \in Regions : Rank[region_state[r]] <= Rank[region_state'[r]]]_region_vars

\* Once cancel was requested nothing new becomes pending, neither by
\* register_obligation nor as a side effect of a parent's or child's phase.
NoNewWorkAfterCancel ==
  [][\A r \in Regions : region_state[r] # "Running" => Pending(r)' \subseteq Pending(r)]_region_vars

\* A drain that timed out ends with everything resolved: finalize aborts what
\* is still pending in every escalated region it closes, at any depth.
EscalationResolvesAll ==
  \A r \in Regions :
    region_state[r] = "Closed" /\ escalated[r] => Pending(r) = {}

\* FinalizeResult.success is never reported over unfinished work: neither the
\* region nor anything below it that the call closed has anything pending, a
\* grandchild that close does not look at while it ticks included, and all the
\* children it had are Closed.
SuccessIsHonest ==
  [][\A r \in succeeded' \ succeeded :
       /\ \A x \in Subtree(r) : x = r \/ region_state'[x] # region_state[x] => Pending(x)' = {}
       /\ \A c \in Children(r) : region_state'[c] = "Closed"]_region_vars
=============================================================================
