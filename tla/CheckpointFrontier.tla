------------------------- MODULE CheckpointFrontier -------------------------
(***************************************************************************)
(* CheckpointFrontierManager (checkpoint_frontier.rs): the per-zone ratchet*)
(* on accepted policy checkpoints, its persistent copy, and the crashes    *)
(* and recoveries between them.                                            *)
(*                                                                         *)
(* A checkpoint is a record of what accept_checkpoint reads; quorum says   *)
(* whether verify_checkpoint_quorum accepts its signatures.  The backend   *)
(* persists atomically, which is what its trait asks of an implementation. *)
(* A rejected checkpoint and a failed persist change nothing but the audit *)
(* events, which are left out.                                             *)
(***************************************************************************)
EXTENDS Integers, Sequences, FiniteSets

CONSTANTS Zones,        \* trust zones
          Checkpoints,  \* records [id, seq, epoch, prev, quorum]
          NoId,         \* no checkpoint
          MaxRecent     \* MAX_RECENT_ENTRIES

ASSUME CheckpointsAssumption ==
  \A c \in Checkpoints : c.seq \in Nat /\ c.epoch \in Nat /\ c.quorum \in BOOLEAN
ASSUME MaxRecentAssumption == MaxRecent \in Nat \ {0}

VARIABLES zones,     \* the manager's frontiers
          disk,      \* the backend's frontiers
          up,        \* a manager exists and has recovered
          accepted   \* accepted[z]: the sequence numbers ever accepted

frontier_vars == <<zones, disk, up, accepted>>

NoFrontier == [seq |-> 0, id |-> NoId, epoch |-> 0, accept_count |-> 0, recent |-> <<>>]
NoZones == [z \in Zones |-> NoFrontier]

FrontierInit ==
  /\ zones = NoZones
  /\ disk = NoZones
  /\ up = TRUE
  /\ accepted = [z \in Zones |-> {}]

\* Mutant: the trim drops the newest entry.
AdvanceTrimsNewest(f, c) ==
  LET all == Append(f.recent, c)
  IN [seq |-> c.seq, id |-> c.id, epoch |-> c.epoch,
      accept_count |-> f.accept_count + 1,
      recent |-> IF Len(all) > MaxRecent THEN SubSeq(all, 1, MaxRecent) ELSE all]

\* from_genesis and advance: the new frontier, the oldest entries dropped from
\* the window.
Advance(f, c) ==
  LET all == Append(f.recent, c)
      excess == Len(all) - MaxRecent
  IN [seq |-> c.seq, id |-> c.id, epoch |-> c.epoch,
      accept_count |-> f.accept_count + 1,
      recent |-> IF excess > 0 THEN SubSeq(all, excess + 1, Len(all)) ELSE all]

\* Mutant: only the frontier itself is refused, not what lies below it.
PassesUnlessFrontier(f, c) ==
  /\ f # NoFrontier => c.seq # f.seq /\ c.epoch >= f.epoch
  /\ c.quorum

\* The checks of accept_checkpoint and accept_genesis, in the code's order:
\* sequence, epoch, quorum.  prev is not among them.
Passes(f, c) ==
  /\ f # NoFrontier => c.seq > f.seq /\ c.epoch >= f.epoch
  /\ c.quorum

\* Mutant: memory is updated first and the persist fails.
AcceptMemoryOnly(z, c) ==
  /\ up
  /\ Passes(zones[z], c)
  /\ zones' = [zones EXCEPT ![z] = Advance(zones[z], c)]
  /\ accepted' = [accepted EXCEPT ![z] = @ \cup {c.seq}]
  /\ UNCHANGED <<disk, up>>

AcceptCheckpoint(z, c) ==
  /\ up
  /\ Passes(zones[z], c)
  /\ disk' = [disk EXCEPT ![z] = Advance(zones[z], c)]
  /\ zones' = [zones EXCEPT ![z] = Advance(zones[z], c)]
  /\ accepted' = [accepted EXCEPT ![z] = @ \cup {c.seq}]
  /\ UNCHANGED up

\* The process dies after persist and before the update in memory: the caller
\* gets no answer, the checkpoint counts as accepted.
AcceptThenCrash(z, c) ==
  /\ up
  /\ Passes(zones[z], c)
  /\ disk' = [disk EXCEPT ![z] = Advance(zones[z], c)]
  /\ zones' = NoZones
  /\ accepted' = [accepted EXCEPT ![z] = @ \cup {c.seq}]
  /\ up' = FALSE

Crash ==
  /\ up
  /\ zones' = NoZones
  /\ up' = FALSE
  /\ UNCHANGED <<disk, accepted>>

\* new, then recover, as recover's documentation requires of the caller.
Recover ==
  /\ ~up
  /\ zones' = disk
  /\ up' = TRUE
  /\ UNCHANGED <<disk, accepted>>

FrontierNext ==
  \/ \E z \in Zones, c \in Checkpoints :
       AcceptCheckpoint(z, c) \/ AcceptThenCrash(z, c)
  \/ Crash
  \/ Recover

FrontierSpec == FrontierInit /\ [][FrontierNext]_frontier_vars

(***************************************************************************)
(* Properties.                                                             *)
(***************************************************************************)
\* A running manager and the disk never disagree, so that a crash at any point
\* loses no acceptance and invents none.
MirrorsDisk == up => zones = disk

\* Unconditional rollback rejection, across crashes: whatever is accepted is
\* newer than everything ever accepted in the zone, even when the caller of
\* the earlier acceptance never saw the answer, and the epoch of a zone's
\* frontier never decreases.
NeverRollsBack ==
  [][\A z \in Zones :
       /\ \A s \in accepted'[z] \ accepted[z] : \A t \in accepted[z] : s > t
       /\ disk[z].epoch <= disk'[z].epoch]_frontier_vars

\* Every move of the frontier accepted something new, and the forensic window
\* is the end of that history: it ends at the frontier and is full once enough
\* was accepted.
RecentIsHistory ==
  \A z \in Zones :
    LET f == disk[z] IN
    /\ f.accept_count = Cardinality(accepted[z])
    /\ Len(f.recent) = IF f.accept_count < MaxRecent THEN f.accept_count ELSE MaxRecent
    /\ f.recent # <<>> => f.recent[Len(f.recent)].id = f.id
=============================================================================
