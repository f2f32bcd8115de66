---------------------------- MODULE LeaseTracker ----------------------------
(***************************************************************************)
(* LeaseStore (lease_tracker.rs): leases on a virtual clock, the index that*)
(* expiry scans read, and the escalations they return.                     *)
(*                                                                         *)
(* All callers read one clock, now.  A slot of the index holds each lease  *)
(* at most once, so the index is a set of pairs <<expires_at, id>>.        *)
(* escalations counts the escalation actions returned for a lease, scanned *)
(* is the time of the last scan.  Holders, kinds and events are left out;  *)
(* zero TTLs are refused by grant.                                         *)
(***************************************************************************)
EXTENDS SecurityEpoch, VirtualClock, FiniteSets

CONSTANTS MaxLeases,  \* bound: leases granted
          Ttls        \* times to live asked for

ASSUME LeaseBounds == MaxLeases \in Nat /\ Ttls \subseteq Nat \ {0}

VARIABLES next_id, leases, index, escalations, scanned

lease_vars == <<now, current_epoch, next_id, leases, index, escalations, scanned>>

Ids == 1..MaxLeases
NoLease == [status |-> "none", ttl |-> 0, expires_at |-> 0, epoch |-> 0]

LeaseInit == /\ now = 0
             /\ current_epoch = 0
             /\ next_id = 1
             /\ leases = [i \in Ids |-> NoLease]
             /\ index = {}
             /\ escalations = [i \in Ids |-> 0]
             /\ scanned = 0

\* The clock of the callers.
LeaseTick == /\ ClockTick
             /\ UNCHANGED <<current_epoch, next_id, leases, index, escalations, scanned>>

Grant(ttl) ==
  /\ next_id <= MaxLeases
  /\ next_id' = next_id + 1
  /\ leases' = [leases EXCEPT ![next_id] =
                  [status |-> "Active", ttl |-> ttl, expires_at |-> now + ttl,
                   epoch |-> current_epoch]]
  /\ index' = index \cup {<<now + ttl, next_id>>}
  /\ UNCHANGED <<now, current_epoch, escalations, scanned>>

\* Mutant: the old index entry stays, the new one is not made.
RenewKeepsIndex(i) ==
  /\ leases[i].status = "Active"
  /\ now < leases[i].expires_at
  /\ leases[i].epoch = current_epoch
  /\ leases' = [leases EXCEPT ![i].expires_at = now + leases[i].ttl]
  /\ UNCHANGED <<now, current_epoch, next_id, index, escalations, scanned>>

\* renew in time: the lease moves to the slot of its new expiry.
RenewLive(i) ==
  /\ leases[i].status = "Active"
  /\ now < leases[i].expires_at
  /\ leases[i].epoch = current_epoch
  /\ leases' = [leases EXCEPT ![i].expires_at = now + leases[i].ttl]
  /\ index' = (index \ {<<leases[i].expires_at, i>>}) \cup {<<now + leases[i].ttl, i>>}
  /\ UNCHANGED <<now, current_epoch, next_id, escalations, scanned>>

\* Mutant: a late renewal is still granted.
ExpireLateRenews(i) ==
  /\ leases[i].status \in {"Active", "Expired"}
  /\ now >= leases[i].expires_at
  /\ leases[i].epoch = current_epoch
  /\ leases' = [leases EXCEPT ![i].status = "Active", ![i].expires_at = now + leases[i].ttl]
  /\ index' = (index \ {<<leases[i].expires_at, i>>}) \cup {<<now + leases[i].ttl, i>>}
  /\ UNCHANGED <<now, current_epoch, next_id, escalations, scanned>>

\* An active lease met past its expiry: it is marked, the index is kept.
ExpireLate(i) ==
  /\ leases[i].status = "Active"
  /\ now >= leases[i].expires_at
  /\ leases' = [leases EXCEPT ![i].status = "Expired"]
  /\ UNCHANGED <<now, current_epoch, next_id, index, escalations, scanned>>

\* renew leaves ended leases alone.
Renew(i) == RenewLive(i) \/ ExpireLate(i)

\* check only marks.
Check(i) == ExpireLate(i)

\* release refuses only a lease already released.
Release(i) ==
  /\ leases[i].status \in {"Active", "Expired"}
  /\ index' = index \ {<<leases[i].expires_at, i>>}
  /\ leases' = [leases EXCEPT ![i].status = "Released"]
  /\ UNCHANGED <<now, current_epoch, next_id, escalations, scanned>>

\* leases and escalations after the leases of a set expire with an escalation.
Escalate(ids) ==
  /\ leases' = [i \in Ids |-> IF i \in ids THEN [leases[i] EXCEPT !.status = "Expired"]
                                           ELSE leases[i]]
  /\ escalations' = [i \in Ids |-> IF i \in ids THEN escalations[i] + 1 ELSE escalations[i]]

\* Mutant: slots of exactly this tick are not looked at.
ScanExpiredBefore ==
  /\ Escalate({i \in Ids : /\ leases[i].status = "Active"
                           /\ \E k \in index : k[2] = i /\ k[1] < now})
  /\ index' = {k \in index : k[1] >= now}
  /\ scanned' = now
  /\ UNCHANGED <<now, current_epoch, next_id>>

\* The index is read up to now, active leases found there are escalated, and
\* those slots are dropped.
ScanExpired ==
  /\ Escalate({i \in Ids : /\ leases[i].status = "Active"
                           /\ \E k \in index : k[2] = i /\ k[1] <= now})
  /\ index' = {k \in index : k[1] > now}
  /\ scanned' = now
  /\ UNCHANGED <<now, current_epoch, next_id>>

\* Any epoch may be passed; the index is rebuilt from what stays active.
LeaseAdvanceEpoch(e) ==
  LET stale == {i \in Ids : leases[i].status = "Active" /\ leases[i].epoch # e} IN
  /\ Escalate(stale)
  /\ index' = {<<leases[i].expires_at, i>> :
                 i \in {j \in Ids : leases[j].status = "Active"} \ stale}
  /\ current_epoch' = e
  /\ UNCHANGED <<now, next_id, scanned>>

LeaseNext == \/ LeaseTick
             \/ \E ttl \in Ttls : Grant(ttl)
             \/ \E i \in Ids : Renew(i) \/ Check(i) \/ Release(i)
             \/ ScanExpired
             \/ \E e \in Epochs : LeaseAdvanceEpoch(e)

LeaseSpec == LeaseInit /\ [][LeaseNext]_lease_vars

(***************************************************************************)
(* Properties.                                                             *)
(***************************************************************************)
Active == {i \in Ids : leases[i].status = "Active"}

\* The types of the store; ids are given out in order and an entry of the
\* index is of an id that was given out.
LeaseTypeOK ==
  /\ now \in Nat /\ scanned \in 0..now
  /\ current_epoch \in Epochs
  /\ next_id \in 1..MaxLeases+1
  /\ leases \in [Ids -> [status : {"none", "Active", "Expired", "Released"},
                        ttl : Ttls \cup {0}, expires_at : Nat, epoch : Epochs]]
  /\ index \subseteq Nat \X (1..next_id-1)
  /\ escalations \in [Ids -> Nat]

\* The index has an active lease in the slot of its expiry and in no other, so
\* that no scan can miss it or meet it early.
IndexTracksActive ==
  \A i \in Active : {k \in index : k[2] = i} = {<<leases[i].expires_at, i>>}

\* An active lease belongs to the current epoch, whichever way epochs move (the
\* epoch check of renew can therefore never fail), and was not overdue at the
\* last scan: a scan leaves none behind and none is brought back.
ActiveIsCurrent ==
  \A i \in Active : leases[i].epoch = current_epoch /\ leases[i].expires_at > scanned

\* A lease that ended never becomes active again and is not escalated again,
\* and a released lease stays released.
EndedForGood ==
  [][\A i \in Ids :
       /\ leases[i].status \in {"Expired", "Released"} =>
            leases'[i].status \in {leases[i].status, "Released"}
       /\ leases[i].status \in {"Expired", "Released"} => escalations'[i] = escalations[i]]_lease_vars

\* "When liveness is lost (lease expires without renewal), deterministic
\* escalation occurs": an expired lease that a scan has gone past was escalated.
ExpiryEscalates ==
  \A i \in Ids : leases[i].status = "Expired" /\ leases[i].expires_at <= scanned =>
                   escalations[i] = 1
=============================================================================
