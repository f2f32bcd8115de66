---------------------------- MODULE FleetProtocol ----------------------------
(***************************************************************************)
(* fleet_immune_protocol.rs: what each node of the fleet knows.            *)
(*                                                                         *)
(* A node numbers everything it sends with one counter (next_sequence) and *)
(* gossips it.  Gossip loses, duplicates, delays and reorders: a message   *)
(* once sent may be handed to any observer at any later moment, any number *)
(* of times, or never.  The receiver keeps the last number it accepted     *)
(* from each sender and refuses every number that is not larger.           *)
(*                                                                         *)
(* The evidence and the intents of one extension are followed (the code    *)
(* keeps those of different extensions apart by key).  Sending evidence    *)
(* again, under a new number or from another node, is a Send like any      *)
(* other.  Nodes are numbers, so that the comparison of node ids in the    *)
(* precedence rule has its order.  Signatures and protocol versions (all   *)
(* nodes run ProtocolVersion::CURRENT) are left out; a checkpoint keeps    *)
(* what a later step reads, its decision and the intents behind it.        *)
(***************************************************************************)
EXTENDS Integers, FiniteSets, SequenceFolds, FiniteSetsExt, Functions

CONSTANTS Nodes,            \* the senders; a set of numbers
          Observers,        \* the nodes whose protocol state is followed
          Delta,            \* posterior delta of each evidence trace
          Intents,          \* what may be proposed: [action, epoch]
          partition_timeout,
          MaxSent,          \* bound: messages sent by the whole fleet
          MaxTime,          \* bound of the clock
          MaxCheckpoints    \* bound: checkpoints of one node

ASSUME FleetNodes == Observers \subseteq Nodes /\ Nodes \subseteq Nat
ASSUME FleetData == /\ \A t \in DOMAIN Delta : Delta[t] \in Int
                    /\ Intents \subseteq [action : 0..4, epoch : Nat]

VARIABLES now,
          sent,         \* sent[m][k]: the message m numbered k
          fleet,        \* FleetProtocolState of each observer
          checkpoints   \* the checkpoints built that decide something

protocol == <<now, sent, fleet, checkpoints>>

Never == -1

\* The messages a node may build now.
Messages ==
  {[kind |-> "Evidence", trace |-> t] : t \in DOMAIN Delta}
    \cup {[kind |-> "Intent", action |-> i.action, epoch |-> i.epoch] : i \in Intents}
    \cup {[kind |-> "Heartbeat", timestamp |-> now]}

ProtocolInit ==
  /\ now = 0
  /\ sent = [m \in Nodes |-> <<>>]
  /\ fleet = [n \in Observers |->
               [last_accepted |-> [m \in Nodes |-> 0],
                seen_evidence |-> {}, accumulated |-> 0, evidence_count |-> 0,
                last_heartbeat |-> [m \in Nodes |-> Never],
                pending_intents |-> <<>>, last_checkpoint_seq |-> 0]]
  /\ checkpoints = {}

Elapse ==
  /\ now < MaxTime
  /\ now' = now + 1
  /\ UNCHANGED <<sent, fleet, checkpoints>>

\* A message with the next number of its sender.
Send(m) ==
  /\ SumFunction([x \in Nodes |-> Len(sent[x])]) < MaxSent
  /\ \E p \in Messages : sent' = [sent EXCEPT ![m] = Append(@, p)]
  /\ UNCHANGED <<now, fleet, checkpoints>>

\* Mutant: refuses only the number accepted last.
AcceptUnordered(f, m, k) == k # f.last_accepted[m]

\* NodeSequenceTracker::accept; a refused message changes nothing.
Accept(f, m, k) == k > f.last_accepted[m]

\* Mutant: the delta is added before the trace is looked up.
IngestAgain(f, t) ==
  [f EXCEPT !.seen_evidence = @ \cup {t},
            !.accumulated = @ + Delta[t],
            !.evidence_count = IF t \in f.seen_evidence THEN @ ELSE @ + 1]

\* A trace already seen is refused, after its number was consumed.  The code's
\* sums saturate at the ends of i64 and u64; the deltas stay far below.
Ingest(f, t) ==
  IF t \in f.seen_evidence
    THEN f
    ELSE [f EXCEPT !.seen_evidence = @ \cup {t},
                   !.accumulated = @ + Delta[t],
                   !.evidence_count = @ + 1]

\* process_evidence, process_intent, process_heartbeat
Process(n, m, k) ==
  LET p == sent[m][k]
      f == [fleet[n] EXCEPT !.last_accepted[m] = k]
  IN  /\ Accept(fleet[n], m, k)
      /\ fleet' = [fleet EXCEPT ![n] =
           CASE p.kind = "Evidence" -> Ingest(f, p.trace)
             [] p.kind = "Intent" ->
                  [f EXCEPT !.pending_intents = Append(@,
                     [node |-> m, seq |-> k, action |-> p.action, epoch |-> p.epoch])]
             [] p.kind = "Heartbeat" -> [f EXCEPT !.last_heartbeat[m] = p.timestamp]]
      /\ UNCHANGED <<now, sent, checkpoints>>

\* Severity, then epoch, then the smaller node id; a full tie keeps the first.
Resolve(a, b) ==
  CASE a.action # b.action -> IF a.action > b.action THEN a ELSE b
    [] a.action = b.action /\ a.epoch # b.epoch -> IF a.epoch > b.epoch THEN a ELSE b
    [] a.action = b.action /\ a.epoch = b.epoch -> IF a.node <= b.node THEN a ELSE b

ResolveAll(intents) == FoldLeft(Resolve, Head(intents), Tail(intents))

Known(f) == {m \in Nodes : f.last_heartbeat[m] # Never}
SuspectedPartitioned(f) == {m \in Known(f) : now - f.last_heartbeat[m] > partition_timeout}

\* quorum_threshold_millionths is 500_000 by default: half of total, rounded up.
Quorum(total) == (total + 1) \div 2

\* Mutant: the resolved intents stay pending.
ClearNothing(f) == f

ClearPending(f) == [f EXCEPT !.pending_intents = <<>>]

BuildCheckpoint(n) ==
  LET f == fleet[n]
      healthy == Known(f) \ SuspectedPartitioned(f)
      required == IF Known(f) = {} THEN 1 ELSE Quorum(Cardinality(Known(f)))
      seq == f.last_checkpoint_seq + 1
  IN  /\ seq <= MaxCheckpoints
      /\ Cardinality(healthy) >= required
      /\ checkpoints' = checkpoints \cup
           IF f.pending_intents = <<>>
             THEN {}
             ELSE {[node |-> n, seq |-> seq,
                    intents |-> {<<i.node, i.seq>> : i \in Range(f.pending_intents)},
                    action |-> ResolveAll(f.pending_intents).action]}
      /\ fleet' = [fleet EXCEPT ![n] = ClearPending([f EXCEPT !.last_checkpoint_seq = seq])]
      /\ UNCHANGED <<now, sent>>

ProtocolNext ==
  \/ Elapse
  \/ \E m \in Nodes : Send(m)
  \/ \E n \in Observers, m \in Nodes : \E k \in DOMAIN sent[m] : Process(n, m, k)
  \/ \E n \in Observers : BuildCheckpoint(n)

-----------------------------------------------------------------------------
(* What the protocol promises. *)

\* An intent contributes to at most one checkpoint of a node, however often
\* and in whatever order gossip hands it over ("Clear resolved pending intents
\* to prevent duplicate containment decisions in subsequent checkpoints").
IntentDecidedOnce ==
  \A c, d \in checkpoints :
    c.node = d.node /\ c.intents \cap d.intents # {} => c = d

\* Observers whose pending intents are the same set resolve them to the same
\* winner, although the intents arrived in different orders; a full tie is
\* only possible between two intents of one sender, whose order is the order
\* of their numbers everywhere (DeterministicPrecedence).
WinnersAgree ==
  \A n, o \in Observers :
    LET a == fleet[n].pending_intents  b == fleet[o].pending_intents
    IN  a # <<>> /\ Range(a) = Range(b) => ResolveAll(a) = ResolveAll(b)

\* An observer's posterior is the sum of the deltas of the distinct traces it
\* has accepted, each counted once although evidence is sent again under new
\* numbers and by other nodes (EvidenceAccumulator::ingest).
EvidenceCountedOnce ==
  \A n \in Observers :
    /\ fleet[n].accumulated = SumFunctionOnSet(Delta, fleet[n].seen_evidence)
    /\ fleet[n].evidence_count = Cardinality(fleet[n].seen_evidence)

=============================================================================
