\* Two observers that both send: up to three messages in the whole fleet.
SPECIFICATION Spec
CONSTANTS
  Nodes = {1, 2}
  Observers = {1, 2}
  Engines = {1}
  Delta <- MCDelta
  Intents <- MCIntents
  partition_timeout = 0
  MaxSent = 3
  MaxTime = 1
  MaxCheckpoints = 2
  thresholds <- MCThresholds
  tightening_factor = 75
  max_escalation_depth = 1
INVARIANTS WinnersAgree IntentDecidedOnce EvidenceCountedOnce AppliedIsContained
PROPERTIES EscalatesOnly
