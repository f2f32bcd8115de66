\* One engine that knows three nodes by their heartbeats, itself among them;
\* the heartbeats stop at different times.
SPECIFICATION Spec
CONSTANTS
  Nodes = {1, 2, 3}
  Observers = {1}
  Engines = {1}
  Delta <- MCDelta
  Intents = {}
  partition_timeout = 1
  MaxSent = 2
  MaxTime = 3
  MaxCheckpoints = 0
  thresholds <- MCThresholds
  tightening_factor = 75
  max_escalation_depth = 0
INVARIANTS MinorityIsTightened
