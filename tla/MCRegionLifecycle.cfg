SPECIFICATION RegionSpec
CONSTANTS
  Regions = {r1, r2, r3}
  Obligations = {o1}
  Deadlines = {0, 2}
  MaxTicks = 2
SYMMETRY RegionSymmetry
INVARIANTS
  EscalationResolvesAll
PROPERTIES
  PhasesOnlyAdvance
  NoNewWorkAfterCancel
  SuccessIsHonest
CHECK_DEADLOCK FALSE
