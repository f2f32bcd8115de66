SPECIFICATION FairSpec
CONSTANTS
  Sagas = {s1}
  N = 3
  Workers = {w1, w2}
  max_concurrent = 1
  MaxEpoch = 1
INVARIANTS ActiveInEpoch CompletedIsApplied CompensationIsReal
PROPERTIES UndoStackSpec SagasEnd
