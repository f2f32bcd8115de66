SPECIFICATION RemoteSpec
CONSTANTS
  MaxLeases = 3
  Ttls <- MCTtls
  Inputs <- MCInputs
  Computation <- MCComputation
  Ttl <- MCTtl
  MaxRuns = 2
  MaxTime = 3
  MaxEpoch = 1
INVARIANTS IndexTracksActive ActiveIsCurrent AnswersAreTrue
PROPERTIES EndedForGood OncePerTtl
