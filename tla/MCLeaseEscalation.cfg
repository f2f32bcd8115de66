SPECIFICATION LeaseSpec
CONSTANTS
  MaxLeases = 3
  Ttls <- MCTtls
  MaxTime = 3
  MaxEpoch = 1
INVARIANT ExpiryEscalates
