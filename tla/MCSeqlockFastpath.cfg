SPECIFICATION Spec
CONSTANTS
  Threads = {t1, t2, t3}
  NoThread = NoThread
  MaxWrites = 3
  MaxReads = 2
  MaxRetries = 1
  MaxWriterPressure = 1
  SeqModulus = 8
SYMMETRY ThreadSymmetry
INVARIANTS
  ValidatedCloneIsCommitted
  LoopSeesASnapshot
  TelemetryAccounts
PROPERTIES
  RegisterSpec
