SPECIFICATION FairSpec
CONSTANTS
  Threads = {t1, t2, t3}
  NoThread = NoThread
  MaxWrites = 2
  MaxReads = 2
  MaxRetries = 1
  MaxWriterPressure = 1
  SeqModulus = 8
PROPERTIES
  OperationsReturn
