SPECIFICATION HostsSpec
CONSTANTS
  Extensions <- MCExtensions
  Sessions <- MCSessions
  Budgets <- MCBudgets
  Events <- MCEvents
  Obligations = {o1}
  Ids = {1, 2, 3}
  Deadlines = {0, 2}
  BoundBudgets = {1, 2, 3, 10}
  BoundObligations = {b1, b2}
INVARIANTS RecordsMatchCells TeardownIsQuiescent ReportIsHonest UnloadAllIsExhaustive
PROPERTIES ShutdownIsExhaustive
