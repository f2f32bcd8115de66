SPECIFICATION Spec
CONSTANTS
  Extensions <- MCExtensions
  Sessions <- MCSessions
  Budgets <- MCBudgets
  Events <- MCEvents
  Obligations = {o1}
INVARIANT ArchivedIsQuiescent
