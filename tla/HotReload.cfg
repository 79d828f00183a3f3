CONSTANTS
  w1 = w1
  Workers <- OneWorker
  Budgets <- TheBudgets
  EarlyEdits = FALSE
  SameReturns = FALSE
SPECIFICATION FairReloadSpec
INVARIANT ReadersCurrent
PROPERTIES RulesFollow SignalServed
CHECK_DEADLOCK FALSE
