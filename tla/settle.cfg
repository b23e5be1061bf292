CONSTANTS
  Record = {1, 2, 3}
  ProviderOf <- ProviderOfDef
  Page = 2
  BatchSize = 1
  MaxLife = 3
  Lag = 1
  MaxHead = 3
  MaxRuns = 2
  MaxKey = 2
  Crashes = TRUE
SPECIFICATION Spec
INVARIANTS TypeOK PlanComplete ClearMeansSettled
PROPERTY PromiseKept
CHECK_DEADLOCK FALSE
