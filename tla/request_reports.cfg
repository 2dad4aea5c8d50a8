SPECIFICATION Spec
CONSTANTS
  Users = {"ann", "bob"}
  Models = {"gpt", "claude", "own"}
  ProviderOf <- MCProviderOf
  CostOf <- MCCostOf
  Hour = 2
  Day = 4
  Week = 6
  Month = 10
  DefaultLimit = 1
  MaxLimit = 2
  TopLimit = 2
  ReportMax = 4
  Sessions <- MCSessions
  Logs <- MCLogs
  NewRows <- MCNewRows
  Start = 14
  MaxNow = 16
  MaxRows = 5
INVARIANTS
  TypeOK
  AnswerOfItsTime
  PartsAgree
  ListComplete
  OptionsKept
CHECK_DEADLOCK FALSE
