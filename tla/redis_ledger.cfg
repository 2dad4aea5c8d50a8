SPECIFICATION Spec
CONSTANTS
  N = 2
  Instances = {"east", "west"}
  Home <- OneEach
  Users = {"ann"}
  MaxDay = 1
  Requests <- Units
  SettingsChoices <- OnlyTwo
  FailClosed = TRUE
  Unreliable = TRUE
  Resends = {"reserve", "reconcile"}
  Overruns = TRUE
  MaxOverrun = 1
  MaxLate = 1
  MaxSpend = 0
INVARIANTS
  TypeOK
  LedgerAccounts
  CommitmentWithinCeiling
