SPECIFICATION Spec
CONSTANTS
  N = 2
  Instances = {"east", "west"}
  Home <- OneEach
  Users = {"ann"}
  MaxDay = 1
  Requests <- Units
  SettingsChoices <- AnyBudget
  FailClosed = FALSE
  Unreliable = TRUE
  Resends = {}
  Overruns = FALSE
  MaxOverrun = 0
  MaxLate = 0
  MaxSpend = 1
PROPERTY
  ImplementsLedger
