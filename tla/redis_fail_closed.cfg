SPECIFICATION Spec
CONSTANTS
  N = 2
  Instances = {"east", "west"}
  Home <- OneEach
  Users = {"ann"}
  MaxDay = 0
  Requests <- Units
  SettingsChoices <- OnlyOne
  FailClosed = TRUE
  Unreliable = TRUE
  Resends = {}
  Overruns = FALSE
  MaxOverrun = 0
  MaxLate = 1
  MaxSpend = 1
INVARIANT
  FailClosedMeters
