SPECIFICATION Spec
CONSTANTS
  N = 2
  Users = {"default"}
  Default = "default"
  Models = {"big", "small"}
  Routed = {"big", "small"}
  MaxSize = 1
  Requests <- MeteredRequests
  Cost <- MCCost
  SettingsChoices <- Limited
  FailClosed = TRUE
  HasCache = FALSE
  StoreMayFail = TRUE
  Overruns = TRUE
  MaxSpend = 3
INVARIANTS
  InFlightIsSumOfHolds
  CommitmentWithinCeiling
  FailClosedMeters
PROPERTY
  ImplementsLedger
