SPECIFICATION Spec
CONSTANTS
  N = 2
  Users = {"default"}
  Default = "default"
  Models = {"big", "small"}
  Routed = {"big", "small"}
  MaxSize = 1
  Requests <- StreamRequests
  Cost <- MCCost
  SettingsChoices <- LimitedOnly
  FailClosed = TRUE
  HasCache = FALSE
  StoreMayFail = FALSE
  Overruns = FALSE
  MaxSpend = 4
INVARIANT
  SpendWithinCeiling
