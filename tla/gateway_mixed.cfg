SPECIFICATION FairSpec
CONSTANTS
  N = 2
  Users = {"default"}
  Default = "default"
  Models = {"big", "small"}
  Routed = {"big", "small"}
  MaxSize = 1
  Requests <- MixedRequests
  Cost <- MCCost
  SettingsChoices <- AnyLimits
  FailClosed = FALSE
  HasCache = TRUE
  StoreMayFail = TRUE
  Overruns = TRUE
  MaxSpend = 0
INVARIANTS
  TypeOK
  InFlightIsSumOfHolds
PROPERTY
  RequestsAnswered
