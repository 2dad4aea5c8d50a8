\* Two operators and two commands at one file, and every failure: the next
\* server starts, keys stay budgeted, nothing shown is lost without overlap.
SPECIFICATION Spec
CONSTANTS
  o1 = o1
  o2 = o2
  k1 = k1
  k2 = k2
  own = own
  Operators <- MCOperators
  Users = {"ann", "bob"}
  Tokens <- MCTokens
  Providers = {"openai", "groq"}
  Models <- MCModels
  HandWritten <- MCHandWritten
  Setups <- MCSetups
  Edits <- MCEdits
  Commands = {"init", "add-provider", "reset-dashboard-password"}
  MaxCommands = 2
  WritesMayFail = TRUE
  CutAgain = FALSE
SYMMETRY Symmetry
INVARIANTS
  TypeOK
  KeysBudgeted
  FailedSaveLeavesNoTrace
  SavedConfigsLoad
  KnownFallbackReached
  ChangesSurvive
  AnswerShowsIssuedUsers
  AgreeWhileNothingFails
CHECK_DEADLOCK FALSE
