\* A password reset beside a running server.
SPECIFICATION Spec
CONSTANTS
  o1 = o1
  o2 = o2
  k1 = k1
  k2 = k2
  own = own
  Operators <- MCOperators
  Users = {"ann", "bob"}
  Tokens <- MCTokens
  Providers = {"openai", "groq"}
  Models <- MCModels
  HandWritten <- MCHandWritten
  Setups <- MCSetups
  Edits <- MCEdits
  Commands = {"init", "add-provider", "reset-dashboard-password"}
  MaxCommands = 2
  WritesMayFail = FALSE
  CutAgain = FALSE
SYMMETRY Symmetry
INVARIANT
  ResetTakesEffect
CHECK_DEADLOCK FALSE
