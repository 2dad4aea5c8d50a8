\* A failed write against the promise of Apply's comment.
SPECIFICATION Spec
CONSTANTS
  o1 = o1
  o2 = o2
  k1 = k1
  k2 = k2
  own = own
  Operators <- MCOperators
  Users = {"ann", "bob"}
  Tokens <- MCTokens
  Providers = {"openai", "groq"}
  Models <- MCModels
  HandWritten <- MCHandWritten
  Setups <- MCSetups
  Edits <- MCEdits
  Commands = {"init"}
  MaxCommands = 1
  WritesMayFail = TRUE
  CutAgain = FALSE
SYMMETRY Symmetry
INVARIANT
  ProcessAndFileAgree
CHECK_DEADLOCK FALSE
