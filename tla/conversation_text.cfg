SPECIFICATION ConversationSpec
CONSTANTS
  Kinds = {"openai", "anthropic", "gemini"}
  MaxText = 2
  MaxCalls = 3
  MaxParts = 2
  Prompts = {5}
  Completions = {1, 2}
  PromptEstimate = 3
  PieceLength = 6
  Functions = {"f", "g"}
  Called <- MCCalled
  Chats <- ArrayChats
  MaxBlocks = 2
  MaxAnswers = 2
INVARIANTS
  TextReaches
CHECK_DEADLOCK FALSE
