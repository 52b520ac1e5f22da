CONSTANTS
  NRows = 2
  Conversations = {A}
  Conv <- OneConversation
  Workers = {w1, w2}
  None = None
  MaxAttempts = 2
  BatchLimit = 1
CHECK_DEADLOCK FALSE
SPECIFICATION Spec
SYMMETRY Symmetry
INVARIANTS
  ProcessedIsHandled
  OneTurnPerConversation
  ConversationsGoOn
PROPERTY
  AnsweredInOrder
