CONSTANTS
  s1 = s1
  Nobody = Nobody
  Sessions <- OneSession
  LongLines = FALSE
  MaxLines = 1
  MaxTurns = 0
  MaxRestarts = 0
SPECIFICATION Spec
INVARIANTS FullConversation
CHECK_DEADLOCK FALSE
