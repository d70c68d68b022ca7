CONSTANTS
  s1 = s1
  Nobody = Nobody
  Sessions <- OneSession
  LongLines = TRUE
  MaxLines = 2
  MaxTurns = 1
  MaxRestarts = 1
SPECIFICATION FairSpec
INVARIANTS TranscriptKept EndedIsReleased
PROPERTIES IdleSessionsEnd RefinesLife
CHECK_DEADLOCK FALSE
