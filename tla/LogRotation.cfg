SPECIFICATION FairSpec
CONSTANTS
  max_num = 3
  max_size = 2
  MaxLines = 16
  RotationMayBreak = FALSE
INVARIANTS
  TypeOK
  SizeIsCurrent
  OldestIsFirst
PROPERTIES
  HistorySpec
  LogReopens
CHECK_DEADLOCK FALSE
