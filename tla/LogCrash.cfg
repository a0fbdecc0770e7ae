SPECIFICATION Spec
CONSTANTS
  max_num = 3
  max_size = 2
  MaxLines = 16
  RotationMayBreak = TRUE
INVARIANT OldestIsFirst
CHECK_DEADLOCK FALSE
