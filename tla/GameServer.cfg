SPECIFICATION FairSpec
CONSTANT PIPE_CAPACITY = 4
INVARIANTS
  TypeOK
  StoppedMeansGone
  StopIsALine
PROPERTIES
  OneWaitThread
  Restarted
  LineGetsThrough
CHECK_DEADLOCK FALSE
