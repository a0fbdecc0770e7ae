SPECIFICATION FairSpec
CONSTANT PIPE_CAPACITY = 4
PROPERTY StopEnds
CHECK_DEADLOCK FALSE
