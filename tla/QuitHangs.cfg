SPECIFICATION FairSpec
CONSTANTS
  s1 = s1
  Session = {s1}
  Command = {"exitserver"}
  MAX_TRY_TIME = 5
  MaxInput = 1
  SigtermSent = FALSE
PROPERTY QuitEnds
CHECK_DEADLOCK FALSE
