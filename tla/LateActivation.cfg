SPECIFICATION Spec
CONSTANTS
  s1 = s1
  s2 = s2
  Session = {s1, s2}
  Command = {"other"}
  MAX_TRY_TIME = 5
  MaxInput = 1
  SigtermSent = FALSE
INVARIANT LoggedOffLosesConsole
CHECK_DEADLOCK FALSE
