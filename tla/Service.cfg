SPECIFICATION Spec
CONSTANTS
  s1 = s1
  s2 = s2
  Session = {s1, s2}
  Command = {"exit", "exitserver"}
  MAX_TRY_TIME = 5
  MaxInput = 1
  SigtermSent = TRUE
SYMMETRY Symmetry
INVARIANTS
  TypeOK
  OneActiveAtFront
  FrontNotLeftWaiting
  MutexDiscipline
  CommandLineHasOwner
  FreedIsFinished
  FaultsWhileUp
CHECK_DEADLOCK FALSE
