SPECIFICATION Spec
CONSTANTS
  p1 = p1
  p2 = p2
  Instance = {p1, p2}
  Value = {"long"}
  KeySize <- MCKeySize
  Files <- MCFiles
  BufLen = 256
  MaxFailures = 1
  MaxTorn = 1
SYMMETRY Symmetry
INVARIANTS
  TypeOK
  OneGameServer
  CacheIsSaved
  SettingsDurable
  EmptyOrWhole
  ReadsLastValue
  ReadsBack
CHECK_DEADLOCK FALSE
