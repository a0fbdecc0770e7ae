SPECIFICATION Spec
CONSTANTS
  Word = {"username", "passwd", "server", "exit", "stop"}
  Pasted <- MCPasted
  MAX_USERNAME_LEN = 1
  MAX_PASSWD_LEN = 1
  Slack = 2
  MaxStdin = 3
  MaxTyped = 5
INVARIANTS
  TypeOK
  DropsOnlyNul
  SplitsAsCounted
CHECK_DEADLOCK FALSE
