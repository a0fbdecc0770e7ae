SPECIFICATION Spec
CONSTANTS
  Node = {n1, n2, n3}
  n1 = n1
  n2 = n2
  n3 = n3
  a = a
  b = b
  Item = {a, b}
  NULL = NULL
INVARIANTS
  TypeOK
  OneRing
PROPERTIES
  SequenceSpec
  LoopsEnd
