SPECIFICATION Spec
CONSTANTS
  r = r  x = x  y = y
  Space <- ThreeObjects
  Subscribers = {s1, s2}
  Values = {0, 1}
  Default = 0
  Starts <- EmptyOrFull
  Lapses = {}
  MaxEdits = 2
  MaxJoins = 2
  Nil = Nil
  None = None
CHECK_DEADLOCK FALSE
INVARIANTS
  TypeOK
  NumbersAgree
PROPERTIES
  EveryServiceKnown
  ImplementsMirror

SYMMETRY Symmetric
