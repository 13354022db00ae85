SPECIFICATION Spec
CONSTANTS
  Keys = {k1, k2, k3}
  Objects = {o1, o2}
  None = None
  NoId = NoId
  MaxIds = 4
  KeyReuse = FALSE
SYMMETRY Symmetric
CHECK_DEADLOCK FALSE
INVARIANTS
  TypeOK
  FreedAreDead
  PublishedStays
  RefsReach
PROPERTIES
  NeverReplaced
