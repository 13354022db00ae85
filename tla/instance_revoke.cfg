SPECIFICATION Spec
CONSTANTS
  Keys = {k1, k2}
  Objects = {o1, o2}
  None = None
  NoId = NoId
  MaxIds = 3
  KeyReuse = FALSE
CHECK_DEADLOCK FALSE
PROPERTY
  KeyRevoked
