SPECIFICATION Spec
CONSTANTS
  a = a  b = b  c = c
  Nodes = {a, b, c}
  Calls = {i1, i2, i3, i4}
  None = None
  Thrown = Thrown
  AppCalls <- MutualCalls
  HandlerCalls <- NoCalls
  Kinds = {"management", "async"}
  Throws = {"management", "async"}
  MaxTimeouts = 1
SYMMETRY Symmetric
CHECK_DEADLOCK FALSE
INVARIANTS
  RepliesInOrder
  StaleAtWorst
  ReplyTakenOnce
