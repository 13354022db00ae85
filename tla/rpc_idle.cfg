SPECIFICATION Spec
CONSTANTS
  a = a  b = b  c = c
  Nodes = {a, b, c}
  Calls = {i1, i2}
  None = None
  Thrown = Thrown
  AppCalls <- ChainHead
  HandlerCalls <- ChainOn
  Kinds = {"sync"}
  Throws = {}
  MaxTimeouts = 0
CHECK_DEADLOCK FALSE
INVARIANT
  RepliesSent
