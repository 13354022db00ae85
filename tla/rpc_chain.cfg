SPECIFICATION FairSpec
CONSTANTS
  a = a  b = b  c = c
  Nodes = {a, b, c}
  Calls = {i1, i2, i3, i4}
  None = None
  Thrown = Thrown
  AppCalls <- ChainHead
  HandlerCalls <- ChainRest
  Kinds = {"sync"}
  Throws = {}
  MaxTimeouts = 0
CHECK_DEADLOCK FALSE
INVARIANTS
  OwnReply
  ServedForWaiter
PROPERTIES
  LeafCallsReturn
