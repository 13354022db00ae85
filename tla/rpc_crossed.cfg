SPECIFICATION Spec
CONSTANTS
  a = a  b = b  c = c
  Nodes = {a, b, c}
  Calls = {i1, i2, i3, i4}
  None = None
  Thrown = Thrown
  AppCalls <- ChainHead
  HandlerCalls <- ChainRest
  Kinds = {"async", "management"}
  Throws = {}
  MaxTimeouts = 0
CHECK_DEADLOCK FALSE
INVARIANT
  OwnReply
