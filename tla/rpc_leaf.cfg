SPECIFICATION FairSpec
CONSTANTS
  a = a  b = b  c = c
  Nodes = {a, b, c}
  Calls = {i1, i2, i3}
  None = None
  Thrown = Thrown
  AppCalls <- MutualCalls
  HandlerCalls <- NoCalls
  Kinds = {"sync", "async"}
  Throws = {}
  MaxTimeouts = 0
CHECK_DEADLOCK FALSE
INVARIANTS
  TypeOK
  OwnReply
  RepliesAwaited
  ServedForWaiter
  BoundedReentrancy
PROPERTIES
  CallsReturn
  ImplementsFairRemoteCall
