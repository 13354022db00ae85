SPECIFICATION SpecRemote
CONSTANTS
  o1 = o1  o2 = o2
  Keys = {k1}
  Objects = {o1, o2}
  None = None
  NoId = NoId
  Null = Null
  MaxIds = 3
  KeyReuse = FALSE
  Clients = {c1, c2}
  Component <- TwoComponents
  Methods <- FewMethods
  Lapses = {}
  MaxStarts = 1
  MaxSends = 4
  MaxQueue = 2
  Received <- Transmitted
  MessageType <- Demarshal
  ParamOf <- ValueParam
  Refused <- RefusedValue
  ValueOf <- PullValue
  InitialValue <- Fresh
SYMMETRY Symmetric
CHECK_DEADLOCK FALSE
INVARIANTS
  TypeOKRemote
  RequestorsCounted
  OneProxy
  NothingDeletedUsed
  CallsAsMeant
