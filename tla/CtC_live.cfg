\* Every remote read returns when nothing fails.
SPECIFICATION FairSpec
CONSTANTS
  a = a  b = b  ab = ab  ba = ba  t1 = t1  t2 = t2
  k1 = k1  k2 = k2  q1 = q1  q2 = q2  Null = Null
  Node = {a, b}
  Conn = {ab, ba}
  Owner <- MCOwner
  Peer <- MCPeer
  Thread = {t1}
  Home <- OneHome
  Key = {k1}
  Stored <- OneStored
  Produces <- NoProduces
  Request = {q1}
  MaxCalls = 2
  Cap = 5
  RCap = 1
  Faults = {}
INVARIANT NoMutualSendBlock
PROPERTIES EveryGetReturns ImplementsFairRead
