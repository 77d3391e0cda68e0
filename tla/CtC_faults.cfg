\* A reader on each node, b also produces; resets and exits.
SPECIFICATION Spec
CONSTANTS
  a = a  b = b  ab = ab  ba = ba  t1 = t1  t2 = t2
  k1 = k1  k2 = k2  q1 = q1  q2 = q2  Null = Null
  Node = {a, b}
  Conn = {ab, ba}
  Owner <- MCOwner
  Peer <- MCPeer
  Thread = {t1, t2}
  Home <- BothHome
  Key = {k1, k2}
  Stored <- BothStored
  Produces <- ClashProduces
  Request = {q1, q2}
  MaxCalls = 1
  Cap = 2
  RCap = 1
  Faults = {"reset", "exit"}
SYMMETRY RequestSymmetry
CHECK_DEADLOCK FALSE
INVARIANTS TypeOK NoLostWakeup NoUseAfterDestroy
PROPERTIES ImplementsRead
