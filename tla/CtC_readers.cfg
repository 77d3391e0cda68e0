\* Two threads of one node read two keys of the other; cv.wait may wake spuriously.
SPECIFICATION Spec
CONSTANTS
  a = a  b = b  ab = ab  ba = ba  t1 = t1  t2 = t2
  k1 = k1  k2 = k2  q1 = q1  q2 = q2  Null = Null
  Node = {a, b}
  Conn = {ab, ba}
  Owner <- MCOwner
  Peer <- MCPeer
  Thread = {t1, t2}
  Home <- ReadersHome
  Key = {k1, k2}
  Stored <- ReadersStored
  Produces <- NoProduces
  Request = {q1, q2}
  MaxCalls = 1
  Cap = 5
  RCap = 2
  Faults = {"spurious"}
SYMMETRY ReadersSymmetry
INVARIANTS FiledOnce AnswersInOrder AnswerIsRight NoLockCycle
