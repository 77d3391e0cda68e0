SPECIFICATION Spec
CONSTANTS
  a = a
  b = b
  c = c
  c1 = c1
  c2 = c2
  Conn = {c1, c2}
  Client = {a, b}
  Addr <- AddrEach
  SCap = 1
  Faults <- FaultsMixed
INVARIANTS TypeOK NoGhosts ListedWhileRunning NoJoinCycle
CHECK_DEADLOCK FALSE
