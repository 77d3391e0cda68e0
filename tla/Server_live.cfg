\* Two clients register, run and perhaps crash.
SPECIFICATION FairSpec
CONSTANTS
  a = a  b = b  c = c  c1 = c1  c2 = c2
  Conn = {c1, c2}
  Client = {a, b}
  Addr <- AddrEach
  SCap = 1
  Faults <- FaultsCrash
PROPERTIES PairLearns EndedForgotten PeersForget
CHECK_DEADLOCK FALSE
