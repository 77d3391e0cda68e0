SPECIFICATION Spec
CONSTANTS
  a = a
  b = b
  c = c
  c1 = c1
  c2 = c2
  Conn = {a, b, c}
  Client = {a, b, c}
  Addr <- AddrOnce
  SCap = 2
  Faults <- FaultsNone
INVARIANT PairInformed
SYMMETRY ClientSymmetry
