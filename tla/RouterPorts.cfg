SPECIFICATION Spec
CONSTANTS
  Hosts = {h1, h2}
  Ports = {p1, p2}
  Addresses = {a1, a2}
  HeldCap = 2
  MaxStarts = 1
  None = None
INVARIANTS NoHoleLeaks
PROPERTIES StaysInOrder
SYMMETRY Alike
CHECK_DEADLOCK FALSE
