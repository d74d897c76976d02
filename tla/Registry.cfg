\* A USB unit with a serial number and a native one, two ports they may be at, and
\* as many handles as devices can be told apart.
CONSTANTS
  u1 = u1
  u2 = u2
  p1 = p1
  p2 = p2
  w1 = w1
  w2 = w2
  w3 = w3
  d1 = d1
  d2 = d2
  d3 = d3
  None = None
  Unit = {u1, u2}
  Serial = {u1}
  Usb = {u1}
  Path = {p1, p2}
  Word = {w1, w2, w3}
  Uuid = {d1, d2, d3}
  MaxPlugs = 2
SPECIFICATION Spec
SYMMETRY Symmetry
INVARIANTS
  NamesAreUnique
  ResetsAreReturns
  NothingIsUnsaved
PROPERTIES
  UuidIsForever
