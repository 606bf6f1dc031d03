SPECIFICATION Spec
CONSTANTS
  a = a
  x = x
  y = y
  Fields = {a, x, y}
  Fan <- ChainFan
  Peer <- ChainPeer
  NoField = NoField
  w1 = w1
  w2 = w2
  Writers = {w1, w2}
  Roots = {a}
  v0 = v0
  v1 = v1
  v2 = v2
  Values = {v0, v1, v2}
  Initial = v0
  MaxWrites = 2
  Failures = {}
SYMMETRY Symmetry
INVARIANT ObserversConverge
CHECK_DEADLOCK FALSE
