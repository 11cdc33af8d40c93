\* Any sequence of admissions, touches, pins and unpins, with at most two pins a weight.
SPECIFICATION Spec
CONSTANTS
  k1 = k1
  k2 = k2
  k3 = k3
  k4 = k4
  Key <- MCKey
  Size <- MCSize
  Capacity = 5
  Word = 16
  Distance = {1, 2}
  MaxTime = 2
  MaxPins = 2
INVARIANTS
  CacheTypeOK
  BytesAccounted
PROPERTIES
  EvictsInOrder
CHECK_DEADLOCK FALSE
