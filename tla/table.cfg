SPECIFICATION Spec
CONSTANTS
  k1 = k1
  k2 = k2
  k3 = k3
  Keys = {k1, k2, k3}
  Values = {v1, v2}
  Hash <- MCHash
  Empty = Empty
  Tombstone = Tombstone
  NotFound = NotFound
  MaxCapacity = 16
INVARIANTS TypeOK LoadBounded Reachable
PROPERTIES ImplementsMap
