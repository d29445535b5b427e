SPECIFICATION Spec
CONSTANTS
  k1 = k1
  k2 = k2
  k3 = k3
  k4 = k4
  Keys = {k1, k2, k3, k4}
  Values = {v1, v2}
  Hash <- MCHash
  Empty = Empty
  Tombstone = Tombstone
  NotFound = NotFound
  MaxDictCapacity = 16
  Members = {1, 2, 7, 9, 15, 16}
  MemberHash <- MCMemberHash
  Vacant = Vacant
  SetLiterals <- MCLiterals
  MaxSetCapacity = 16
  Objects = 3
  Unset = Unset
  Freed = Freed
  QueueSizes = {2, 8, 9}
  MaxQueueCapacity = 18
  ListElements = {e1, e2}
  Garbage = Garbage
  Error = Error
  None = None
  MaxListCapacity = 8
PROPERTIES QueueIsFifo
