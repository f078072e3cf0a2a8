SPECIFICATION Spec
CONSTANTS
  a1 = a1
  a2 = a2
  a3 = a3
  a4 = a4
  NULL = NULL
  Junk = Junk
  Addrs = {a1, a2, a3, a4}
  Keys = {1, 2, 3, 4, 5, 9}
  Capacity = 3
  Scanned = 5
INVARIANTS SyncMeetsAll TableFindsQueue NothingUnset
PROPERTY ImplementsLru
