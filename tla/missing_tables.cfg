SPECIFICATION SyncSpec
INVARIANT MissingIsMarked
CHECK_DEADLOCK FALSE
CONSTANTS
  Registered = {d1, d2}
  Pseudonymised = {d2}
  Syncs = {y1}
  MaxShape = 1
  NoSync = NoSync
