\* One run may be killed half way through a write and another store the same object.
CONSTANTS
  p1 = p1  p2 = p2  p3 = p3  big = big  small = small
  Proc <- MCProc2
  Object = {big, small}
  Buffered = {small}
  NPieces = 2
  BadHash = BadHash
  None = None
  CanKill = TRUE
  CanFail = FALSE
SPECIFICATION StoreSpec
INVARIANTS WriteObjectToDatabase
