\* One run at a time, nothing dies; the device may refuse a write.
CONSTANTS
  p1 = p1  p2 = p2  p3 = p3  big = big  small = small
  Proc = {p1}
  Object = {big, small}
  Buffered = {small}
  NPieces = 2
  BadHash = BadHash
  None = None
  CanKill = FALSE
  CanFail = TRUE
SPECIFICATION StoreSpec
INVARIANTS WriteObjectToDatabase
