\* Three runs, one unbuffered object of two pieces, one buffered; kills and refusals.
CONSTANTS
  p1 = p1  p2 = p2  p3 = p3  big = big  small = small
  Proc <- MCProc3
  Object = {big, small}
  Buffered = {small}
  NPieces = 2
  BadHash = BadHash
  None = None
  CanKill = TRUE
  CanFail = TRUE
SPECIFICATION StoreSpec
SYMMETRY MCSymmetry3
INVARIANTS StoreTypeOK MissingPiecesAreOwed TornReadMeansRaceOrCrash
PROPERTIES TornStaysTorn ImplementsContract
