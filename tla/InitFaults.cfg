\* Two commands at a time, three in all, in directories one in another; kills and refusals.
CONSTANTS
  p1 = p1  p2 = p2  top = top  mid = mid  low = low
  Proc = {p1, p2}
  Dir <- MCDir
  Above <- MCAbove
  None = None
  MaxStarts = 3
  CanKill = TRUE
  CanFail = TRUE
SPECIFICATION InitFairSpec
INVARIANTS InitTypeOK HeadIsOwed FoundIsNearest
PROPERTIES InitEnds
\* Every command has ended and the bound on their number is reached.
CHECK_DEADLOCK FALSE
