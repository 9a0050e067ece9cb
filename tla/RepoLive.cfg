\* Two runs at a time, three in all, one edit; nothing dies and nothing is refused.
CONSTANTS
  p1 = p1  p2 = p2  root = root  sub = sub  git = git  f = f  g = g  a = a  b = b
  Proc = {p1, p2}
  File = {f, g}
  Dir = {root, sub, git}
  Root = root
  DotGit = {git}
  Parent <- MCParent
  Piece = {a}
  NReads = 1
  Content <- MCOne
  Folder = Folder
  Absent = Absent
  CommitArgs <- MCNone
  ReadArgs <- MCNone
  MaxEdits = 1
  MaxStarts = 3
  Object <- MCObject
  Buffered = {}
  NPieces = 2
  BadHash = BadHash
  None = None
  CanKill = FALSE
  CanFail = FALSE
SPECIFICATION FairSpec
PROPERTIES AckedBecomesDurable PrintedTreeBecomesComplete CommandsEnd
\* Every command has ended and the bound on their number is reached.
CHECK_DEADLOCK FALSE
