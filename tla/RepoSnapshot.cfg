\* One run at a time, two in all; two contents, three edits of the working tree.
CONSTANTS
  p1 = p1  p2 = p2  root = root  sub = sub  git = git  f = f  g = g  a = a  b = b
  Proc = {p1}
  File = {f, g}
  Dir = {root, sub, git}
  Root = root
  DotGit = {git}
  Parent <- MCParent
  Piece = {a, b}
  NReads = 2
  Content <- MCTwo
  Folder = Folder
  Absent = Absent
  CommitArgs <- MCNone
  ReadArgs <- MCNone
  MaxEdits = 3
  MaxStarts = 2
  Object <- MCObject
  Buffered = {}
  NPieces = 1
  BadHash = BadHash
  None = None
  CanKill = FALSE
  CanFail = FALSE
SPECIFICATION Spec
PROPERTIES WriteTreeIsSnapshot
\* Every command has ended and the bound on their number is reached.
CHECK_DEADLOCK FALSE
