\* One run at a time; commit-tree of any object.
CONSTANTS
  p1 = p1  p2 = p2  root = root  sub = sub  git = git  f = f  g = g  a = a  b = b
  Proc = {p1}
  File = {f, g}
  Dir = {root, sub, git}
  Root = root
  DotGit = {git}
  Parent <- MCParent
  Piece = {a}
  NReads = 1
  Content <- MCOne
  Folder = Folder
  Absent = Absent
  CommitArgs <- MCAnyCommit
  ReadArgs <- MCNone
  MaxEdits = 0
  MaxStarts = 3
  Object <- MCObjectAndCommits
  Buffered = {}
  NPieces = 1
  BadHash = BadHash
  None = None
  CanKill = FALSE
  CanFail = FALSE
SPECIFICATION Spec
INVARIANTS CommitsNameTreesAndCommits
\* Every command has ended and the bound on their number is reached.
CHECK_DEADLOCK FALSE
