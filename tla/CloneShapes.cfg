\* One clone after another: every shape of answer, listing and destination.
CONSTANTS
  p1 = p1  p2 = p2  first = first  second = second  bare = bare  odd = odd  linked = linked
  tree = tree  sub = sub  flat = flat  links = links  old = old  new = new  empty = empty
  Proc = {p1}
  Body <- MCBody
  Deltas <- MCDeltas
  EmptyBody = empty
  Garbage = Garbage
  Response <- MCManyResponses
  HeadHash <- MCManyHeads
  MaxInt = 5
  MaxStarts = 2
  Object <- MCObject
  Buffered = {}
  NPieces = 1
  BadHash = BadHash
  None = None
  CanKill = FALSE
  CanFail = FALSE
  Directory = Directory
  Malformed = Malformed
  ParseTreeEntries <- MCParse
  ExtractCommitTreeHash <- MCExtract
  Small = {}
  Listings <- MCManyListings
  Packs <- MCShapes
  Denied <- MCDenied
  Before <- MCPlaces
  MaxMoves = 0
SPECIFICATION CloneFairSpec
INVARIANTS SuccessMeansWholePack HeadIsPreferred CloneFailsForCause
PROPERTIES CloneEnds
\* Every clone has ended and the bound on their number is reached.
CHECK_DEADLOCK FALSE
