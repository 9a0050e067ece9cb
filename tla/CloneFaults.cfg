\* Two clones into one destination, of a remote that moves once; kills and refusals.
CONSTANTS
  p1 = p1  p2 = p2  first = first  second = second  bare = bare  odd = odd  linked = linked
  tree = tree  sub = sub  flat = flat  links = links  old = old  new = new  empty = empty
  Proc = {p1, p2}
  Body <- MCBody
  Deltas <- MCDeltas
  EmptyBody = empty
  Garbage = Garbage
  Response <- MCResponses
  HeadHash <- MCHeads
  MaxInt = 5
  MaxStarts = 2
  Object <- MCObject
  Buffered <- MCHeads
  NPieces = 2
  BadHash = BadHash
  None = None
  CanKill = TRUE
  CanFail = TRUE
  Directory = Directory
  Malformed = Malformed
  ParseTreeEntries <- MCParse
  ExtractCommitTreeHash <- MCExtract
  Small = {old}
  Listings <- MCListings
  Packs <- MCPacks
  Denied <- MCDenied
  Before <- MCNothing
  MaxMoves = 1
SPECIFICATION CloneSpec
SYMMETRY MCSymmetry
INVARIANTS TypeOK SoundPackUnpacks CloneTypeOK CheckoutIsTree CloneFailsForCause
\* Every clone has ended and the bound on their number is reached.
CHECK_DEADLOCK FALSE
