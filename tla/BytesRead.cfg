\* Groups of two bits in a width of five, as 64 is nine groups of seven and one bit;
\* trees of at most two entries with hashes of two bytes, and strings of three bytes.
CONSTANTS
  Group = 2
  Width = 5
  MaxLen = 4
  Input <- MCInput
  Space = 32
  Nul = 0
  HashLength = 2
  MaxTree = 7
  List <- MCLists
  Raw <- MCRaw
  Unwritten = Unwritten
SPECIFICATION MCSpec
INVARIANTS VarIntTypeOK NumbersAreRead TreeTypeOK TreesAreRead
\* The string was read or refused.
CHECK_DEADLOCK FALSE
