\* Integers of 29 bits: four groups of seven and one bit, as 64 is nine and one.
CONSTANTS
  Group = 7
  Width = 29
  MaxLen = 4
  MaxSize = 1000000
  Unknown = Unknown
  Input <- MCRaw
  BaseSize <- MCBaseSize
  Program <- MCProgram
SPECIFICATION Spec
INVARIANTS TypeOK DeltaMeansItsProgram PiecesAreSound
\* The delta was applied or refused.
CHECK_DEADLOCK FALSE
