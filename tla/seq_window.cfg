SPECIFICATION WindowSpec
CONSTANTS
  HalfSpace = 8
  MaxDistance = 7
INVARIANT WindowExact
