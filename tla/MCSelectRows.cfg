SPECIFICATION RowsSpec
CONSTANTS
  Blocks = {b1, b2, b3, b4, b5, b6}
  Rows = {r1, r2}
  Null = Null
  Poison = Poison
  MaxRows = 2
  MaxResults = 3
INVARIANTS
  RowsInv
  OnlyKnownLeaks
PROPERTIES
  MemorySafe
  RefinesResultRows
SYMMETRY AnyBlock
CHECK_DEADLOCK FALSE
