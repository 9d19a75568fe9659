SPECIFICATION Spec
CONSTANTS
  Setups <- NvbitShort
  PerRecord <- MCPerRecord
  K = 8
  WarpSize = 4
  LineSize = 4
  AccessSize = 2
  MaxKids = 4
INVARIANT StreamExact
