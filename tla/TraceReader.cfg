SPECIFICATION Spec
CONSTANTS
  Setups <- MCSetups
  PerRecord <- MCPerRecord
  K = 3
  WarpSize = 4
  LineSize = 4
  AccessSize = 2
  MaxKids = 4
INVARIANTS
    StreamExact
    KidsExact
    MacrosWhole
    
