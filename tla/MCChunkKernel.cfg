CONSTANTS
  Tile = 3
  MaxBurst = 3
  Tokens <- MCTokens
SPECIFICATION Spec
INVARIANTS ExactAfterLastPass StateCarriesOver
