CONSTANTS
  SlotTokens = 2
  Tile = 2
  MaxFiles = 2
  MaxCalls = 2
  IoMayFail = TRUE
  Tokens <- MCTokens
  Calls <- MCErrorCalls
  Prepares <- MCErrorPrepares
SPECIFICATION Spec
INVARIANTS OutputExact
