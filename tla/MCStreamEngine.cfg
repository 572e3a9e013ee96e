CONSTANTS
  SlotTokens = 2
  Tile = 2
  MaxFiles = 2
  MaxCalls = 2
  IoMayFail = FALSE
  Tokens <- MCTokens
  Calls <- MCCalls
  Prepares <- MCPrepares
SPECIFICATION Spec
INVARIANTS TypeOK NoSlotRace ConsumesItsChunk SemaphoreBalance OutputExact
PROPERTIES FileOutlivesReads ReportsAllReads EveryCallReturns ImplementsCausalAttention
