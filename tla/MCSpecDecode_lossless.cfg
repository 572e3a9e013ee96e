CONSTANTS
  Period = 3
  NGram = 1
  MaxDraft = 2
  MaxContext = 10
  MaxCalls = 2
  Vocab <- MCVocab
  Eos <- MCEos
  Models <- AllModels
  Calls <- GreedyCalls
SPECIFICATION Spec
INVARIANTS Lossless
