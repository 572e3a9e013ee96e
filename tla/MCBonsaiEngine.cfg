CONSTANTS
  a = a
  b = b
  eos = eos
  Vocab <- MCVocab
  StopTokens <- MCStopTokens
  NumLayers = 8
  LayerBytes <- MCLayerBytes
  SharedBytes = 1
  Counts <- MCCounts
  NGram = 1
  MaxDraft = 3
  Cap = 4
  Calls <- MCCalls
  MaxCalls = 2
SPECIFICATION Spec
INVARIANTS TypeOK ResidencyBudget AccountingExact RecurrentSawContext AttentionSawContext StreamWithinBudget
PROPERTIES EveryStreamEnds
