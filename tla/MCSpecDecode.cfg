CONSTANTS
  Period = 2
  NGram = 1
  MaxDraft = 2
  MaxContext = 10
  MaxCalls = 2
  Vocab <- MCVocab
  Eos <- MCEos
  Models <- AllModels
  Calls <- MCCalls
SPECIFICATION Spec
INVARIANTS TypeOK StaysWithinContext StatsExplainOutput NeverSlowerThanSequential
PROPERTIES LoopKeepsCachesExact
