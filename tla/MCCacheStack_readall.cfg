CONSTANTS
  a = a
  b = b
  none = none
  Vocab <- MCVocab
  NoToken = none
  MaxSeqLen = 3
  MaxFailures = 2
  Slack = 1
  RamCapacity = 2
  NumLayers = 2
  MaxBatch = 2
  MaxRows = 5
SPECIFICATION Spec
CHECK_DEADLOCK FALSE
INVARIANTS ReadsAllStreamed
SYMMETRY Words
