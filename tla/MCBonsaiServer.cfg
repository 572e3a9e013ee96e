CONSTANTS
  Requests <- MCRequests
  MaxLines = 3
SPECIFICATION Spec
INVARIANTS TypeOK AnswersOnce WholeAnswer DroppedForCause
PROPERTIES EveryRequestEnds
