SPECIFICATION FairSpec
CONSTANTS
  TxMax = 2
  RxCap = 1
INVARIANTS
  SendsDoNotOverlap
  SendingHasOutcome
  HalfCloseDrained
PROPERTIES
  CallsReturn
