SPECIFICATION Spec
CONSTANTS
  Openers = {o1}
  Protocols = {"UDP", "MACRAW"}
  Lengths = {0, 2}
  TxMax = 2
  RxCap = 3
  Wrap = 16
INVARIANTS
  TypeOK
  OneSendAtATime
  PendingHasOutcome
  FramingKept
PROPERTIES
  OutcomeIsOwn
