SPECIFICATION FairSpec
CONSTANTS
  Openers = {o1}
  Protocols = {"IPRAW"}
  Lengths = {0, 1}
  TxMax = 1
  RxCap = 2
  Wrap = 4
PROPERTIES
  CallsReturn
  PendingResolves
