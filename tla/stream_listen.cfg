SPECIFICATION Spec
CONSTANTS
  TxMax = 2
  RxCap = 1
PROPERTIES
  ListenAdmitsClient
