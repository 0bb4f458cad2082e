CONSTANTS
  Api = {der, str}
  Der = {der}
  Verdict <- Verdicts
  MaxConn = 1
  None = None
SPECIFICATION FairSpec
INVARIANTS
  TypeOK
  SendsNeverBlock
  WaitersReachable
  PendingIsLive
  
PROPERTIES
  ImplementsExchange
  BrokenConnectionFreesCalls
CHECK_DEADLOCK FALSE
