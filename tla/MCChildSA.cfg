CONSTANTS
  Addr = {home, wifi, wifi6}
  IPv6 = {wifi6}
  Home = home
  MaxRequest = 4
  None = None
SPECIFICATION Spec
INVARIANTS
  TypeOK
  OneOwner
  KernelOwned
  IKEAgrees
  ESPAgrees
PROPERTY MigrationKeepsKeys
CHECK_DEADLOCK FALSE
