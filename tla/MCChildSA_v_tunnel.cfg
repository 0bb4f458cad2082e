CONSTANTS
  Addr = {home, wifi, wifi6}
  IPv6 = {wifi6}
  Home = home
  MaxRequest = 3
  None = None
SPECIFICATION Spec
INVARIANT TunnelKept
CHECK_DEADLOCK FALSE
