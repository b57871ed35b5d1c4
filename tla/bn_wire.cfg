SPECIFICATION Spec
CONSTANTS
  c1 = c1
  c2 = c2
  c3 = c3
  near = near
  far = far
  None = None
  Conns = {c1, c2, c3}
  Ips = {near, far}
  IpOf <- TwoAddresses
  MaxPerIp = 1
  MaxPackets = 1
CHECK_DEADLOCK FALSE
INVARIANTS
  SentIntact
