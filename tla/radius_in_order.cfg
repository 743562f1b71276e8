\* Packets of each session in order, any of them lost, one statement may fail; two sessions share an address.
SPECIFICATION Spec
CONSTANTS
  s1 = s1
  s2 = s2
  s3 = s3
  ip1 = ip1
  ip2 = ip2
  Ips = {ip1}
  NoIp = NoIp
  Sessions = {s1, s2}
  Anonymous = {}
  IpOf <- SharedIp
  Workers = {w1, w2}
  Runners = {}
  MaxInterims = 1
  Increments = {1}
  InOrder = TRUE
  MayLose = TRUE
  MaxClock = 4
  MaxCatchUps = 0
  MaxFaults = 1
SYMMETRY Symmetry
INVARIANTS
  EndedHoldsNoAddress
  QuotaFollowsSession
  AddressIsHandedOver
PROPERTIES
  ImplementsBilling
CHECK_DEADLOCK FALSE
