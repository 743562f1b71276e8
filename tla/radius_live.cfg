\* Every handler finishes and the network delivers: stored events get processed and bytes billed.
SPECIFICATION DeliveringSpec
CONSTANTS
  s1 = s1
  s2 = s2
  s3 = s3
  ip1 = ip1
  ip2 = ip2
  Ips = {ip1, ip2}
  NoIp = NoIp
  Sessions = {s1, s2}
  Anonymous = {s2}
  IpOf <- OwnIp
  Workers = {w1, w2}
  Runners = {}
  MaxInterims = 0
  Increments = {1}
  InOrder = TRUE
  MayLose = FALSE
  MaxClock = 4
  MaxCatchUps = 0
  MaxFaults = 0
PROPERTIES
  EverythingIsBilled
CHECK_DEADLOCK FALSE
