\* A catch-up request picks up the row a UDP handler is still normalising.
SPECIFICATION Spec
CONSTANTS
  s1 = s1
  s2 = s2
  s3 = s3
  ip1 = ip1
  ip2 = ip2
  Ips = {ip1}
  NoIp = NoIp
  Sessions = {s1}
  Anonymous = {}
  IpOf <- SharedIp
  Workers = {w1}
  Runners = {r1}
  MaxInterims = 0
  Increments = {1}
  InOrder = FALSE
  MayLose = TRUE
  MaxClock = 2
  MaxCatchUps = 1
  MaxFaults = 0
INVARIANTS
  ChargedOnce
CHECK_DEADLOCK FALSE
