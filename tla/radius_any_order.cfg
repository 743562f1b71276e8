\* A handler and catch-up requests race over one session, in any order, with a failure or restart.
SPECIFICATION Spec
CONSTANTS
  s1 = s1
  s2 = s2
  s3 = s3
  ip1 = ip1
  ip2 = ip2
  Ips = {ip1}
  NoIp = NoIp
  Sessions = {s1}
  Anonymous = {}
  IpOf <- SharedIp
  Workers = {w1}
  Runners = {r1}
  MaxInterims = 2
  Increments = {1}
  InOrder = FALSE
  MayLose = TRUE
  MaxClock = 4
  MaxCatchUps = 2
  MaxFaults = 1
INVARIANTS
  TypeOK
  ProcessedLeavesSession
PROPERTIES
  EndedForGood
CHECK_DEADLOCK FALSE
