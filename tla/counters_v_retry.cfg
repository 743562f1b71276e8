\* A statement fails between the sample and its delta; the catch-up replays the event.
SPECIFICATION Spec
CONSTANTS
  p1 = p1
  p2 = p2
  r1 = r1
  Requests = {p1}
  Runners = {r1}
  Increments = {1}
  MaxPushes = 2
  MaxResets = 0
  MaxCatchUps = 1
  MaxFaults = 1
INVARIANTS
  ProcessedLeavesDelta
CHECK_DEADLOCK FALSE
