\* Pushes overlap, a statement fails, a catch-up replays, the router reboots.
SPECIFICATION Spec
CONSTANTS
  p1 = p1
  p2 = p2
  r1 = r1
  Requests = {p1, p2}
  Runners = {r1}
  Increments = {0, 1}
  MaxPushes = 3
  MaxResets = 1
  MaxCatchUps = 1
  MaxFaults = 1
SYMMETRY Symmetry
INVARIANTS
  DeltasAreAdjacent
  DeltasAddUp
  NoByteIsLost
CHECK_DEADLOCK FALSE
